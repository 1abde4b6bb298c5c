--------------------------- MODULE MDriverProofs ---------------------------
(***************************************************************************)
(* What the range list of the driver does guarantee, whatever the package  *)
(* answers, for every set of traces and every heap; that errors and        *)
(* invalid traces are the same in number; the types of the state; and that *)
(* the utilization the driver prints never exceeds one.                    *)
(***************************************************************************)
EXTENDS MDriver, SequenceTheorems, FiniteSetTheorems, TLAPS

Span == [lo : Int, hi : Int]

\* What the steps rely on: the types of the trace, the list and mem_brk, and the
\* count of errors, with the list as it is at any time.
DriverType ==
  /\ trace \in Traces \cup {<<>>} /\ i \in Nat \ {0}
  /\ ranges \in Seq(Span)
  /\ pass = "valid" => brk \in Brks

Listed(list, top) ==
  \A k \in DOMAIN list : IS_ALIGNED(list[k].lo) /\ InHeap(list[k], top)

Nested(list) ==
  \A k, l \in DOMAIN list : k < l =>
    Apart(list[k], list[l]) \/ Encloses(list[k], list[l])

RInv == DriverType /\ Nested(ranges) /\ RangesInHeap
-----------------------------------------------------------------------------
(* The list.                                                               *)

\* Taking a range away leaves the others in their order.
LEMMA WithoutIsSubsequence ==
  ASSUME NEW list \in Seq(Span), NEW k \in DOMAIN list
  PROVE  /\ Without(list, k) \in Seq(Span)
         /\ Len(Without(list, k)) = Len(list) - 1
         /\ \A j \in 1 .. Len(list) - 1 :
              Without(list, k)[j] = IF j < k THEN list[j] ELSE list[j + 1]
<1> DEFINE a == SubSeq(list, 1, k - 1)
           b == SubSeq(list, k + 1, Len(list))
<1>1. /\ Len(list) \in Nat /\ k \in 1 .. Len(list)
      /\ \A j \in 1 .. Len(list) : list[j] \in Span
  <2>1. Len(list) \in Nat /\ list \in [1 .. Len(list) -> Span]
    BY LenProperties
  <2> QED BY <2>1
<1>2. /\ a \in Seq(Span) /\ Len(a) = k - 1
      /\ \A j \in 1 .. k - 1 : a[j] = list[j]
  <2>1. \A j \in 1 .. k - 1 : list[j] \in Span
    BY <1>1
  <2>2. 1 \in Int /\ k - 1 \in Int
    BY <1>1
  <2>3. /\ a \in Seq(Span)
        /\ Len(a) = IF 1 <= k - 1 THEN (k - 1) - 1 + 1 ELSE 0
        /\ \A j \in 1 .. (k - 1) - 1 + 1 : a[j] = list[1 + j - 1]
    BY <2>1, <2>2, SubSeqProperties
  <2> HIDE DEF a
  <2> QED BY <2>3, <1>1
<1>3. /\ b \in Seq(Span) /\ Len(b) = Len(list) - k
      /\ \A j \in 1 .. Len(list) - k : b[j] = list[k + j]
  <2>1. \A j \in k + 1 .. Len(list) : list[j] \in Span
    BY <1>1
  <2>2. k + 1 \in Int /\ Len(list) \in Int
    BY <1>1
  <2>3. /\ b \in Seq(Span)
        /\ Len(b) = IF k + 1 <= Len(list) THEN Len(list) - (k + 1) + 1 ELSE 0
        /\ \A j \in 1 .. Len(list) - (k + 1) + 1 : b[j] = list[(k + 1) + j - 1]
    BY <2>1, <2>2, SubSeqProperties
  <2> HIDE DEF b
  <2> QED BY <2>3, <1>1
<1>4. Without(list, k) = a \o b
  BY DEF Without
<1> HIDE DEF a, b
<1>5. /\ a \o b \in Seq(Span) /\ Len(a \o b) = Len(a) + Len(b)
      /\ \A j \in 1 .. Len(a) + Len(b) :
           (a \o b)[j] = IF j <= Len(a) THEN a[j] ELSE b[j - Len(a)]
  BY <1>2, <1>3, ConcatProperties
<1>6. Len(a \o b) = Len(list) - 1
  BY <1>1, <1>2, <1>3, <1>5
<1>7. ASSUME NEW j \in 1 .. Len(list) - 1
      PROVE  (a \o b)[j] = IF j < k THEN list[j] ELSE list[j + 1]
  <2>1. CASE j < k
    <3>1. j <= Len(a) /\ j \in 1 .. Len(a) + Len(b) /\ j \in 1 .. k - 1
      BY <2>1, <1>1, <1>2, <1>3
    <3> QED BY <2>1, <3>1, <1>2, <1>5
  <2>2. CASE ~ (j < k)
    <3>1. /\ ~ (j <= Len(a)) /\ j \in 1 .. Len(a) + Len(b)
          /\ j - Len(a) \in 1 .. Len(list) - k /\ k + (j - Len(a)) = j + 1
      BY <2>2, <1>1, <1>2, <1>3
    <3> QED BY <2>2, <3>1, <1>3, <1>5
  <2> QED BY <2>1, <2>2
<1> QED BY <1>4, <1>5, <1>6, <1>7

LEMMA RemoveKeepsList ==
  ASSUME NEW list \in Seq(Span), NEW lo, NEW top, Nested(list), Listed(list, top)
  PROVE  LET rest == remove_range(list, lo)
         IN  rest \in Seq(Span) /\ Nested(rest) /\ Listed(rest, top)
<1>1. CASE StartsAt(list, lo) = {}
  BY <1>1 DEF remove_range
<1>2. CASE StartsAt(list, lo) # {}
  <2> DEFINE k == CHOOSE k \in StartsAt(list, lo) : TRUE
             w == Without(list, k)
  <2>1. k \in StartsAt(list, lo)
    BY <1>2
  <2>2. k \in DOMAIN list
    BY <2>1 DEF StartsAt
  <2>3. remove_range(list, lo) = w
    BY <1>2 DEF remove_range
  <2> HIDE DEF k
  <2>4. /\ w \in Seq(Span) /\ Len(w) = Len(list) - 1
        /\ \A j \in 1 .. Len(list) - 1 : w[j] = IF j < k THEN list[j] ELSE list[j + 1]
    BY <2>2, WithoutIsSubsequence
  <2> HIDE DEF w
  <2>5. DOMAIN w = 1 .. Len(w) /\ DOMAIN list = 1 .. Len(list) /\ Len(list) \in Nat
    BY <2>4, LenProperties
  <2>6. k \in 1 .. Len(list)
    BY <2>2, <2>5
  <2>7. Listed(w, top)
    BY <2>4, <2>5, <2>6 DEF Listed
  <2>8. Nested(w)
    <3> SUFFICES ASSUME NEW j \in DOMAIN w, NEW l \in DOMAIN w, j < l
                 PROVE  Apart(w[j], w[l]) \/ Encloses(w[j], w[l])
      BY DEF Nested
    <3>1. PICK jj \in DOMAIN list, ll \in DOMAIN list :
            jj < ll /\ w[j] = list[jj] /\ w[l] = list[ll]
      <4> DEFINE at(x) == IF x < k THEN x ELSE x + 1
      <4>1. at(j) \in DOMAIN list /\ at(l) \in DOMAIN list /\ at(j) < at(l)
        BY <2>4, <2>5, <2>6
      <4>2. w[j] = list[at(j)] /\ w[l] = list[at(l)]
        BY <2>4, <2>5
      <4> QED BY <4>1, <4>2
    <3> QED BY <3>1 DEF Nested
  <2> QED BY <2>3, <2>4, <2>7, <2>8
<1> QED BY <1>1, <1>2

LEMMA AddKeepsList ==
  ASSUME NEW list \in Seq(Span), NEW r \in Span, NEW top,
         Nested(list), Listed(list, top), Acceptable(list, r, top)
  PROVE  LET more == add_range(list, r)
         IN  more \in Seq(Span) /\ Nested(more) /\ Listed(more, top)
<1> DEFINE more == add_range(list, r)
<1>1. Len(list) \in Nat /\ DOMAIN list = 1 .. Len(list)
      /\ \A k \in DOMAIN list : list[k] \in Span
  BY LenProperties, ElementOfSeq
<1>2. /\ more \in Seq(Span) /\ Len(more) = Len(list) + 1
      /\ \A k \in 1 .. Len(list) + 1 : more[k] = IF k = 1 THEN r ELSE list[k - 1]
  <2>1. <<r>> \in Seq(Span) /\ Len(<<r>>) = 1 /\ <<r>>[1] = r
    OBVIOUS
  <2>2. /\ <<r>> \o list \in Seq(Span) /\ Len(<<r>> \o list) = Len(<<r>>) + Len(list)
        /\ \A k \in 1 .. Len(<<r>>) + Len(list) :
             (<<r>> \o list)[k] = IF k <= Len(<<r>>) THEN <<r>>[k] ELSE list[k - Len(<<r>>)]
    BY <2>1, ConcatProperties
  <2>3. more = <<r>> \o list
    BY DEF add_range
  <2> QED BY <2>1, <2>2, <2>3, <1>1
<1> HIDE DEF more
<1>3. DOMAIN more = 1 .. Len(list) + 1
  BY <1>1, <1>2, LenProperties
<1>4. Listed(more, top)
  <2> SUFFICES ASSUME NEW k \in DOMAIN more
               PROVE  IS_ALIGNED(more[k].lo) /\ InHeap(more[k], top)
    BY DEF Listed
  <2>1. CASE k = 1
    <3>1. more[k] = r
      BY <2>1, <1>2, <1>3
    <3> QED BY <3>1 DEF Acceptable
  <2>2. CASE k # 1
    <3>1. k - 1 \in DOMAIN list /\ more[k] = list[k - 1]
      BY <2>2, <1>1, <1>2, <1>3
    <3> QED BY <3>1 DEF Listed
  <2> QED BY <2>1, <2>2
<1>5. Nested(more)
  <2> SUFFICES ASSUME NEW k \in DOMAIN more, NEW l \in DOMAIN more, k < l
               PROVE  Apart(more[k], more[l]) \/ Encloses(more[k], more[l])
    BY DEF Nested
  <2>1. l - 1 \in DOMAIN list /\ more[l] = list[l - 1]
    BY <1>1, <1>2, <1>3
  <2>2. CASE k = 1
    <3>1. more[k] = r /\ ~ Overlaps(r, list[l - 1])
      BY <2>1, <2>2, <1>2, <1>3 DEF Acceptable
    <3>2. list[l - 1] \in Span
      BY <2>1, <1>1
    <3> QED BY <2>1, <3>1, <3>2 DEF Overlaps, Within, Span, Apart, Encloses
  <2>3. CASE k # 1
    <3>1. k - 1 \in DOMAIN list /\ more[k] = list[k - 1] /\ k - 1 < l - 1
      BY <2>3, <1>1, <1>2, <1>3
    <3> QED BY <2>1, <3>1 DEF Nested
  <2> QED BY <2>2, <2>3
<1> QED BY <1>2, <1>4, <1>5 DEF more
-----------------------------------------------------------------------------
(* The steps.                                                              *)

LEMMA OpType ==
  ASSUME DriverType, i <= Len(trace)
  PROVE  Op \in Request
<1>1. trace \in Seq(Request)
  BY MDriverAssumption DEF DriverType, WellFormed
<1>2. i \in 1 .. Len(trace)
  BY <1>1 DEF DriverType
<1> QED BY <1>1, <1>2, ElementOfSeq DEF Op

LEMMA ExtentType ==
  ASSUME DriverType, i <= Len(trace), NEW p \in Pointers
  PROVE  Extent(p, Op.size) \in Span
<1>1. Op.size \in Int /\ p \in Int
  BY OpType, MDriverAssumption DEF Request
<1> QED BY <1>1 DEF Extent, Span

\* More heap does no harm to the ranges that are in it.
LEMMA HeapGrows ==
  ASSUME NEW list \in Seq(Span), NEW top \in Int, NEW more \in Int, top <= more,
         Listed(list, top)
  PROVE  Listed(list, more)
<1> SUFFICES ASSUME NEW k \in DOMAIN list
             PROVE  IS_ALIGNED(list[k].lo) /\ InHeap(list[k], more)
  BY DEF Listed
<1>1. list[k] \in Span
  BY LenProperties, ElementOfSeq
<1> QED BY <1>1, MDriverAssumption DEF Listed, InHeap, Span

LEMMA RInit == Init => RInv
BY EmptySeq DEF Init, RInv, DriverType, Nested, RangesInHeap

LEMMA RNext ==
  ASSUME RInv, [Next]_vars
  PROVE  RInv'
<1> USE DEF RInv
<1>1. DriverType /\ Nested(ranges) /\ (pass = "valid" => Listed(ranges, brk))
  BY DEF RangesInHeap, Listed
<1>2. Brks \subseteq Int
  BY MDriverAssumption
<1> SUFFICES DriverType' /\ Nested(ranges)' /\ (pass' = "valid" => Listed(ranges', brk'))
  BY DEF RangesInHeap, Listed
<1>3. CASE StartValid
  BY <1>3, <1>1, EmptySeq DEF StartValid, DriverType, Nested, Listed
<1>4. CASE InitFails
  BY <1>4, <1>1, EmptySeq DEF InitFails, malloc_error, NextTrace, DriverType, Nested
<1>5. CASE ValidFails
  BY <1>5, <1>1 DEF ValidFails, malloc_error, NextTrace, DriverType, Nested
<1>6. CASE ValidAlloc
  <2>1. pass = "valid" /\ i <= Len(trace) /\ brk \in Brks
    BY <1>6, <1>1 DEF ValidAlloc, At, DriverType
  <2>2. PICK p \in Pointers :
          /\ brk' \in {b \in Brks : b >= brk}
          /\ \/ /\ Acceptable(ranges, Extent(p, Op.size), brk')
                /\ ranges' = add_range(ranges, Extent(p, Op.size))
                /\ i' = i + 1 /\ UNCHANGED <<pass, trace>>
             \/ UNCHANGED ranges /\ NextTrace
    BY <1>6 DEF ValidAlloc, Remember, malloc_error
  <2>3. Listed(ranges, brk')
    BY <2>1, <2>2, <1>1, <1>2, HeapGrows DEF DriverType
  <2>4. CASE Acceptable(ranges, Extent(p, Op.size), brk')
             /\ ranges' = add_range(ranges, Extent(p, Op.size))
             /\ i' = i + 1 /\ UNCHANGED <<pass, trace>>
    <3>1. ranges' \in Seq(Span) /\ Nested(ranges') /\ Listed(ranges', brk')
      BY <2>1, <2>3, <2>4, <1>1, ExtentType, AddKeepsList DEF DriverType
    <3> QED BY <3>1, <2>2, <2>4, <1>1 DEF DriverType, Nested
  <2>5. CASE UNCHANGED ranges /\ NextTrace
    BY <2>5, <1>1 DEF NextTrace, DriverType, Nested
  <2> QED BY <2>2, <2>4, <2>5
<1>7. CASE ValidRealloc
  <2> DEFINE rest == remove_range(ranges, blocks[Op.index])
  <2>1. pass = "valid" /\ i <= Len(trace) /\ brk \in Brks
    BY <1>7, <1>1 DEF ValidRealloc, At, DriverType
  <2>2. PICK p \in Pointers :
          /\ brk' \in {b \in Brks : b >= brk}
          /\ \/ /\ Acceptable(rest, Extent(p, Op.size), brk')
                /\ ranges' = add_range(rest, Extent(p, Op.size))
                /\ \/ i' = i + 1 /\ pass' = pass /\ trace' = trace
                   \/ NextTrace
             \/ ranges' = rest /\ NextTrace
    BY <1>7 DEF ValidRealloc, Remember, malloc_error
  <2>3. Listed(ranges, brk')
    BY <2>1, <2>2, <1>1, <1>2, HeapGrows DEF DriverType
  <2>4. rest \in Seq(Span) /\ Nested(rest) /\ Listed(rest, brk')
    BY <2>3, <1>1, RemoveKeepsList DEF DriverType
  <2> HIDE DEF rest
  <2>5. CASE Acceptable(rest, Extent(p, Op.size), brk')
             /\ ranges' = add_range(rest, Extent(p, Op.size))
    <3>1. ranges' \in Seq(Span) /\ Nested(ranges') /\ Listed(ranges', brk')
      BY <2>1, <2>4, <2>5, <1>1, ExtentType, AddKeepsList
    <3>2. CASE i' = i + 1 /\ pass' = pass /\ trace' = trace
      BY <3>1, <3>2, <2>2, <1>1 DEF DriverType, Nested
    <3>3. CASE NextTrace
      BY <3>1, <3>3, <1>1 DEF NextTrace, DriverType, Nested
    <3> QED BY <2>2, <3>2, <3>3
  <2>6. CASE ranges' = rest /\ NextTrace
    BY <2>4, <2>6, <1>1 DEF NextTrace, DriverType, Nested
  <2> QED BY <2>2, <2>5, <2>6
<1>8. CASE ValidFree
  <2> DEFINE rest == remove_range(ranges, blocks[Op.index])
  <2>1. /\ pass = "valid" /\ brk' = brk /\ ranges' = rest
        /\ i' = i + 1 /\ UNCHANGED <<pass, trace>>
    BY <1>8 DEF ValidFree, At
  <2>2. rest \in Seq(Span) /\ Nested(rest) /\ Listed(rest, brk)
    BY <2>1, <1>1, RemoveKeepsList DEF DriverType
  <2> HIDE DEF rest
  <2> QED BY <2>1, <2>2, <1>1 DEF DriverType, Nested
<1>9. CASE StartUtil \/ StartSpeed \/ SpeedAgain
  <2>1. pass' # "valid" /\ i' = 1 /\ UNCHANGED <<trace, ranges>>
    BY <1>9 DEF StartUtil, StartSpeed, SpeedAgain, Reset
  <2> QED BY <2>1, <1>1 DEF DriverType, Nested
<1>10. CASE UtilAlloc \/ UtilRealloc \/ UtilFree \/ SpeedRequest \/ SpeedFree
  <2>1. pass # "valid" /\ i' = i + 1 /\ UNCHANGED <<pass, trace, ranges>>
    BY <1>10 DEF UtilAlloc, UtilRealloc, UtilFree, SpeedRequest, SpeedFree, Answer, At
  <2> QED BY <2>1, <1>1 DEF DriverType, Nested
<1>11. CASE Fails
  <2>1. pass' = "exited" /\ UNCHANGED <<trace, i, ranges>>
    BY <1>11 DEF Fails, app_error
  <2> QED BY <2>1, <1>1 DEF DriverType, Nested
<1>12. CASE EndTrace
  BY <1>12, <1>1 DEF EndTrace, NextTrace, DriverType, Nested
<1>13. CASE Summary
  <2>1. pass' # "valid" /\ UNCHANGED <<trace, i, ranges>>
    BY <1>13 DEF Summary
  <2> QED BY <2>1, <1>1 DEF DriverType, Nested
<1>14. CASE UNCHANGED vars
  <2>1. UNCHANGED <<pass, trace, i, ranges, brk>>
    BY <1>14 DEF vars, heap
  <2> QED BY <2>1, <1>1 DEF DriverType, Nested
<1> QED BY <1>3, <1>4, <1>5, <1>6, <1>7, <1>8, <1>9, <1>10, <1>11, <1>12, <1>13, <1>14
        DEF Next

LEMMA RInvariant == Spec => []RInv
<1>1. RInv /\ [Next]_vars => RInv'
  BY RNext
<1> QED BY RInit, <1>1, PTL DEF Spec

\* Of two ranges on the list with bytes in common, the newer encloses the older
\* (mdriver.c:409-418).
THEOREM OverlapsAreEnclosed == Spec => []OverlapsEnclose
<1>1. RInv => OverlapsEnclose
  BY DEF RInv, Nested, OverlapsEnclose
<1> QED BY RInvariant, <1>1, PTL

\* Every range on the list of the checking pass is aligned and in the heap
\* (mdriver.c:393-407).
THEOREM RangesAreInHeap == Spec => []RangesInHeap
<1>1. RInv => RangesInHeap
  BY DEF RInv
<1> QED BY RInvariant, <1>1, PTL
-----------------------------------------------------------------------------
(* The score.                                                              *)

EInv == valid \in Seq(BOOLEAN) /\ IsFiniteSet(Invalid) /\ ErrorsAreInvalidTraces

\* A trace that fails is one more invalid trace, one that passes is none.
LEMMA AppendCounts ==
  ASSUME EInv, NEW v \in BOOLEAN, valid' = Append(valid, v)
  PROVE  /\ valid' \in Seq(BOOLEAN) /\ IsFiniteSet(Invalid')
         /\ v => Cardinality(Invalid') = errors
         /\ ~ v => Cardinality(Invalid') = errors + 1
<1>1. /\ valid' \in Seq(BOOLEAN) /\ Len(valid') = Len(valid) + 1
      /\ \A k \in 1 .. Len(valid) : valid'[k] = valid[k]
      /\ valid'[Len(valid) + 1] = v
  BY AppendProperties DEF EInv
<1>2. /\ Len(valid) \in Nat /\ DOMAIN valid = 1 .. Len(valid)
      /\ DOMAIN valid' = 1 .. Len(valid) + 1
  BY <1>1, LenProperties DEF EInv
<1>3. DOMAIN valid' = DOMAIN valid \cup {Len(valid) + 1} /\ Len(valid) + 1 \notin DOMAIN valid
  BY <1>2
<1>4. CASE v
  <2>1. Invalid' = Invalid
    BY <1>1, <1>2, <1>3, <1>4, Zenon DEF Invalid
  <2> QED BY <2>1, <1>1, <1>4 DEF EInv, ErrorsAreInvalidTraces
<1>5. CASE ~ v
  <2>1. Invalid' = Invalid \cup {Len(valid) + 1} /\ Len(valid) + 1 \notin Invalid
    BY <1>1, <1>2, <1>3, <1>5, Zenon DEF Invalid
  <2>2. Cardinality(Invalid') = Cardinality(Invalid) + 1 /\ IsFiniteSet(Invalid')
    BY <2>1, FS_AddElement DEF EInv
  <2> QED BY <2>2, <1>1, <1>5 DEF EInv, ErrorsAreInvalidTraces
<1> QED BY <1>4, <1>5

LEMMA EInit == Init => EInv
<1> SUFFICES ASSUME Init PROVE EInv
  OBVIOUS
<1>1. valid = <<>> /\ errors = 0 /\ pass = "read"
  BY DEF Init
<1>2. Invalid = {}
  BY <1>1 DEF Invalid
<1> QED BY <1>1, <1>2, EmptySeq, FS_EmptySet DEF EInv, ErrorsAreInvalidTraces

LEMMA ENext ==
  ASSUME EInv, [Next]_vars
  PROVE  EInv'
<1>1. CASE InitFails \/ ValidFails \/ ((ValidAlloc \/ ValidRealloc) /\ malloc_error)
  <2>1. errors' = errors + 1 /\ valid' = Append(valid, FALSE) /\ pass' = "read"
    BY <1>1 DEF InitFails, ValidFails, malloc_error, NextTrace
  <2> QED BY <2>1, AppendCounts DEF EInv, ErrorsAreInvalidTraces
<1>2. CASE StartUtil
  <2>1. errors' = errors /\ valid' = Append(valid, TRUE) /\ pass' = "util"
    BY <1>2 DEF StartUtil, Reset
  <2> QED BY <2>1, AppendCounts DEF EInv, ErrorsAreInvalidTraces
<1>3. CASE Summary
  <2>1. UNCHANGED <<errors, valid>> /\ pass' = IF errors = 0 THEN "index" ELSE "terminated"
    BY <1>3 DEF Summary, score
  <2>2. Invalid' = Invalid
    BY <2>1 DEF Invalid
  <2>3. errors = 0 <=> Invalid = {}
    BY FS_EmptySet DEF EInv, ErrorsAreInvalidTraces
  <2> QED BY <2>1, <2>2, <2>3 DEF EInv, ErrorsAreInvalidTraces
<1>4. ASSUME UNCHANGED <<errors, valid>>, pass' # "index", pass' # "terminated"
      PROVE  EInv'
  <2>1. Invalid' = Invalid
    BY <1>4 DEF Invalid
  <2> QED BY <1>4, <2>1 DEF EInv, ErrorsAreInvalidTraces
<1>5. CASE StartValid \/ EndTrace
  BY <1>4, <1>5 DEF StartValid, EndTrace, NextTrace, score
<1>6. CASE ValidAlloc
  <2>1. malloc_error \/ (UNCHANGED <<errors, valid, pass>> /\ pass = "valid")
    BY <1>6 DEF ValidAlloc, Remember, At, score
  <2> QED BY <2>1, <1>1, <1>4, <1>6
<1>7. CASE ValidRealloc
  <2>1. malloc_error \/ (UNCHANGED <<errors, valid, pass>> /\ pass = "valid")
    BY <1>7 DEF ValidRealloc, Remember, At, score
  <2> QED BY <2>1, <1>1, <1>4, <1>7
<1>8. CASE ValidFree
  BY <1>4, <1>8 DEF ValidFree, At, score
<1>9. CASE StartSpeed \/ SpeedAgain
  <2>1. UNCHANGED <<errors, valid>> /\ pass' = "speed"
    BY <1>9 DEF StartSpeed, SpeedAgain, Reset
  <2> QED BY <2>1, <1>4
<1>10. CASE UtilAlloc \/ UtilRealloc \/ UtilFree \/ SpeedRequest \/ SpeedFree
  <2>1. UNCHANGED <<errors, valid, pass>> /\ pass \in {"util", "speed"}
    BY <1>10 DEF UtilAlloc, UtilRealloc, UtilFree, SpeedRequest, SpeedFree, Answer, At, score
  <2> QED BY <2>1, <1>4
<1>11. CASE Fails
  <2>1. UNCHANGED <<errors, valid>> /\ pass' = "exited"
    BY <1>11 DEF Fails, app_error, score
  <2> QED BY <2>1, <1>4
<1>12. CASE UNCHANGED vars
  <2>1. UNCHANGED <<errors, valid, pass>>
    BY <1>12 DEF vars, score
  <2> QED BY <2>1 DEF EInv, ErrorsAreInvalidTraces, Invalid
<1> QED BY <1>1, <1>2, <1>3, <1>5, <1>6, <1>7, <1>8, <1>9, <1>10, <1>11, <1>12 DEF Next

\* One error is counted for each invalid trace, and a performance index is given
\* exactly when there is none (mdriver.c:345-364, 592-700).
THEOREM ErrorsCountInvalidTraces == Spec => []ErrorsAreInvalidTraces
<1>1. EInv /\ [Next]_vars => EInv'
  BY ENext
<1>2. EInv => ErrorsAreInvalidTraces
  BY DEF EInv
<1> QED BY EInit, <1>1, <1>2, PTL DEF Spec
-----------------------------------------------------------------------------
(* What the checking pass finds.                                           *)

\* While a trace is read or checked, the driver's table is of its type.
TableType ==
  pass \in {"read", "valid"} => /\ blocks \in [Ids -> Nat]
                                /\ block_sizes \in [Ids -> Nat]
                                /\ pass = "read" => i = 1

LEMMA TableInvariant == Spec => [](RInv /\ TableType)
<1>1. Init => TableType
  BY MDriverAssumption DEF Init, TableType, NULL
<1>2. RInv /\ TableType /\ [Next]_vars => TableType'
  <2> SUFFICES ASSUME RInv, TableType, [Next]_vars
               PROVE  TableType'
    OBVIOUS
  <2> USE DEF TableType
  <2>1. ASSUME NextTrace PROVE TableType'
    BY <2>1, MDriverAssumption DEF NextTrace, NULL
  <2>2. ASSUME UNCHANGED <<pass, i, table>> PROVE TableType'
    BY <2>2 DEF table
  <2>3. ASSUME pass' \notin {"read", "valid"} PROVE TableType'
    BY <2>3
  <2>4. ASSUME pass = "valid", i <= Len(trace), NEW r, NEW m, Remember(r, m), r.lo \in Nat
        PROVE  TableType'
    <3>1. Op.index \in Ids /\ Op.size \in Nat
      BY <2>4, OpType, MDriverAssumption DEF RInv, Request
    <3> QED BY <2>4, <3>1 DEF Remember
  <2>5. ASSUME NEW p \in Pointers, NEW size
        PROVE  Extent(p, size).lo \in Nat
    BY MDriverAssumption DEF Extent
  <2>6. CASE StartValid
    BY <2>6 DEF StartValid, table
  <2>7. CASE InitFails \/ ValidFails \/ EndTrace
    BY <2>7, <2>1 DEF InitFails, ValidFails, EndTrace, malloc_error
  <2>8. CASE ValidAlloc
    <3>1. pass = "valid" /\ i <= Len(trace)
      BY <2>8 DEF ValidAlloc, At
    <3>2. PICK p \in Pointers, m \in Left(mem) : Remember(Extent(p, Op.size), m) \/ NextTrace
      BY <2>8 DEF ValidAlloc, malloc_error
    <3> QED BY <3>1, <3>2, <2>1, <2>4, <2>5
  <2>9. CASE ValidRealloc
    <3>1. pass = "valid" /\ i <= Len(trace)
      BY <2>9 DEF ValidRealloc, At
    <3>2. \E p \in Pointers : \E m : Remember(Extent(p, Op.size), m) \/ NextTrace
      BY <2>9 DEF ValidRealloc, malloc_error
    <3> QED BY <3>1, <3>2, <2>1, <2>4, <2>5
  <2>10. CASE ValidFree
    BY <2>10 DEF ValidFree, At, table
  <2>11. CASE StartUtil \/ StartSpeed \/ SpeedAgain \/ Fails \/ Summary
    BY <2>11, <2>3 DEF StartUtil, StartSpeed, SpeedAgain, Reset, Fails, app_error, Summary
  <2>12. CASE UtilAlloc \/ UtilRealloc \/ UtilFree \/ SpeedRequest \/ SpeedFree
    BY <2>12, <2>3 DEF UtilAlloc, UtilRealloc, UtilFree, SpeedRequest, SpeedFree, Answer, At
  <2>13. CASE UNCHANGED vars
    BY <2>13, <2>2 DEF vars
  <2> QED BY <2>6, <2>7, <2>8, <2>9, <2>10, <2>11, <2>12, <2>13 DEF Next
<1>3. RInv /\ [Next]_vars => RInv'
  BY RNext
<1> QED BY RInit, <1>1, <1>2, <1>3, PTL DEF Spec

LEMMA MinOfTwo ==
  ASSUME NEW a \in Nat, NEW b \in Nat
  PROVE  /\ Min({a, b}) \in Nat /\ Min({a, b}) <= a /\ Min({a, b}) <= b
         /\ Min({a, b}) = IF a < b THEN a ELSE b
<1>1. CASE a < b
  <2>1. \E x \in {a, b} : \A y \in {a, b} : x <= y
    BY <1>1
  <2> QED BY <1>1, <2>1 DEF Min
<1>2. CASE ~ (a < b)
  <2>1. \E x \in {a, b} : \A y \in {a, b} : x <= y
    BY <1>2
  <2> QED BY <1>2, <2>1 DEF Min
<1> QED BY <1>1, <1>2

LEMMA PlacedInside ==
  ASSUME NEW p \in Nat, NEW size \in Nat, NEW top \in Brks, NEW others,
         ~ Misplaced(p, size, top, others)
  PROVE  Bytes(p, size) \subseteq Address
BY MDriverAssumption DEF Misplaced, Bytes, Address

\* A block that loses bytes on its way fails the test of its bytes: a lost byte
\* is not the low byte of an index.
LEMMA LossIsTested ==
  ASSUME NEW p \in Nat, NEW id \in Ids, NEW size \in Nat, NEW top \in Brks, NEW others,
         blocks \in [Ids -> Nat], block_sizes \in [Ids -> Nat],
         ~ Misplaced(p, size, top, others),
         NEW m \in Left(Moved(mem, blocks[id], p, Min({size, block_sizes[id]}))),
         Lost(m, blocks[id], p, Min({size, block_sizes[id]}))
  PROVE  ~ Preserved(m, p, id, size)
<1> DEFINE kept == Min({size, block_sizes[id]})
           moved == Moved(mem, blocks[id], p, kept)
<1>1. /\ kept \in Nat /\ kept <= size
      /\ kept = IF size < block_sizes[id] THEN size ELSE block_sizes[id]
  <2>1. block_sizes[id] \in Nat
    OBVIOUS
  <2> QED BY <2>1, MinOfTwo
<1>2. PICK k \in 0 .. kept - 1 : m[p + k] # mem[blocks[id] + k]
  BY DEF Lost
<1>3. blocks[id] \in Nat
  OBVIOUS
<1> HIDE DEF kept
<1>4. p + k \in Bytes(p, kept) /\ p + k \in Bytes(p, size)
  BY <1>1, <1>2 DEF Bytes
<1>5. p + k \in Address
  BY <1>4, PlacedInside
<1>6. moved[p + k] = mem[blocks[id] + k]
  <2>1. moved[p + k] = mem[(p + k) - p + blocks[id]]
    BY <1>4, <1>5 DEF Moved
  <2>2. (p + k) - p + blocks[id] = blocks[id] + k
    BY <1>1, <1>2, <1>3
  <2> QED BY <2>1, <2>2
<1>7. \/ m = moved
      \/ \E a \in Address : m = [moved EXCEPT ![a] = Junk]
  BY DEF Left, kept
<1>8. DOMAIN moved = Address
  BY DEF Moved
<1> HIDE DEF moved
<1>9. m[p + k] = Junk
  BY <1>2, <1>5, <1>6, <1>7, <1>8
<1>10. LowByte(id) # Junk
  BY MDriverAssumption DEF LowByte, Junk
<1> QED BY <1>1, <1>2, <1>9, <1>10 DEF Preserved

LossInv == errors \in Nat /\ ("copy" \in broke => pass \in {"read", "terminated"} /\ errors # 0)

LEMMA LossNext ==
  ASSUME RInv, TableType, LossInv, [Next]_vars
  PROVE  LossInv'
<1> USE DEF LossInv
<1>1. ASSUME errors' = errors, broke' = broke, "copy" \notin broke
      PROVE  LossInv'
  BY <1>1
<1>2. ASSUME malloc_error PROVE LossInv'
  BY <1>2 DEF malloc_error, NextTrace
<1>3. CASE StartValid
  BY <1>3 DEF StartValid, score
<1>4. CASE InitFails \/ ValidFails
  BY <1>4, <1>2 DEF InitFails, ValidFails
<1>5. CASE ValidAlloc
  <2>1. PICK p \in Pointers, m \in Left(mem) :
          /\ broke' = broke \cup Breaks("place", Misplaced(p, Op.size, brk', Live))
                            \cup Breaks("data", Clobbered(m, Live))
          /\ Remember(Extent(p, Op.size), m) \/ malloc_error
    BY <1>5 DEF ValidAlloc
  <2>2. pass = "valid" /\ "copy" \notin broke'
    BY <1>5, <2>1 DEF ValidAlloc, At, Breaks
  <2> QED BY <1>2, <2>1, <2>2 DEF Remember, score
<1>6. CASE ValidRealloc
  <2>1. pass = "valid" /\ i <= Len(trace)
    BY <1>6 DEF ValidRealloc, At
  <2>2. /\ Op.index \in Ids /\ Op.size \in Nat
        /\ blocks \in [Ids -> Nat] /\ block_sizes \in [Ids -> Nat]
    BY <2>1, OpType DEF RInv, Request, TableType
  <2> DEFINE id == Op.index
             kept == Min({Op.size, block_sizes[id]})
             others == Live \ {id}
  <2> HIDE DEF kept, others
  <2>3. PICK p \in Pointers : \E m \in Left(Moved(mem, blocks[id], p, kept)) :
          /\ brk' \in {b \in Brks : b >= brk}
          /\ broke' = broke
               \cup Breaks("place", ~ ~ Misplaced(p, Op.size, brk', others))
               \cup Breaks("data", Clobbered(m, others))
               \cup Breaks("copy", /\ ~ Misplaced(p, Op.size, brk', others)
                                   /\ Lost(m, blocks[id], p, kept))
          /\ \/ Preserved(m, p, id, Op.size) /\ Remember(Extent(p, Op.size), m)
             \/ malloc_error
    BY <1>6, Zenon DEF ValidRealloc, kept, others
  <2>4. PICK m \in Left(Moved(mem, blocks[id], p, kept)) :
          /\ brk' \in Brks
          /\ broke' = broke
               \cup Breaks("place", ~ ~ Misplaced(p, Op.size, brk', others))
               \cup Breaks("data", Clobbered(m, others))
               \cup Breaks("copy", /\ ~ Misplaced(p, Op.size, brk', others)
                                   /\ Lost(m, blocks[id], p, kept))
          /\ \/ Preserved(m, p, id, Op.size) /\ Remember(Extent(p, Op.size), m)
             \/ malloc_error
    BY <2>3
  <2>5. CASE Preserved(m, p, id, Op.size) /\ Remember(Extent(p, Op.size), m)
    <3>1. ~ (~ Misplaced(p, Op.size, brk', others) /\ Lost(m, blocks[id], p, kept))
      BY <2>2, <2>4, <2>5, LossIsTested, MDriverAssumption DEF kept
    <3>2. "copy" \notin broke'
      BY <2>1, <2>4, <3>1 DEF Breaks
    <3>3. UNCHANGED score
      BY <2>5 DEF Remember
    <3> QED BY <3>2, <3>3 DEF score
  <2> QED BY <2>4, <2>5, <1>2
<1>7. CASE ValidFree
  <2>1. pass = "valid" /\ UNCHANGED <<pass, errors>>
    BY <1>7 DEF ValidFree, At, score
  <2>2. "copy" \notin broke'
    BY <1>7, <2>1 DEF ValidFree, Breaks
  <2> QED BY <2>1, <2>2
<1>8. CASE StartUtil \/ StartSpeed \/ SpeedAgain
  BY <1>8, <1>1 DEF StartUtil, StartSpeed, SpeedAgain, Reset
<1>9. CASE UtilAlloc \/ UtilRealloc \/ UtilFree \/ SpeedRequest \/ SpeedFree
  BY <1>9, <1>1 DEF UtilAlloc, UtilRealloc, UtilFree, SpeedRequest, SpeedFree, Answer, At, score
<1>10. CASE Fails
  <2>1. pass \in {"valid", "util", "speed"} /\ UNCHANGED <<errors, broke>>
    BY <1>10 DEF Fails, app_error, At, score, heap
  <2> QED BY <2>1, <1>1
<1>11. CASE EndTrace
  BY <1>11, <1>1 DEF EndTrace, NextTrace, score
<1>12. CASE Summary
  BY <1>12 DEF Summary, score, heap
<1>13. CASE UNCHANGED vars
  BY <1>13 DEF vars, score, heap
<1> QED BY <1>3, <1>4, <1>5, <1>6, <1>7, <1>8, <1>9, <1>10, <1>11, <1>12, <1>13 DEF Next

\* A realloc that answers a good place and loses bytes of the block is never
\* passed over, in traces and heaps of every size (mdriver.c:671-684).
THEOREM LossIsNoticed == Spec => []LossNoticed
<1>1. Init => LossInv
  BY DEF Init, LossInv
<1>2. RInv /\ TableType /\ LossInv /\ [Next]_vars => LossInv'
  BY LossNext
<1>3. LossInv => LossNoticed
  BY DEF LossInv, LossNoticed
<1> QED BY TableInvariant, <1>1, <1>2, <1>3, PTL DEF Spec
-----------------------------------------------------------------------------
(* The list holds the payloads of the allocated blocks.                    *)

\* One more request makes one more block live, or one less.
LEMMA LiveStep ==
  ASSUME NEW t \in Seq(Request), NEW k \in 1 .. Len(t)
  PROVE  LET before == LiveAfter(SubSeq(t, 1, k - 1))
         IN  LiveAfter(SubSeq(t, 1, k)) = IF t[k].type = "FREE"
                                          THEN before \ {t[k].index}
                                          ELSE before \cup {t[k].index}
<1> DEFINE now == SubSeq(t, 1, k)
           then == SubSeq(t, 1, k - 1)
<1>1. Len(t) \in Nat /\ k \in Nat /\ \A j \in 1 .. Len(t) : t[j] \in Request
  BY ElementOfSeq, LenProperties
<1>2. /\ DOMAIN now = 1 .. k /\ Len(now) = k
      /\ \A j \in 1 .. k : now[j] = t[j]
  BY <1>1, SubSeqProperties
<1>3. /\ DOMAIN then = 1 .. k - 1 /\ Len(then) = k - 1
      /\ \A j \in 1 .. k - 1 : then[j] = t[j]
  BY <1>1, SubSeqProperties
<1> HIDE DEF now, then
<1>4. LiveAfter(now) =
        {id \in Ids : \E q \in 1 .. k :
           /\ t[q].index = id /\ t[q].type # "FREE"
           /\ \A j \in q + 1 .. k : t[j].index = id => t[j].type # "FREE"}
  BY <1>1, <1>2 DEF LiveAfter
<1>5. LiveAfter(then) =
        {id \in Ids : \E q \in 1 .. k - 1 :
           /\ t[q].index = id /\ t[q].type # "FREE"
           /\ \A j \in q + 1 .. k - 1 : t[j].index = id => t[j].type # "FREE"}
  BY <1>1, <1>3 DEF LiveAfter
<1>6. t[k].index \in Ids
  BY <1>1 DEF Request
<1>7. ASSUME NEW id \in Ids
      PROVE  id \in LiveAfter(now) <=>
               IF t[k].type = "FREE" THEN id \in LiveAfter(then) /\ id # t[k].index
               ELSE id \in LiveAfter(then) \/ id = t[k].index
  <2>1. CASE id # t[k].index
    <3>1. ASSUME NEW q \in 1 .. k - 1
          PROVE  (\A j \in q + 1 .. k : t[j].index = id => t[j].type # "FREE")
                   <=> (\A j \in q + 1 .. k - 1 : t[j].index = id => t[j].type # "FREE")
      BY <2>1, <1>1
    <3>2. \A q \in 1 .. k : q \in 1 .. k - 1 \/ q = k
      BY <1>1
    <3>3. 1 .. k - 1 \subseteq 1 .. k
      BY <1>1
    <3> QED BY <2>1, <3>1, <3>2, <3>3, <1>4, <1>5
  <2>2. CASE id = t[k].index /\ t[k].type = "FREE"
    <3>1. \A q \in 1 .. k : q = k \/ k \in q + 1 .. k
      BY <1>1
    <3> QED BY <2>2, <3>1, <1>4
  <2>3. CASE id = t[k].index /\ t[k].type # "FREE"
    <3>1. k \in 1 .. k /\ k + 1 .. k = {}
      BY <1>1
    <3> QED BY <2>3, <3>1, <1>4
  <2> QED BY <2>1, <2>2, <2>3
<1>8. LiveAfter(now) \subseteq Ids /\ LiveAfter(then) \subseteq Ids
  BY DEF LiveAfter
<1> QED BY <1>6, <1>7, <1>8 DEF now, then

\* A trace allocates what is free, and reallocates and frees what is not.
LEMMA LiveNext ==
  ASSUME DriverType, i <= Len(trace)
  PROVE  /\ Op.index \in Ids /\ Op.size \in Nat /\ (Op.type # "FREE" => Op.size # 0)
         /\ Op.type = "ALLOC" <=> Op.index \notin Live
         /\ LiveAfter(SubSeq(trace, 1, i)) = IF Op.type = "FREE"
                                             THEN Live \ {Op.index}
                                             ELSE Live \cup {Op.index}
<1>1. trace \in Traces
  <2>1. CASE trace = <<>>
    BY <2>1 DEF DriverType
  <2> QED BY <2>1 DEF DriverType
<1>2. WellFormed(trace) /\ trace \in Seq(Request)
  BY <1>1, MDriverAssumption DEF WellFormed
<1>3. i \in 1 .. Len(trace) /\ DOMAIN trace = 1 .. Len(trace)
  BY <1>2, LenProperties DEF DriverType
<1>4. Op \in Request
  BY OpType
<1>5. Op.type = "ALLOC" <=> Op.index \notin Live
  BY <1>2, <1>3 DEF WellFormed, Op, Live
<1>6. Op.index \in Ids /\ Op.size \in Nat /\ (Op.type # "FREE" => Op.size # 0)
  BY <1>4 DEF Request
<1>7. LiveAfter(SubSeq(trace, 1, i)) = IF Op.type = "FREE"
                                       THEN Live \ {Op.index}
                                       ELSE Live \cup {Op.index}
  BY <1>2, <1>3, LiveStep DEF Op, Live
<1> QED BY <1>5, <1>6, <1>7

Matched(list, live, at, size) ==
  /\ \A k \in DOMAIN list : \E id \in live : list[k] = Extent(at[id], size[id])
  /\ \A id \in live : \E k \in DOMAIN list : list[k] = Extent(at[id], size[id])
  /\ \A id, jd \in live : at[id] = at[jd] => id = jd
  /\ \A id \in live : size[id] # 0

\* No two ranges start at the same byte.
LEMMA StartsDiffer ==
  ASSUME NEW list \in Seq(Span), NEW live \in SUBSET Ids,
         NEW at \in [Ids -> Nat], NEW size \in [Ids -> Nat],
         Nested(list), Matched(list, live, at, size),
         NEW j \in DOMAIN list, NEW k \in DOMAIN list, j # k
  PROVE  list[j].lo # list[k].lo
<1>1. Len(list) \in Nat /\ DOMAIN list = 1 .. Len(list)
  BY LenProperties
<1>2. ASSUME NEW a \in DOMAIN list, NEW b \in DOMAIN list, a < b
      PROVE  list[a].lo # list[b].lo
  <2>1. PICK id \in live : list[a] = Extent(at[id], size[id])
    BY DEF Matched
  <2>2. PICK jd \in live : list[b] = Extent(at[jd], size[jd])
    BY DEF Matched
  <2>3. /\ at[id] \in Nat /\ at[jd] \in Nat
        /\ size[id] \in Nat \ {0} /\ size[jd] \in Nat \ {0}
    BY DEF Matched
  <2>4. Apart(list[a], list[b]) \/ Encloses(list[a], list[b])
    BY <1>2 DEF Nested
  <2> QED BY <2>1, <2>2, <2>3, <2>4 DEF Apart, Encloses, Extent
<1>3. j < k \/ k < j
  BY <1>1
<1> QED BY <1>2, <1>3

LEMMA RemoveMatched ==
  ASSUME NEW list \in Seq(Span), NEW live \in SUBSET Ids,
         NEW at \in [Ids -> Nat], NEW size \in [Ids -> Nat],
         Nested(list), Matched(list, live, at, size), NEW id \in live
  PROVE  Matched(remove_range(list, at[id]), live \ {id}, at, size)
<1> DEFINE k == CHOOSE k \in StartsAt(list, at[id]) : TRUE
           w == Without(list, k)
<1>1. Len(list) \in Nat /\ DOMAIN list = 1 .. Len(list)
  BY LenProperties
<1>2. \A q \in DOMAIN list, jd \in live :
        list[q] = Extent(at[jd], size[jd]) => list[q].lo = at[jd]
  BY DEF Extent
<1>3. StartsAt(list, at[id]) # {}
  <2>1. PICK q \in DOMAIN list : list[q] = Extent(at[id], size[id])
    BY DEF Matched
  <2>2. \A j \in 1 .. q - 1 : j \in DOMAIN list /\ j # q
    BY <1>1
  <2>3. \A j \in 1 .. q - 1 : list[j].lo # list[q].lo
    BY <2>2, StartsDiffer
  <2> QED BY <1>2, <2>1, <2>3 DEF StartsAt
<1>4. k \in DOMAIN list /\ list[k].lo = at[id]
  <2>1. k \in StartsAt(list, at[id])
    BY <1>3
  <2> HIDE DEF k
  <2> QED BY <2>1 DEF StartsAt
<1>5. remove_range(list, at[id]) = w
  BY <1>3 DEF remove_range
<1> HIDE DEF k
<1>6. /\ w \in Seq(Span) /\ Len(w) = Len(list) - 1
      /\ \A j \in 1 .. Len(list) - 1 : w[j] = IF j < k THEN list[j] ELSE list[j + 1]
  BY <1>4, WithoutIsSubsequence
<1> HIDE DEF w
<1>7. DOMAIN w = 1 .. Len(list) - 1
  BY <1>6, LenProperties
<1>8. \A q \in DOMAIN list : list[q].lo = at[id] <=> q = k
  BY <1>4, StartsDiffer
<1>9. \A j \in DOMAIN w : \E jd \in live \ {id} : w[j] = Extent(at[jd], size[jd])
  <2> SUFFICES ASSUME NEW j \in DOMAIN w
               PROVE  \E jd \in live \ {id} : w[j] = Extent(at[jd], size[jd])
    OBVIOUS
  <2>1. PICK q \in DOMAIN list : q # k /\ w[j] = list[q]
    <3>1. CASE j < k
      <4>1. j \in DOMAIN list /\ j # k
        BY <3>1, <1>1, <1>4, <1>7
      <4> QED BY <3>1, <4>1, <1>6, <1>7
    <3>2. CASE ~ (j < k)
      <4>1. j + 1 \in DOMAIN list /\ j + 1 # k
        BY <3>2, <1>1, <1>4, <1>7
      <4> QED BY <3>2, <4>1, <1>6, <1>7
    <3> QED BY <3>1, <3>2
  <2>2. PICK jd \in live : list[q] = Extent(at[jd], size[jd])
    BY DEF Matched
  <2>3. jd # id
    BY <1>2, <1>8, <2>1, <2>2
  <2> QED BY <2>1, <2>2, <2>3
<1>10. \A jd \in live \ {id} : \E j \in DOMAIN w : w[j] = Extent(at[jd], size[jd])
  <2> SUFFICES ASSUME NEW jd \in live \ {id}
               PROVE  \E j \in DOMAIN w : w[j] = Extent(at[jd], size[jd])
    OBVIOUS
  <2>1. PICK q \in DOMAIN list : list[q] = Extent(at[jd], size[jd])
    BY DEF Matched
  <2>2. q # k
    BY <1>2, <1>4, <2>1 DEF Matched
  <2>3. CASE q < k
    <3>1. q \in DOMAIN w /\ w[q] = list[q]
      BY <2>3, <1>1, <1>4, <1>6, <1>7
    <3> QED BY <2>1, <3>1
  <2>4. CASE k < q
    <3>1. q - 1 \in DOMAIN w /\ w[q - 1] = list[(q - 1) + 1] /\ (q - 1) + 1 = q
      BY <2>4, <1>1, <1>4, <1>6, <1>7
    <3> QED BY <2>1, <3>1
  <2> QED BY <1>1, <1>4, <2>2, <2>3, <2>4
<1> QED BY <1>5, <1>9, <1>10 DEF Matched

LEMMA AddMatched ==
  ASSUME NEW list \in Seq(Span), NEW live \in SUBSET Ids,
         NEW at \in [Ids -> Nat], NEW size \in [Ids -> Nat],
         Matched(list, live, at, size), NEW id \in Ids \ live,
         NEW p \in Nat, NEW n \in Nat \ {0}, NEW top, Acceptable(list, Extent(p, n), top)
  PROVE  Matched(add_range(list, Extent(p, n)), live \cup {id},
                 [at EXCEPT ![id] = p], [size EXCEPT ![id] = n])
<1> DEFINE r == Extent(p, n)
           more == add_range(list, r)
           at2 == [at EXCEPT ![id] = p]
           size2 == [size EXCEPT ![id] = n]
<1>1. Len(list) \in Nat /\ DOMAIN list = 1 .. Len(list)
  BY LenProperties
<1>2. r \in Span /\ r.lo = p
  BY DEF Extent, Span
<1>3. /\ DOMAIN more = 1 .. Len(list) + 1
      /\ \A k \in 1 .. Len(list) + 1 : more[k] = IF k = 1 THEN r ELSE list[k - 1]
  <2> HIDE DEF r
  <2>1. <<r>> \in Seq(Span) /\ Len(<<r>>) = 1 /\ <<r>>[1] = r
    BY <1>2
  <2>2. /\ <<r>> \o list \in Seq(Span) /\ Len(<<r>> \o list) = Len(<<r>>) + Len(list)
        /\ \A k \in 1 .. Len(<<r>>) + Len(list) :
             (<<r>> \o list)[k] = IF k <= Len(<<r>>) THEN <<r>>[k] ELSE list[k - Len(<<r>>)]
    BY <2>1, ConcatProperties
  <2>3. DOMAIN (<<r>> \o list) = 1 .. Len(<<r>>) + Len(list)
    BY <2>2, LenProperties
  <2> QED BY <2>1, <2>2, <2>3, <1>1 DEF add_range
<1>4. /\ at2[id] = p /\ size2[id] = n
      /\ \A jd \in live : at2[jd] = at[jd] /\ size2[jd] = size[jd] /\ jd # id
  OBVIOUS
<1>5. \A jd \in live : at[jd] # p
  <2> SUFFICES ASSUME NEW jd \in live, at[jd] = p PROVE FALSE
    OBVIOUS
  <2>1. PICK k \in DOMAIN list : list[k] = Extent(at[jd], size[jd])
    BY DEF Matched
  <2>2. ~ Within(p, list[k])
    BY <1>2 DEF Acceptable, Overlaps
  <2>3. size[jd] \in Nat \ {0}
    BY DEF Matched
  <2> QED BY <2>1, <2>2, <2>3 DEF Within, Extent
<1> HIDE DEF more, at2, size2, r
<1>6. \A k \in DOMAIN more : \E jd \in live \cup {id} : more[k] = Extent(at2[jd], size2[jd])
  <2> SUFFICES ASSUME NEW k \in DOMAIN more
               PROVE  \E jd \in live \cup {id} : more[k] = Extent(at2[jd], size2[jd])
    OBVIOUS
  <2>1. CASE k = 1
    BY <2>1, <1>3, <1>4 DEF r
  <2>2. CASE k # 1
    <3>1. k - 1 \in DOMAIN list /\ more[k] = list[k - 1]
      BY <2>2, <1>1, <1>3
    <3>2. PICK jd \in live : list[k - 1] = Extent(at[jd], size[jd])
      BY <3>1 DEF Matched
    <3> QED BY <3>1, <3>2, <1>4
  <2> QED BY <2>1, <2>2
<1>7. \A jd \in live \cup {id} : \E k \in DOMAIN more : more[k] = Extent(at2[jd], size2[jd])
  <2>1. 1 \in DOMAIN more /\ more[1] = Extent(at2[id], size2[id])
    BY <1>1, <1>3, <1>4 DEF r
  <2>2. ASSUME NEW jd \in live
        PROVE  \E k \in DOMAIN more : more[k] = Extent(at2[jd], size2[jd])
    <3>1. PICK k \in DOMAIN list : list[k] = Extent(at[jd], size[jd])
      BY DEF Matched
    <3>2. k + 1 \in DOMAIN more /\ more[k + 1] = list[(k + 1) - 1] /\ (k + 1) - 1 = k
      BY <1>1, <1>3
    <3> QED BY <3>1, <3>2, <1>4
  <2> QED BY <2>1, <2>2
<1>8. /\ \A jd, kd \in live \cup {id} : at2[jd] = at2[kd] => jd = kd
      /\ \A jd \in live \cup {id} : size2[jd] # 0
  BY <1>4, <1>5 DEF Matched
<1> QED BY <1>6, <1>7, <1>8 DEF Matched, more, at2, size2, r
-----------------------------------------------------------------------------
(* No false alarm.                                                         *)

\* What the checking pass keeps between two requests: the list is that of the
\* live payloads, and those of a package that kept its promises are filled.
Filled(live) == \A id \in live : \A a \in Payload(id) : mem[a] = LowByte(id)

Known ==
  pass = "valid" => /\ Matched(ranges, Live, blocks, block_sizes)
                    /\ broke = {} => Filled(Live)

Checking == pass = "valid" /\ i <= Len(trace) /\ RInv /\ TableType /\ Known

LEMMA CheckingFacts ==
  ASSUME Checking
  PROVE  /\ ranges \in Seq(Span) /\ Nested(ranges) /\ Listed(ranges, brk) /\ brk \in Brks
         /\ blocks \in [Ids -> Nat] /\ block_sizes \in [Ids -> Nat]
         /\ Live \in SUBSET Ids /\ i \in Nat
         /\ Matched(ranges, Live, blocks, block_sizes)
         /\ broke = {} => Filled(Live)
         /\ Op.index \in Ids /\ Op.size \in Nat /\ (Op.type # "FREE" => Op.size # 0)
         /\ Op.type = "ALLOC" <=> Op.index \notin Live
<1>1. Live \subseteq Ids
  BY DEF Live, LiveAfter
<1>2. DriverType /\ Nested(ranges) /\ Listed(ranges, brk)
  BY DEF Checking, RInv, RangesInHeap, Listed
<1> QED BY <1>1, <1>2, LiveNext DEF Checking, TableType, Known, DriverType

LEMMA LiveMoves ==
  ASSUME Checking, i' = i + 1, trace' = trace
  PROVE  Live' = IF Op.type = "FREE" THEN Live \ {Op.index} ELSE Live \cup {Op.index}
<1>1. i' - 1 = i
  BY CheckingFacts
<1>2. Live' = LiveAfter(SubSeq(trace, 1, i))
  BY <1>1 DEF Live
<1> QED BY <1>2, LiveNext DEF Checking, RInv

\* A payload where malloc(3) may put it passes the three tests.
LEMMA WellPlacedAccepted ==
  ASSUME blocks \in [Ids -> Nat], block_sizes \in [Ids -> Nat],
         NEW others \in SUBSET Ids, NEW list \in Seq(Span),
         Matched(list, others, blocks, block_sizes),
         NEW p \in Nat, NEW n \in Nat \ {0}, NEW top \in Brks,
         ~ Misplaced(p, n, top, others)
  PROVE  Acceptable(list, Extent(p, n), top)
<1> DEFINE r == Extent(p, n)
<1>1. r.lo = p /\ r.hi = p + n - 1
  BY DEF Extent
<1>2. p \in Bytes(p, n) /\ p + n - 1 \in Bytes(p, n)
  BY DEF Bytes
<1>3. IS_ALIGNED(r.lo)
  BY <1>1 DEF Misplaced
<1>4. p \in HeapLo .. top - 1 /\ p + n - 1 \in HeapLo .. top - 1
  BY <1>2 DEF Misplaced
<1>5. InHeap(r, top)
  BY <1>1, <1>4, MDriverAssumption DEF InHeap
<1>6. ASSUME NEW k \in DOMAIN list, Overlaps(r, list[k])
      PROVE  FALSE
  <2>1. PICK o \in others : list[k] = Extent(blocks[o], block_sizes[o])
    BY DEF Matched
  <2>2. p \in Payload(o) \/ p + n - 1 \in Payload(o)
    <3>1. blocks[o] \in Nat /\ block_sizes[o] \in Nat
      OBVIOUS
    <3> QED BY <3>1, <2>1, <1>6, <1>1 DEF Overlaps, Within, Extent, Payload, Bytes
  <2> QED BY <2>2, <1>2 DEF Misplaced
<1> QED BY <1>3, <1>5, <1>6 DEF Acceptable

\* The payloads of listed blocks are in the heap.
LEMMA PayloadInside ==
  ASSUME blocks \in [Ids -> Nat], block_sizes \in [Ids -> Nat],
         NEW others \in SUBSET Ids, NEW list \in Seq(Span), NEW top \in Brks,
         Matched(list, others, blocks, block_sizes), Listed(list, top),
         NEW o \in others
  PROVE  Payload(o) \subseteq Address
<1>1. PICK k \in DOMAIN list : list[k] = Extent(blocks[o], block_sizes[o])
  BY DEF Matched
<1>2. InHeap(list[k], top)
  BY DEF Listed
<1>3. blocks[o] \in Nat /\ block_sizes[o] \in Nat
  OBVIOUS
<1> QED BY <1>1, <1>2, <1>3, MDriverAssumption DEF InHeap, Extent, Payload, Bytes, Address

\* Filling a new payload that is apart from the others keeps all of them filled.
LEMMA FillKeepsFilled ==
  ASSUME Checking, NEW p \in Nat, NEW m, Op.type # "FREE", brk' \in Brks,
         Remember(Extent(p, Op.size), m),
         ~ Misplaced(p, Op.size, brk', Live \ {Op.index}),
         ~ Clobbered(m, Live \ {Op.index}), Filled(Live \ {Op.index})
  PROVE  Filled(Live)'
<1>1. /\ Op.index \in Ids /\ blocks \in [Ids -> Nat] /\ block_sizes \in [Ids -> Nat]
      /\ Op.size \in Nat /\ Live \in SUBSET Ids /\ i \in Nat
  BY CheckingFacts
<1>2. /\ i' = i + 1 /\ trace' = trace
      /\ mem' = memset(m, p, LowByte(Op.index), Op.size)
      /\ blocks' = [blocks EXCEPT ![Op.index] = p]
      /\ block_sizes' = [block_sizes EXCEPT ![Op.index] = Op.size]
  BY DEF Remember, Extent
<1>3. Live' = Live \cup {Op.index}
  BY <1>2, LiveMoves
<1> SUFFICES ASSUME NEW id \in Live', NEW a \in Payload(id)' PROVE mem'[a] = LowByte(id)
  BY DEF Filled
<1>4. CASE id = Op.index
  <2>1. a \in Bytes(p, Op.size)
    BY <1>4, <1>1, <1>2 DEF Payload
  <2>2. a \in Address
    BY <2>1, <1>1, PlacedInside
  <2> QED BY <2>1, <2>2, <1>2, <1>4 DEF memset
<1>5. CASE id # Op.index
  <2>1. id \in Live \ {Op.index}
    BY <1>3, <1>5
  <2>2. a \in Payload(id)
    BY <1>1, <1>2, <1>5 DEF Payload
  <2>3. m[a] = LowByte(id)
    BY <2>1, <2>2 DEF Clobbered, Filled
  <2>4. a \notin Bytes(p, Op.size)
    BY <2>1, <2>2 DEF Misplaced
  <2>5. a \in Address
    BY <2>1, <2>2, PayloadInside, CheckingFacts
  <2> QED BY <2>3, <2>4, <2>5, <1>2 DEF memset
<1> QED BY <1>4, <1>5

LEMMA AllocKnows ==
  ASSUME Checking, ValidAlloc
  PROVE  Known' /\ (broke' = {} => errors' = errors)
<1> USE CheckingFacts
<1>1. Op.type = "ALLOC" /\ Op.index \notin Live /\ Live \ {Op.index} = Live
  BY DEF ValidAlloc, At
<1>2. PICK p \in Pointers, m \in Left(mem) :
        /\ brk' \in Brks
        /\ broke' = broke \cup Breaks("place", Misplaced(p, Op.size, brk', Live))
                          \cup Breaks("data", Clobbered(m, Live))
        /\ \/ /\ Acceptable(ranges, Extent(p, Op.size), brk')
              /\ ranges' = add_range(ranges, Extent(p, Op.size))
              /\ Remember(Extent(p, Op.size), m)
           \/ /\ ~ Acceptable(ranges, Extent(p, Op.size), brk')
              /\ malloc_error
  BY DEF ValidAlloc
<1>3. p \in Nat /\ Op.size \in Nat \ {0}
  BY <1>1, MDriverAssumption
<1>4. broke' = {} => /\ broke = {} /\ ~ Clobbered(m, Live)
                     /\ ~ Misplaced(p, Op.size, brk', Live)
  BY <1>2 DEF Breaks
<1>5. broke' = {} => Acceptable(ranges, Extent(p, Op.size), brk')
  BY <1>2, <1>3, <1>4, WellPlacedAccepted
<1>6. CASE malloc_error /\ ~ Acceptable(ranges, Extent(p, Op.size), brk')
  <2>1. pass' = "read"
    BY <1>6 DEF malloc_error, NextTrace
  <2> QED BY <2>1, <1>5, <1>6 DEF Known
<1>7. CASE /\ Acceptable(ranges, Extent(p, Op.size), brk')
           /\ ranges' = add_range(ranges, Extent(p, Op.size))
           /\ Remember(Extent(p, Op.size), m)
  <2>1. /\ i' = i + 1 /\ trace' = trace /\ errors' = errors
        /\ blocks' = [blocks EXCEPT ![Op.index] = p]
        /\ block_sizes' = [block_sizes EXCEPT ![Op.index] = Op.size]
    BY <1>7 DEF Remember, Extent, score
  <2>2. Live' = Live \cup {Op.index}
    BY <2>1, <1>1, LiveMoves
  <2>3. Matched(ranges', Live', blocks', block_sizes')
    BY <2>1, <2>2, <1>1, <1>3, <1>7, AddMatched
  <2>4. broke' = {} => Filled(Live)'
    BY <1>1, <1>2, <1>3, <1>4, <1>7, FillKeepsFilled
  <2> QED BY <2>1, <2>3, <2>4 DEF Known
<1> QED BY <1>2, <1>6, <1>7

LEMMA ReallocKnows ==
  ASSUME Checking, ValidRealloc
  PROVE  Known' /\ (broke' = {} => errors' = errors)
<1> USE CheckingFacts
<1> DEFINE id == Op.index
           kept == Min({Op.size, block_sizes[id]})
           others == Live \ {id}
           rest == remove_range(ranges, blocks[id])
<1>1. Op.type = "REALLOC" /\ id \in Live /\ others \cup {id} = Live /\ id \in Ids \ others
  BY DEF ValidRealloc, At
<1>2. PICK p \in Pointers : \E m \in Left(Moved(mem, blocks[id], p, kept)) :
        /\ brk' \in {b \in Brks : b >= brk}
        /\ broke' = broke
             \cup Breaks("place", ~ ~ Misplaced(p, Op.size, brk', others))
             \cup Breaks("data", Clobbered(m, others))
             \cup Breaks("copy", /\ ~ Misplaced(p, Op.size, brk', others)
                                 /\ Lost(m, blocks[id], p, kept))
        /\ IF Acceptable(rest, Extent(p, Op.size), brk')
           THEN /\ ranges' = add_range(rest, Extent(p, Op.size))
                /\ IF Preserved(m, p, id, Op.size)
                   THEN Remember(Extent(p, Op.size), m)
                   ELSE mem' = m /\ malloc_error
           ELSE mem' = m /\ ranges' = rest /\ malloc_error
  <2> HIDE DEF kept, others, rest
  <2> QED BY Zenon DEF ValidRealloc, kept, others, rest
<1> HIDE DEF kept, others, rest
<1>3. PICK m \in Left(Moved(mem, blocks[id], p, kept)) :
        /\ brk' \in Brks
        /\ broke' = broke
             \cup Breaks("place", ~ ~ Misplaced(p, Op.size, brk', others))
             \cup Breaks("data", Clobbered(m, others))
             \cup Breaks("copy", /\ ~ Misplaced(p, Op.size, brk', others)
                                 /\ Lost(m, blocks[id], p, kept))
        /\ \/ /\ Acceptable(rest, Extent(p, Op.size), brk')
              /\ ranges' = add_range(rest, Extent(p, Op.size))
              /\ Remember(Extent(p, Op.size), m)
           \/ /\ ~ (/\ Acceptable(rest, Extent(p, Op.size), brk')
                    /\ Preserved(m, p, id, Op.size))
              /\ malloc_error
  BY <1>2
<1>4. p \in Nat /\ Op.size \in Nat \ {0}
  BY <1>1, MDriverAssumption
<1>5. /\ rest \in Seq(Span) /\ Matched(rest, others, blocks, block_sizes)
  BY <1>1, RemoveKeepsList, RemoveMatched DEF rest, others
<1>6. broke' = {} => /\ broke = {} /\ ~ Clobbered(m, others)
                     /\ ~ Misplaced(p, Op.size, brk', others)
                     /\ ~ Lost(m, blocks[id], p, kept)
  BY <1>3 DEF Breaks
<1>7. broke' = {} => Acceptable(rest, Extent(p, Op.size), brk')
  <2>1. others \in SUBSET Ids
    BY DEF others
  <2> QED BY <2>1, <1>3, <1>4, <1>5, <1>6, WellPlacedAccepted
<1>8. broke' = {} => Preserved(m, p, id, Op.size)
  <2> SUFFICES ASSUME broke' = {},
                      NEW j \in 0 .. (IF Op.size < block_sizes[id]
                                      THEN Op.size ELSE block_sizes[id]) - 1
               PROVE  m[p + j] = LowByte(id)
    BY DEF Preserved
  <2>1. block_sizes[id] \in Nat /\ blocks[id] \in Nat
    OBVIOUS
  <2>2. j \in 0 .. kept - 1 /\ j \in 0 .. block_sizes[id] - 1
    <3>1. kept = IF Op.size < block_sizes[id] THEN Op.size ELSE block_sizes[id]
      BY <2>1, <1>4, MinOfTwo DEF kept
    <3> QED BY <2>1, <1>4, <3>1
  <2>3. m[p + j] = mem[blocks[id] + j]
    BY <2>2, <1>6 DEF Lost
  <2>4. blocks[id] + j \in Payload(id)
    BY <2>1, <2>2 DEF Payload, Bytes
  <2> QED BY <2>3, <2>4, <1>1, <1>6 DEF Filled
<1>9. CASE malloc_error /\ ~ (/\ Acceptable(rest, Extent(p, Op.size), brk')
                              /\ Preserved(m, p, id, Op.size))
  <2>1. pass' = "read"
    BY <1>9 DEF malloc_error, NextTrace
  <2> QED BY <2>1, <1>7, <1>8, <1>9 DEF Known
<1>10. CASE /\ Acceptable(rest, Extent(p, Op.size), brk')
            /\ ranges' = add_range(rest, Extent(p, Op.size))
            /\ Remember(Extent(p, Op.size), m)
  <2>1. /\ i' = i + 1 /\ trace' = trace /\ errors' = errors
        /\ blocks' = [blocks EXCEPT ![id] = p]
        /\ block_sizes' = [block_sizes EXCEPT ![id] = Op.size]
    BY <1>10 DEF Remember, Extent, score
  <2>2. Live' = others \cup {id}
    BY <2>1, <1>1, LiveMoves
  <2>3. others \in SUBSET Ids
    BY DEF others
  <2>4. Matched(ranges', Live', blocks', block_sizes')
    BY <2>1, <2>2, <2>3, <1>1, <1>4, <1>5, <1>10, AddMatched
  <2>5. broke' = {} => Filled(Live)'
    <3>1. broke = {} => Filled(Live \ {Op.index})
      BY DEF Filled
    <3> QED BY <3>1, <1>1, <1>3, <1>4, <1>6, <1>10, FillKeepsFilled DEF others
  <2> QED BY <2>1, <2>4, <2>5 DEF Known
<1> QED BY <1>3, <1>9, <1>10

LEMMA FreeKnows ==
  ASSUME Checking, ValidFree
  PROVE  Known' /\ (broke' = {} => errors' = errors)
<1> USE CheckingFacts
<1>1. /\ Op.type = "FREE" /\ Op.index \in Live
      /\ ranges' = remove_range(ranges, blocks[Op.index])
      /\ i' = i + 1 /\ UNCHANGED <<trace, blocks, block_sizes, errors>>
  BY DEF ValidFree, At, table, score
<1>2. Live' = Live \ {Op.index}
  BY <1>1, LiveMoves
<1>3. Matched(ranges', Live', blocks', block_sizes')
  BY <1>1, <1>2, RemoveMatched
<1>4. PICK m \in Left(mem) :
        mem' = m /\ broke' = broke \cup Breaks("data", Clobbered(m, Live \ {Op.index}))
  BY DEF ValidFree
<1>5. broke' = {} => broke = {} /\ ~ Clobbered(mem', Live \ {Op.index})
  BY <1>4 DEF Breaks
<1>6. broke' = {} => Filled(Live)'
  BY <1>1, <1>2, <1>5 DEF Filled, Clobbered, Payload
<1> QED BY <1>1, <1>3, <1>6 DEF Known

LEMMA KnownNext ==
  ASSUME RInv, TableType, Known, [Next]_vars
  PROVE  Known' /\ (errors' # errors => broke' # {})
<1>1. CASE StartValid
  <2>1. ranges' = <<>> /\ i' = 1 /\ errors' = errors
    BY <1>1 DEF StartValid, TableType, score
  <2>2. SubSeq(trace', 1, i' - 1) = <<>>
    BY <2>1
  <2>3. Live' = {}
    <3>1. DOMAIN <<>> = {}
      OBVIOUS
    <3>2. LiveAfter(<<>>) = {}
      BY <3>1 DEF LiveAfter
    <3> QED BY <2>2, <3>2 DEF Live
  <2>4. DOMAIN ranges' = {}
    BY <2>1
  <2> QED BY <2>1, <2>3, <2>4 DEF Known, Matched, Filled
<1>2. CASE InitFails \/ ValidFails
  BY <1>2 DEF InitFails, ValidFails, malloc_error, NextTrace, Known
<1>3. CASE ValidAlloc
  BY <1>3, AllocKnows DEF Checking, ValidAlloc, At
<1>4. CASE ValidRealloc
  BY <1>4, ReallocKnows DEF Checking, ValidRealloc, At
<1>5. CASE ValidFree
  BY <1>5, FreeKnows DEF Checking, ValidFree, At
<1>6. ASSUME pass' # "valid", errors' = errors
      PROVE  Known' /\ (errors' # errors => broke' # {})
  BY <1>6 DEF Known
<1>7. CASE StartUtil \/ StartSpeed \/ SpeedAgain
  BY <1>7, <1>6 DEF StartUtil, StartSpeed, SpeedAgain, Reset
<1>8. CASE UtilAlloc \/ UtilRealloc \/ UtilFree \/ SpeedRequest \/ SpeedFree
  BY <1>8, <1>6 DEF UtilAlloc, UtilRealloc, UtilFree, SpeedRequest, SpeedFree, Answer, At, score
<1>9. CASE Fails
  BY <1>9, <1>6 DEF Fails, app_error, score
<1>10. CASE EndTrace \/ Summary
  BY <1>10, <1>6 DEF EndTrace, NextTrace, Summary, score
<1>11. CASE UNCHANGED vars
  <2>1. UNCHANGED <<pass, trace, i, blocks, block_sizes, ranges, errors, mem, broke>>
    BY <1>11 DEF vars, table, score, heap
  <2> QED BY <2>1 DEF Known, Matched, Filled, Payload, Live
<1> QED BY <1>1, <1>2, <1>3, <1>4, <1>5, <1>7, <1>8, <1>9, <1>10, <1>11 DEF Next

LEMMA KnownInvariant == Spec => [](RInv /\ TableType /\ Known)
<1>1. Init => Known
  BY DEF Init, Known
<1>2. RInv /\ TableType /\ Known /\ [Next]_vars => Known'
  BY KnownNext
<1> QED BY TableInvariant, <1>1, <1>2, PTL DEF Spec

\* The range list of the checking pass is the set of payloads of the allocated
\* blocks, each once, whatever the package answers (mdriver.c:436-465, 648-697).
THEOREM ListIsLive == Spec => []RangesAreLive
<1>1. RInv /\ TableType /\ Known => RangesAreLive
  <2> SUFFICES ASSUME RInv, TableType, Known, pass = "valid"
               PROVE  /\ Len(ranges) = Cardinality(Live)
                      /\ {ranges[k] : k \in DOMAIN ranges} =
                           {Extent(blocks[id], block_sizes[id]) : id \in Live}
    BY DEF RangesAreLive
  <2>1. /\ ranges \in Seq(Span) /\ Nested(ranges) /\ Live \in SUBSET Ids
        /\ blocks \in [Ids -> Nat] /\ block_sizes \in [Ids -> Nat]
        /\ Matched(ranges, Live, blocks, block_sizes)
    BY DEF RInv, DriverType, TableType, Known, Live, LiveAfter
  <2>2. {ranges[k] : k \in DOMAIN ranges} =
          {Extent(blocks[id], block_sizes[id]) : id \in Live}
    BY <2>1 DEF Matched
  <2> DEFINE f == [k \in DOMAIN ranges |->
                     CHOOSE id \in Live : ranges[k] = Extent(blocks[id], block_sizes[id])]
  <2>3. \A k \in DOMAIN ranges :
          f[k] \in Live /\ ranges[k] = Extent(blocks[f[k]], block_sizes[f[k]])
    BY <2>1 DEF Matched
  <2> HIDE DEF f
  <2>4. f \in [DOMAIN ranges -> Live]
    BY <2>3 DEF f
  <2>5. \A k, l \in DOMAIN ranges : f[k] = f[l] => k = l
    BY <2>1, <2>3, StartsDiffer
  <2>6. \A id \in Live : \E k \in DOMAIN ranges : f[k] = id
    <3> SUFFICES ASSUME NEW id \in Live PROVE \E k \in DOMAIN ranges : f[k] = id
      OBVIOUS
    <3>1. PICK k \in DOMAIN ranges : ranges[k] = Extent(blocks[id], block_sizes[id])
      BY <2>1 DEF Matched
    <3>2. blocks[f[k]] = blocks[id]
      BY <2>3, <3>1 DEF Extent
    <3> QED BY <2>1, <2>3, <3>2 DEF Matched
  <2>7. f \in Bijection(DOMAIN ranges, Live)
    BY <2>4, <2>5, <2>6 DEF Bijection, Injection, Surjection, IsInjective
  <2>8. Len(ranges) \in Nat /\ DOMAIN ranges = 1 .. Len(ranges)
    BY <2>1, LenProperties
  <2>9. Cardinality(DOMAIN ranges) = Len(ranges) /\ IsFiniteSet(DOMAIN ranges)
    <3>1. /\ IsFiniteSet(1 .. Len(ranges))
          /\ Cardinality(1 .. Len(ranges)) =
               IF 1 > Len(ranges) THEN 0 ELSE Len(ranges) - 1 + 1
      <4>1. 1 \in Int /\ Len(ranges) \in Int
        BY <2>8
      <4> QED BY <4>1, FS_Interval
    <3>2. Cardinality(1 .. Len(ranges)) = Len(ranges)
      BY <3>1, <2>8
    <3> QED BY <3>1, <3>2, <2>8
  <2>10. Cardinality(DOMAIN ranges) = Cardinality(Live)
    BY <2>7, <2>9, FS_Bijection DEF ExistsBijection
  <2> QED BY <2>2, <2>9, <2>10
<1> QED BY KnownInvariant, <1>1, PTL

\* A package that keeps its promises is not reported, in traces and heaps of
\* every size (mdriver.c:592-700).
THEOREM AlarmsAreDeserved == Spec => NoFalseAlarm
<1>1. RInv /\ TableType /\ Known /\ [Next]_vars => [broke' = {} => errors' = errors]_vars
  BY KnownNext
<1> QED BY KnownInvariant, <1>1, PTL DEF Spec, NoFalseAlarm
-----------------------------------------------------------------------------
(* The types.                                                              *)

\* Where the driver is, and how many answers it remembers there.
Where ==
  /\ pass \in {"read", "valid", "util", "speed", "index", "terminated", "exited"}
  /\ trace \in Traces \cup {<<>>} /\ i \in 1 .. Len(trace) + 1
  /\ Len(valid) <= NumTraces /\ (pass = "valid" => Len(valid) < NumTraces)
  /\ answers \in Seq([p : Pointers, brk : Brks])
  /\ pass = "valid" => Len(answers) = i
  /\ pass \in {"util", "speed"} => Len(answers) = Len(trace) + 1

Table ==
  /\ blocks \in [Ids -> Pointers] /\ block_sizes \in [Ids -> Nat]
  /\ total_size \in Int /\ max_total_size \in Int
  /\ brk \in Brks \cup {HeapLo}

Memory ==
  /\ mem \in [Address -> {Junk} \cup 0 .. 255]
  /\ broke \subseteq {"failed", "place", "data", "copy"}

\* The ranges on the list are in the heap even when an earlier trace left them.
LeftBehind == Listed(ranges, MaxBrk)

TInv == Where /\ Table /\ Memory /\ LeftBehind

LEMMA TraceType ==
  ASSUME Where
  PROVE  trace \in Seq(Request) /\ Len(trace) \in Nat /\ i \in Nat
<1>1. trace \in Traces \cup {<<>>} /\ i \in 1 .. Len(trace) + 1
  BY DEF Where
<1>2. trace \in Seq(Request)
  <2>1. CASE trace = <<>>
    BY <2>1
  <2>2. CASE trace \in Traces
    BY <2>2, MDriverAssumption DEF WellFormed
  <2> QED BY <1>1, <2>1, <2>2
<1>3. Len(trace) \in Nat
  BY <1>2, LenProperties
<1> QED BY <1>1, <1>2, <1>3

LEMMA AnswersAppended ==
  ASSUME Where, NEW p \in Pointers, NEW b \in Brks
  PROVE  LET more == Append(answers, [p |-> p, brk |-> b])
         IN  /\ more \in Seq([p : Pointers, brk : Brks]) /\ Len(more) = Len(answers) + 1
             /\ \A k \in 1 .. Len(answers) : more[k] = answers[k]
             /\ more[Len(answers) + 1] = [p |-> p, brk |-> b]
<1> DEFINE A == [p : Pointers, brk : Brks]
           a == [p |-> p, brk |-> b]
<1>1. answers \in Seq(A) /\ a \in A
  BY DEF Where
<1> HIDE DEF A, a
<1>2. /\ Append(answers, a) \in Seq(A) /\ Len(Append(answers, a)) = Len(answers) + 1
      /\ \A k \in 1 .. Len(answers) : Append(answers, a)[k] = answers[k]
      /\ Append(answers, a)[Len(answers) + 1] = a
  BY <1>1, AppendProperties
<1> QED BY <1>2 DEF A, a

\* The answer that comes again is one of the first pass.
LEMMA AnswerType ==
  ASSUME Where, NEW k \in 1 .. Len(answers)
  PROVE  answers[k].p \in Pointers /\ answers[k].brk \in Brks
<1>1. answers[k] \in [p : Pointers, brk : Brks]
  BY ElementOfSeq DEF Where
<1> QED BY <1>1

LEMMA EmptyTrace == <<>> \in Seq([p : Pointers, brk : Brks]) /\ Len(<<>>) = 0
OBVIOUS

LEMMA OneAnswer ==
  ASSUME NEW b \in Brks
  PROVE  /\ <<[p |-> NULL, brk |-> b]>> \in Seq([p : Pointers, brk : Brks])
         /\ Len(<<[p |-> NULL, brk |-> b]>>) = 1
<1>1. [p |-> NULL, brk |-> b] \in [p : Pointers, brk : Brks]
  BY MDriverAssumption
<1> DEFINE A == [p : Pointers, brk : Brks]
           a == [p |-> NULL, brk |-> b]
<1> HIDE DEF A, a
<1>2. a \in A => <<a>> \in Seq(A) /\ Len(<<a>>) = 1
  OBVIOUS
<1> QED BY <1>1, <1>2 DEF A, a

\* What the steps of the checking pass do to the answers.
LEMMA ValidSteps ==
  ASSUME [Next]_vars, ValidAlloc \/ ValidRealloc \/ ValidFree
  PROVE  /\ pass = "valid" /\ i <= Len(trace)
         /\ \/ /\ pass' = pass /\ trace' = trace /\ i' = i + 1 /\ valid' = valid
               /\ \E p \in Pointers :
                    answers' = Append(answers, [p |-> p, brk |-> brk'])
            \/ malloc_error
<1>1. CASE ValidAlloc
  <2>1. PICK p \in Pointers, m \in Left(mem) :
          Remember(Extent(p, Op.size), m) \/ malloc_error
    BY <1>1 DEF ValidAlloc
  <2> QED BY <1>1, <2>1 DEF ValidAlloc, At, Remember, Extent, score
<1>2. CASE ValidRealloc
  <2>1. \E p \in Pointers : \E m : Remember(Extent(p, Op.size), m) \/ malloc_error
    BY <1>2 DEF ValidRealloc
  <2> QED BY <1>2, <2>1 DEF ValidRealloc, At, Remember, Extent, score
<1>3. CASE ValidFree
  BY <1>3, MDriverAssumption DEF ValidFree, At, score
<1> QED BY <1>1, <1>2, <1>3

LEMMA WhereNext ==
  ASSUME RInv, TableType, EInv, Where, brk \in Brks \cup {HeapLo}, [Next]_vars
  PROVE  Where'
<1>1. /\ trace \in Seq(Request) /\ Len(trace) \in Nat /\ i \in Nat
      /\ NumTraces \in Nat /\ Len(valid) \in Nat /\ Len(answers) \in Nat
  <2>1. Len(valid) \in Nat
    BY LenProperties DEF EInv
  <2>2. Len(answers) \in Nat
    BY LenProperties DEF Where
  <2> QED BY <2>1, <2>2, TraceType, MDriverAssumption
<1>2. \A v \in BOOLEAN : Len(Append(valid, v)) = Len(valid) + 1
  BY AppendProperties DEF EInv
<1>3. ASSUME NextTrace, valid' = valid \/ (Len(valid) < NumTraces /\ valid' = Append(valid, FALSE))
      PROVE  Where'
  <2>1. Len(valid') <= NumTraces
    <3>1. Len(Append(valid, FALSE)) = Len(valid) + 1 /\ Len(valid) <= NumTraces
      BY <1>2 DEF Where
    <3>2. \/ Len(valid') = Len(valid)
          \/ Len(valid) < NumTraces /\ Len(valid') = Len(valid) + 1
      BY <3>1, <1>3
    <3>3. Len(valid) \in Nat /\ NumTraces \in Nat
      BY <1>1
    <3> QED BY <3>1, <3>2, <3>3
  <2>2. 1 \in 1 .. Len(<<>>) + 1
    BY EmptyTrace
  <2> QED BY <1>3, <2>1, <2>2, EmptyTrace DEF NextTrace, Where
<1>4. CASE StartValid
  <2>1. /\ trace' \in Traces /\ pass' = "valid" /\ i' = 1 /\ valid' = valid
        /\ brk' \in Brks /\ answers' = <<[p |-> NULL, brk |-> brk']>>
        /\ Len(valid) < NumTraces
    BY <1>4 DEF StartValid, TableType, score
  <2>2. Len(trace') \in Nat
    <3>1. trace' \in Seq(Request)
      BY <2>1, MDriverAssumption DEF WellFormed
    <3> QED BY <3>1, LenProperties
  <2>3. answers' \in Seq([p : Pointers, brk : Brks]) /\ Len(answers') = 1
    BY <2>1, OneAnswer
  <2> QED BY <2>1, <2>2, <2>3, <1>1 DEF Where
<1>5. CASE InitFails \/ ValidFails
  BY <1>5, <1>3 DEF InitFails, ValidFails, malloc_error, At, Where
<1>6. CASE ValidAlloc \/ ValidRealloc \/ ValidFree
  <2>1. /\ pass = "valid" /\ i <= Len(trace)
        /\ \/ /\ pass' = pass /\ trace' = trace /\ i' = i + 1 /\ valid' = valid
              /\ \E p \in Pointers :
                   answers' = Append(answers, [p |-> p, brk |-> brk'])
           \/ malloc_error
    BY <1>6, ValidSteps
  <2>2. CASE malloc_error
    BY <2>1, <2>2, <1>3 DEF malloc_error, Where
  <2>3. CASE pass' = pass /\ trace' = trace /\ i' = i + 1 /\ valid' = valid
             /\ \E p \in Pointers : answers' = Append(answers, [p |-> p, brk |-> brk'])
    <3>1. PICK p \in Pointers : answers' = Append(answers, [p |-> p, brk |-> brk'])
      BY <2>3
    <3>2. brk' \in Brks
      <4>1. brk \in Brks
        BY <2>1 DEF RInv, DriverType
      <4> QED BY <1>6, <4>1 DEF ValidAlloc, ValidRealloc, ValidFree
    <3>3. answers' \in Seq([p : Pointers, brk : Brks]) /\ Len(answers') = Len(answers) + 1
      BY <3>1, <3>2, AnswersAppended
    <3>4. i + 1 \in 1 .. Len(trace) + 1
      BY <2>1, <1>1
    <3> QED BY <2>1, <2>3, <3>3, <3>4 DEF Where
  <2> QED BY <2>1, <2>2, <2>3
<1>7. CASE StartUtil \/ StartSpeed \/ SpeedAgain
  <2>1. /\ pass' \in {"util", "speed"} /\ i' = 1 /\ UNCHANGED <<trace, answers>>
        /\ pass \in {"valid", "util", "speed"} /\ i = Len(trace) + 1
        /\ valid' = valid \/ (pass = "valid" /\ valid' = Append(valid, TRUE))
    BY <1>7 DEF StartUtil, StartSpeed, SpeedAgain, Reset
  <2>2. Len(answers) = Len(trace) + 1
    BY <2>1 DEF Where
  <2>3. Len(valid') <= NumTraces
    <3>1. /\ Len(Append(valid, TRUE)) = Len(valid) + 1 /\ Len(valid) <= NumTraces
          /\ pass = "valid" => Len(valid) < NumTraces
      BY <1>2 DEF Where
    <3>2. \/ Len(valid') = Len(valid)
          \/ Len(valid) < NumTraces /\ Len(valid') = Len(valid) + 1
      BY <3>1, <2>1
    <3>3. Len(valid) \in Nat /\ NumTraces \in Nat
      BY <1>1
    <3> QED BY <3>1, <3>2, <3>3
  <2>4. 1 \in 1 .. Len(trace) + 1
    BY <1>1
  <2> QED BY <2>1, <2>2, <2>3, <2>4 DEF Where
<1>8. CASE UtilAlloc \/ UtilRealloc \/ UtilFree \/ SpeedRequest \/ SpeedFree
  <2>1. /\ pass \in {"util", "speed"} /\ i <= Len(trace) /\ i' = i + 1
        /\ UNCHANGED <<pass, trace, valid, answers>>
    BY <1>8 DEF UtilAlloc, UtilRealloc, UtilFree, SpeedRequest, SpeedFree, Answer, At, score
  <2>2. i + 1 \in 1 .. Len(trace) + 1
    BY <2>1, <1>1
  <2> QED BY <2>1, <2>2 DEF Where
<1>9. CASE Fails
  <2>1. pass' = "exited" /\ UNCHANGED <<trace, i, valid, answers>>
    BY <1>9 DEF Fails, app_error, score, heap
  <2> QED BY <2>1 DEF Where
<1>10. CASE EndTrace
  BY <1>10, <1>3 DEF EndTrace, score
<1>11. CASE Summary
  <2>1. pass' \in {"index", "terminated"} /\ UNCHANGED <<trace, i, valid, answers>>
    BY <1>11 DEF Summary, score, heap
  <2> QED BY <2>1 DEF Where
<1>12. CASE UNCHANGED vars
  BY <1>12 DEF vars, score, heap, Where
<1> QED BY <1>4, <1>5, <1>6, <1>7, <1>8, <1>9, <1>10, <1>11, <1>12 DEF Next

LEMMA MaxOfTwo ==
  ASSUME NEW a \in Int, NEW b \in Int
  PROVE  Max({a, b}) = IF a < b THEN b ELSE a
<1>1. CASE a < b
  <2>1. \E x \in {a, b} : \A y \in {a, b} : x >= y
    BY <1>1
  <2> QED BY <1>1, <2>1 DEF Max
<1>2. CASE ~ (a < b)
  <2>1. \E x \in {a, b} : \A y \in {a, b} : x >= y
    BY <1>2
  <2> QED BY <1>2, <2>1 DEF Max
<1> QED BY <1>1, <1>2

LEMMA TableNext ==
  ASSUME RInv, TableType, Where, Table, [Next]_vars
  PROVE  Table'
<1> USE DEF Table
<1>1. NULL \in Pointers /\ HeapLo \in Nat
  BY MDriverAssumption
<1>2. ASSUME NextTrace, UNCHANGED sizes, brk' \in Brks \cup {HeapLo}
      PROVE  Table'
  BY <1>1, <1>2 DEF NextTrace, sizes
<1>3. CASE StartValid
  BY <1>3 DEF StartValid, table, sizes
<1>4. CASE InitFails \/ ValidFails \/ EndTrace
  BY <1>4, <1>2 DEF InitFails, ValidFails, EndTrace, malloc_error
<1>5. ASSUME pass = "valid", i <= Len(trace), brk' \in Brks, NEW p \in Pointers, NEW m,
             Remember(Extent(p, Op.size), m) \/ malloc_error
      PROVE  Table'
  <2>1. CASE malloc_error
    BY <1>2, <1>5, <2>1 DEF malloc_error
  <2>2. CASE Remember(Extent(p, Op.size), m)
    <3>1. Op.index \in Ids /\ Op.size \in Nat
      BY <1>5, OpType DEF RInv, Request
    <3> QED BY <1>5, <2>2, <3>1 DEF Remember, Extent, sizes
  <2> QED BY <1>5, <2>1, <2>2
<1>6. CASE ValidAlloc
  <2>1. pass = "valid" /\ i <= Len(trace) /\ brk' \in Brks
    BY <1>6 DEF ValidAlloc, At
  <2>2. PICK p \in Pointers, m \in Left(mem) :
          Remember(Extent(p, Op.size), m) \/ malloc_error
    BY <1>6 DEF ValidAlloc
  <2> QED BY <2>1, <2>2, <1>5
<1>7. CASE ValidRealloc
  <2>1. pass = "valid" /\ i <= Len(trace) /\ brk' \in Brks
    BY <1>7 DEF ValidRealloc, At
  <2>2. \E p \in Pointers : \E m : Remember(Extent(p, Op.size), m) \/ malloc_error
    BY <1>7 DEF ValidRealloc
  <2> QED BY <2>1, <2>2, <1>5
<1>8. CASE ValidFree
  BY <1>8 DEF ValidFree, table, sizes
<1>9. CASE StartUtil \/ StartSpeed \/ SpeedAgain
  <2>1. /\ brk' = answers[1].brk /\ total_size' = 0 /\ max_total_size' = 0
        /\ UNCHANGED table
        /\ pass \in {"valid", "util", "speed"} /\ i = Len(trace) + 1
    BY <1>9 DEF StartUtil, StartSpeed, SpeedAgain, Reset
  <2>2. 1 \in 1 .. Len(answers)
    BY <2>1, TraceType DEF Where
  <2>3. brk' \in Brks
    BY <2>1, <2>2, AnswerType
  <2> QED BY <2>1, <2>3 DEF table
<1>10. CASE UtilAlloc \/ UtilRealloc \/ UtilFree \/ SpeedRequest \/ SpeedFree
  <2>1. pass \in {"util", "speed"} /\ i <= Len(trace) /\ brk' = answers[i + 1].brk
    BY <1>10 DEF UtilAlloc, UtilRealloc, UtilFree, SpeedRequest, SpeedFree, Answer, At
  <2>2. i + 1 \in 1 .. Len(answers)
    BY <2>1, TraceType DEF Where
  <2>3. answers[i + 1].p \in Pointers /\ brk' \in Brks
    BY <2>1, <2>2, AnswerType
  <2>4. Op.index \in Ids /\ Op.size \in Nat
    BY <2>1, OpType DEF RInv, Request
  <2>5. block_sizes[Op.index] \in Nat
    BY <2>4
  <2>6. ASSUME NEW n \in Int, Counts(n)
        PROVE  total_size' \in Int /\ max_total_size' \in Int
    <3>1. total_size + n \in Int
      OBVIOUS
    <3>2. max_total_size' \in Int
      BY <2>6, <3>1, MaxOfTwo DEF Counts
    <3> QED BY <2>6, <3>1, <3>2 DEF Counts
  <2>7. total_size' \in Int /\ max_total_size' \in Int
    <3>1. CASE UtilAlloc
      BY <2>4, <2>6, <3>1 DEF UtilAlloc
    <3>2. CASE UtilRealloc
      <4>1. Op.size - block_sizes[Op.index] \in Int
        BY <2>4, <2>5
      <4> QED BY <2>6, <3>2, <4>1 DEF UtilRealloc
    <3>3. CASE UtilFree
      BY <2>5, <3>3 DEF UtilFree
    <3>4. CASE SpeedRequest \/ SpeedFree
      BY <3>4 DEF SpeedRequest, SpeedFree, sizes
    <3> QED BY <1>10, <3>1, <3>2, <3>3, <3>4
  <2>8. blocks' \in [Ids -> Pointers] /\ block_sizes' \in [Ids -> Nat]
    BY <1>10, <2>3, <2>4 DEF UtilAlloc, UtilRealloc, UtilFree, SpeedRequest, SpeedFree, table
  <2> QED BY <2>3, <2>7, <2>8
<1>11. CASE Fails
  BY <1>11 DEF Fails, app_error, table, sizes, heap
<1>12. CASE Summary
  BY <1>12 DEF Summary, table, sizes, heap
<1>13. CASE UNCHANGED vars
  BY <1>13 DEF vars, table, sizes, heap
<1> QED BY <1>3, <1>4, <1>6, <1>7, <1>8, <1>9, <1>10, <1>11, <1>12, <1>13 DEF Next

\* What a call leaves in memory are bytes again.
LEMMA LeftType ==
  ASSUME NEW m \in [Address -> {Junk} \cup 0 .. 255], NEW l \in Left(m)
  PROVE  l \in [Address -> {Junk} \cup 0 .. 255]
<1>1. CASE l = m
  BY <1>1
<1>2. CASE \E a \in Address : l = [m EXCEPT ![a] = Junk]
  <2>1. PICK a \in Address : l = [m EXCEPT ![a] = Junk]
    BY <1>2
  <2> QED BY <2>1
<1> QED BY <1>1, <1>2 DEF Left

LEMMA MovedType ==
  ASSUME Checking, mem \in [Address -> {Junk} \cup 0 .. 255], Op.type = "REALLOC",
         NEW p \in Nat
  PROVE  Moved(mem, blocks[Op.index], p, Min({Op.size, block_sizes[Op.index]}))
           \in [Address -> {Junk} \cup 0 .. 255]
<1> DEFINE id == Op.index
           kept == Min({Op.size, block_sizes[id]})
<1>1. /\ id \in Live /\ blocks[id] \in Nat /\ block_sizes[id] \in Nat /\ Op.size \in Nat
      /\ ranges \in Seq(Span) /\ Listed(ranges, brk) /\ brk \in Brks /\ Live \in SUBSET Ids
      /\ Matched(ranges, Live, blocks, block_sizes)
      /\ blocks \in [Ids -> Nat] /\ block_sizes \in [Ids -> Nat]
  <2>1. Op.type # "ALLOC"
    OBVIOUS
  <2> QED BY <2>1, CheckingFacts
<1>2. kept \in Nat /\ kept <= block_sizes[id]
  BY <1>1, MinOfTwo
<1>3. Payload(id) \subseteq Address
  BY <1>1, PayloadInside
<1> HIDE DEF kept
<1>4. ASSUME NEW a \in Address, a \in Bytes(p, kept)
      PROVE  a - p + blocks[id] \in Address
  <2>1. a - p + blocks[id] \in Payload(id)
    <3>1. a \in p .. p + kept - 1
      BY <1>4 DEF Bytes
    <3> QED BY <1>1, <1>2, <3>1 DEF Payload, Bytes
  <2> QED BY <1>3, <2>1
<1>5. \A a \in Address :
        (IF a \in Bytes(p, kept) THEN mem[a - p + blocks[id]] ELSE mem[a])
          \in {Junk} \cup 0 .. 255
  BY <1>4
<1> QED BY <1>5 DEF Moved, kept

LEMMA FilledType ==
  ASSUME NEW m \in [Address -> {Junk} \cup 0 .. 255], NEW lo, NEW id \in Nat, NEW size
  PROVE  memset(m, lo, LowByte(id), size) \in [Address -> {Junk} \cup 0 .. 255]
<1>1. LowByte(id) \in 0 .. 255
  BY DEF LowByte
<1> HIDE DEF LowByte
<1> QED BY <1>1 DEF memset

LEMMA MemoryNext ==
  ASSUME RInv, TableType, Known, Memory, [Next]_vars
  PROVE  Memory'
<1> DEFINE Cell == {Junk} \cup 0 .. 255
<1>1. mem \in [Address -> Cell] /\ broke \subseteq {"failed", "place", "data", "copy"}
  BY DEF Memory
<1>2. ASSUME NEW b, NEW broken, b \in {"failed", "place", "data", "copy"}
      PROVE  Breaks(b, broken) \subseteq {"failed", "place", "data", "copy"}
  BY <1>2 DEF Breaks
<1>3. /\ \A x : Breaks("place", x) \subseteq {"failed", "place", "data", "copy"}
      /\ \A x : Breaks("data", x) \subseteq {"failed", "place", "data", "copy"}
      /\ \A x : Breaks("copy", x) \subseteq {"failed", "place", "data", "copy"}
  BY <1>2
<1>4. CASE StartValid
  BY <1>4 DEF StartValid, Memory
<1>5. CASE InitFails \/ ValidFails
  BY <1>1, <1>5 DEF InitFails, ValidFails, Memory
<1>6. ASSUME pass = "valid", i <= Len(trace), NEW p \in Pointers,
             NEW m \in [Address -> Cell],
             Remember(Extent(p, Op.size), m) \/ mem' = m
      PROVE  mem' \in [Address -> Cell]
  <2>1. Op.index \in Nat
    BY <1>6, OpType, MDriverAssumption DEF RInv, Request
  <2>2. memset(m, p, LowByte(Op.index), Op.size) \in [Address -> Cell]
    BY <2>1, FilledType
  <2> QED BY <1>6, <2>2 DEF Remember, Extent
<1>7. CASE ValidAlloc
  <2>1. pass = "valid" /\ i <= Len(trace)
    BY <1>7 DEF ValidAlloc, At
  <2>2. PICK p \in Pointers, m \in Left(mem) :
          /\ broke' = broke \cup Breaks("place", Misplaced(p, Op.size, brk', Live))
                            \cup Breaks("data", Clobbered(m, Live))
          /\ Remember(Extent(p, Op.size), m) \/ mem' = m
    BY <1>7 DEF ValidAlloc
  <2>3. m \in [Address -> Cell]
    BY <1>1, LeftType
  <2>4. mem' \in [Address -> Cell]
    BY <2>1, <2>2, <2>3, <1>6
  <2>5. broke' \subseteq {"failed", "place", "data", "copy"}
    BY <2>2, <1>1, <1>3
  <2> QED BY <2>4, <2>5 DEF Memory
<1>8. CASE ValidRealloc
  <2> DEFINE id == Op.index
             kept == Min({Op.size, block_sizes[id]})
             others == Live \ {id}
  <2>1. pass = "valid" /\ i <= Len(trace) /\ Op.type = "REALLOC"
    BY <1>8 DEF ValidRealloc, At
  <2> HIDE DEF kept, others
  <2>2. PICK p \in Pointers : \E m \in Left(Moved(mem, blocks[id], p, kept)) :
          /\ broke' = broke
               \cup Breaks("place", ~ ~ Misplaced(p, Op.size, brk', others))
               \cup Breaks("data", Clobbered(m, others))
               \cup Breaks("copy", /\ ~ Misplaced(p, Op.size, brk', others)
                                   /\ Lost(m, blocks[id], p, kept))
          /\ Remember(Extent(p, Op.size), m) \/ mem' = m
    BY <1>8, Zenon DEF ValidRealloc, kept, others
  <2>3. PICK m \in Left(Moved(mem, blocks[id], p, kept)) :
          /\ broke' = broke
               \cup Breaks("place", ~ ~ Misplaced(p, Op.size, brk', others))
               \cup Breaks("data", Clobbered(m, others))
               \cup Breaks("copy", /\ ~ Misplaced(p, Op.size, brk', others)
                                   /\ Lost(m, blocks[id], p, kept))
          /\ Remember(Extent(p, Op.size), m) \/ mem' = m
    BY <2>2
  <2>4. m \in [Address -> Cell]
    <3>1. Checking /\ p \in Nat
      BY <2>1, MDriverAssumption DEF Checking
    <3>2. Moved(mem, blocks[id], p, kept) \in [Address -> Cell]
      BY <2>1, <3>1, <1>1, MovedType DEF kept
    <3> QED BY <3>2, LeftType
  <2>5. mem' \in [Address -> Cell]
    BY <2>1, <2>3, <2>4, <1>6
  <2>6. broke' \subseteq {"failed", "place", "data", "copy"}
    BY <2>3, <1>1, <1>3
  <2> QED BY <2>5, <2>6 DEF Memory
<1>9. CASE ValidFree
  <2>1. PICK m \in Left(mem) :
          mem' = m /\ broke' = broke \cup Breaks("data", Clobbered(m, Live \ {Op.index}))
    BY <1>9 DEF ValidFree
  <2>2. m \in [Address -> Cell]
    BY <1>1, LeftType
  <2>3. broke' \subseteq {"failed", "place", "data", "copy"}
    BY <2>1, <1>1, <1>3
  <2> QED BY <2>1, <2>2, <2>3 DEF Memory
<1>10. CASE UNCHANGED <<mem, broke>>
  BY <1>10 DEF Memory
<1>11. CASE StartUtil \/ StartSpeed \/ SpeedAgain
  BY <1>10, <1>11 DEF StartUtil, StartSpeed, SpeedAgain, Reset
<1>12. CASE UtilAlloc \/ UtilRealloc \/ UtilFree \/ SpeedRequest \/ SpeedFree
  BY <1>10, <1>12 DEF UtilAlloc, UtilRealloc, UtilFree, SpeedRequest, SpeedFree, Answer
<1>13. CASE Fails
  BY <1>10, <1>13 DEF Fails, app_error, heap
<1>14. CASE EndTrace \/ Summary
  BY <1>10, <1>14 DEF EndTrace, Summary, heap
<1>15. CASE UNCHANGED vars
  BY <1>10, <1>15 DEF vars, heap
<1> QED BY <1>4, <1>5, <1>7, <1>8, <1>9, <1>11, <1>12, <1>13, <1>14, <1>15 DEF Next

\* Whatever a step does to the list, it takes ranges off it or adds one that has
\* passed the tests.
LEMMA ListSteps ==
  ASSUME [Next]_vars
  PROVE  \/ ranges' = ranges \/ ranges' = <<>>
         \/ \E lo : ranges' = remove_range(ranges, lo)
         \/ /\ pass = "valid" /\ i <= Len(trace) /\ brk' \in Brks
            /\ \E p \in Pointers : \E rest :
                 /\ rest = ranges \/ \E lo : rest = remove_range(ranges, lo)
                 /\ Acceptable(rest, Extent(p, Op.size), brk')
                 /\ ranges' = add_range(rest, Extent(p, Op.size))
<1>1. CASE StartValid \/ InitFails
  BY <1>1 DEF StartValid, InitFails
<1>2. CASE ValidFails
  BY <1>2 DEF ValidFails
<1>3. CASE ValidAlloc
  <2>1. PICK p \in Pointers :
          \/ /\ Acceptable(ranges, Extent(p, Op.size), brk')
             /\ ranges' = add_range(ranges, Extent(p, Op.size))
          \/ UNCHANGED ranges
    BY <1>3 DEF ValidAlloc
  <2>2. pass = "valid" /\ i <= Len(trace) /\ brk' \in Brks
    BY <1>3 DEF ValidAlloc, At
  <2> QED BY <2>1, <2>2
<1>4. CASE ValidRealloc
  <2> DEFINE rest == remove_range(ranges, blocks[Op.index])
  <2>1. PICK p \in Pointers :
          \/ /\ Acceptable(rest, Extent(p, Op.size), brk')
             /\ ranges' = add_range(rest, Extent(p, Op.size))
          \/ ranges' = rest
    BY <1>4 DEF ValidRealloc
  <2>2. pass = "valid" /\ i <= Len(trace) /\ brk' \in Brks
    BY <1>4 DEF ValidRealloc, At
  <2> QED BY <2>1, <2>2
<1>5. CASE ValidFree
  BY <1>5 DEF ValidFree
<1>6. CASE StartUtil \/ StartSpeed \/ SpeedAgain
  BY <1>6 DEF StartUtil, StartSpeed, SpeedAgain, Reset
<1>7. CASE UtilAlloc \/ UtilRealloc \/ UtilFree \/ SpeedRequest \/ SpeedFree
  BY <1>7 DEF UtilAlloc, UtilRealloc, UtilFree, SpeedRequest, SpeedFree, Answer
<1>8. CASE Fails
  BY <1>8 DEF Fails, app_error
<1>9. CASE EndTrace \/ Summary \/ UNCHANGED vars
  BY <1>9 DEF EndTrace, Summary, vars
<1> QED BY <1>1, <1>2, <1>3, <1>4, <1>5, <1>6, <1>7, <1>8, <1>9 DEF Next

LEMMA LeftBehindNext ==
  ASSUME RInv, LeftBehind, [Next]_vars
  PROVE  LeftBehind'
<1>1. ranges \in Seq(Span) /\ Nested(ranges) /\ Listed(ranges, MaxBrk)
  BY DEF RInv, DriverType, LeftBehind
<1> SUFFICES Listed(ranges', MaxBrk)
  BY DEF LeftBehind
<1>2. \A lo : LET rest == remove_range(ranges, lo)
              IN  rest \in Seq(Span) /\ Nested(rest) /\ Listed(rest, MaxBrk)
  BY <1>1, RemoveKeepsList
<1>3. CASE ranges' = ranges
  BY <1>1, <1>3
<1>4. CASE ranges' = <<>>
  BY <1>4 DEF Listed
<1>5. CASE \E lo : ranges' = remove_range(ranges, lo)
  BY <1>2, <1>5
<1>6. CASE /\ pass = "valid" /\ i <= Len(trace) /\ brk' \in Brks
           /\ \E p \in Pointers : \E rest :
                /\ rest = ranges \/ \E lo : rest = remove_range(ranges, lo)
                /\ Acceptable(rest, Extent(p, Op.size), brk')
                /\ ranges' = add_range(rest, Extent(p, Op.size))
  <2> PICK p \in Pointers :
         \E rest :
            /\ rest = ranges \/ \E lo : rest = remove_range(ranges, lo)
            /\ Acceptable(rest, Extent(p, Op.size), brk')
            /\ ranges' = add_range(rest, Extent(p, Op.size))
    BY <1>6
  <2>1. PICK rest :
          /\ rest = ranges \/ \E lo : rest = remove_range(ranges, lo)
          /\ Acceptable(rest, Extent(p, Op.size), brk')
          /\ ranges' = add_range(rest, Extent(p, Op.size))
    OBVIOUS
  <2>2. rest \in Seq(Span) /\ Nested(rest) /\ Listed(rest, MaxBrk)
    BY <1>1, <1>2, <2>1
  <2> DEFINE r == Extent(p, Op.size)
  <2>3. r \in Span
    BY <1>6, ExtentType DEF RInv
  <2>4. Acceptable(rest, r, MaxBrk)
    <3>1. InHeap(r, brk')
      BY <2>1 DEF Acceptable
    <3>2. brk' \in Int /\ MaxBrk \in Int /\ brk' <= MaxBrk /\ HeapLo \in Int
      BY <1>6, MDriverAssumption
    <3>3. r.lo \in Int /\ r.hi \in Int
      BY <2>3 DEF Span
    <3> HIDE DEF r
    <3>4. InHeap(r, MaxBrk)
      BY <3>1, <3>2, <3>3 DEF InHeap
    <3> QED BY <2>1, <3>4 DEF Acceptable, r
  <2> HIDE DEF r
  <2>5. Listed(add_range(rest, r), MaxBrk)
    BY <2>2, <2>3, <2>4, AddKeepsList
  <2> QED BY <2>1, <2>5 DEF r
<1> QED BY <1>3, <1>4, <1>5, <1>6, ListSteps

LEMMA TInit == Init => TInv
<1> SUFFICES ASSUME Init PROVE TInv
  OBVIOUS
<1>1. Where
  <2>1. 1 \in 1 .. Len(<<>>) + 1
    BY EmptyTrace
  <2> QED BY <2>1, EmptyTrace, MDriverAssumption DEF Init, Where
<1>2. Table
  BY MDriverAssumption DEF Init, Table
<1>3. Memory
  BY DEF Init, Memory
<1>4. LeftBehind
  BY DEF Init, LeftBehind, Listed
<1> QED BY <1>1, <1>2, <1>3, <1>4 DEF TInv

LEMMA TInvariant == Spec => [](RInv /\ TableType /\ EInv /\ TInv)
<1>1. RInv /\ TableType /\ Known /\ EInv /\ TInv /\ [Next]_vars => TInv'
  <2>1. RInv /\ TableType /\ Known /\ EInv /\ TInv /\ [Next]_vars =>
          /\ RInv /\ TableType /\ Known /\ EInv /\ Where /\ Table /\ Memory /\ LeftBehind
          /\ brk \in Brks \cup {HeapLo}
    BY DEF TInv, Table
  <2> QED BY <2>1, WhereNext, TableNext, MemoryNext, LeftBehindNext DEF TInv
<1>2. EInv /\ [Next]_vars => EInv'
  BY ENext
<1>3. Spec => []EInv
  BY EInit, <1>2, PTL DEF Spec
<1> QED BY KnownInvariant, <1>3, TInit, <1>1, PTL DEF Spec

\* Every variable of the driver keeps its type, whatever the package answers; in
\* particular the ranges an aborted trace leaves behind are in the heap, and the
\* answers remembered suffice for the passes that repeat them.
THEOREM TypesHold == Spec => []TypeOK
<1>1. RInv /\ EInv /\ TInv => TypeOK
  <2> SUFFICES ASSUME RInv, EInv, TInv PROVE TypeOK
    OBVIOUS
  <2>1. errors \in Nat /\ valid \in Seq(BOOLEAN)
    BY FS_CardinalityType DEF EInv, ErrorsAreInvalidTraces
  <2>2. ranges \in Seq([lo : Address, hi : Address])
    <3>1. ranges \in Seq(Span) /\ Listed(ranges, MaxBrk)
      BY DEF RInv, DriverType, TInv, LeftBehind
    <3>2. ranges \in [1 .. Len(ranges) -> Span] /\ Len(ranges) \in Nat
      BY <3>1, LenProperties
    <3>3. ASSUME NEW k \in 1 .. Len(ranges)
          PROVE  ranges[k] \in [lo : Address, hi : Address]
      <4>1. ranges[k] \in Span
        BY <3>2
      <4>2. InHeap(ranges[k], MaxBrk)
        BY <3>1, <3>2 DEF Listed
      <4>3. ranges[k].lo \in Address /\ ranges[k].hi \in Address
        BY <4>1, <4>2, MDriverAssumption DEF InHeap, Span, Address
      <4> QED BY <4>1, <4>3 DEF Span
    <3> DEFINE R == [lo : Address, hi : Address]
               n == Len(ranges)
    <3> HIDE DEF R
    <3>4. ranges \in [1 .. n -> R] /\ n \in Nat
      BY <3>2, <3>3 DEF R
    <3> HIDE DEF n
    <3>5. ranges \in Seq(R)
      BY <3>4
    <3> QED BY <3>5 DEF R
  <2> QED BY <2>1, <2>2 DEF TInv, Where, Table, Memory, TypeOK
<1> QED BY RInvariant, TInvariant, <1>1, PTL
-----------------------------------------------------------------------------
(* Sums.  MapThenSumSet recurs on subsets: for a finite set there is such a  *)
(* function, and the order in which it takes the elements makes no           *)
(* difference.                                                               *)

SumOf(f, S) == MapThenSumSet(LAMBDA x : f[x], S)

First(s) == CHOOSE x \in s : TRUE
Rest(s)  == s \ {First(s)}

Turn(f, g, s) == IF s = {} THEN 0 ELSE f[First(s)] + g[Rest(s)]

Adds(f, S, g) == g = [s \in SUBSET S |-> Turn(f, g, s)]

\* The natural numbers are well-ordered: induction without a predicate.
LEMMA LeastNat ==
  ASSUME NEW S \in SUBSET Nat, S # {}
  PROVE  \E m \in S : \A n \in S : m <= n
<1> DEFINE R == {ss \in Nat \X Nat : ss[1] < ss[2]}
<1>1. IsWellFoundedOn(R, Nat)
  BY NatLessThanWellFounded DEF OpToRel
<1>2. PICK x \in S : \A y \in S : ~ (<<y, x>> \in R)
  <2> HIDE DEF R
  <2> QED BY <1>1, WFMin
<1>3. \A y \in S : ~ (y < x)
  <2> SUFFICES ASSUME NEW y \in S, y < x PROVE FALSE
    OBVIOUS
  <2>1. <<y, x>> \in Nat \X Nat /\ <<y, x>>[1] < <<y, x>>[2]
    OBVIOUS
  <2> QED BY <2>1, <1>2
<1> QED BY <1>3

\* Among the bad subsets of a finite set there is a smallest one.
LEMMA SmallestSubset ==
  ASSUME NEW T, IsFiniteSet(T), NEW Bad \in SUBSET SUBSET T, Bad # {}
  PROVE  \E s \in Bad : /\ IsFiniteSet(s)
                        /\ \A r \in SUBSET s : r # s => r \notin Bad
<1> DEFINE B == {n \in Nat : \E s \in Bad : Cardinality(s) = n}
<1>1. \A s \in Bad : IsFiniteSet(s) /\ Cardinality(s) \in Nat
  BY FS_Subset, FS_CardinalityType
<1>2. B # {}
  BY <1>1
<1>3. PICK m \in B : \A n \in B : m <= n
  <2>1. B \in SUBSET Nat
    OBVIOUS
  <2> HIDE DEF B
  <2> QED BY <1>2, <2>1, LeastNat
<1>4. PICK s \in Bad : Cardinality(s) = m
  OBVIOUS
<1>5. ASSUME NEW r \in SUBSET s, r # s, r \in Bad PROVE FALSE
  <2>1. Cardinality(r) <= Cardinality(s) /\ Cardinality(r) # Cardinality(s)
    BY <1>1, <1>5, FS_Subset
  <2>2. Cardinality(r) \in B
    BY <1>1, <1>5
  <2> HIDE DEF B
  <2>3. Cardinality(s) <= Cardinality(r)
    BY <1>3, <1>4, <2>2
  <2>4. Cardinality(r) \in Nat /\ Cardinality(s) \in Nat
    BY <1>1, <1>5
  <2> QED BY <2>1, <2>3, <2>4
<1> QED BY <1>1, <1>5

LEMMA RestSmaller ==
  ASSUME NEW s, s # {}
  PROVE  First(s) \in s /\ Rest(s) \subseteq s /\ Rest(s) # s
BY DEF First, Rest

LEMMA AddsUnique ==
  ASSUME NEW f, NEW S1, NEW S2, NEW g1, NEW g2, Adds(f, S1, g1), Adds(f, S2, g2),
         NEW T, IsFiniteSet(T), T \subseteq S1, T \subseteq S2
  PROVE  g1[T] = g2[T]
<1> DEFINE Bad == {s \in SUBSET T : g1[s] # g2[s]}
<1> SUFFICES ASSUME Bad # {} PROVE FALSE
  OBVIOUS
<1>1. PICK s \in Bad : \A r \in SUBSET s : r # s => r \notin Bad
  <2>1. Bad \in SUBSET SUBSET T
    OBVIOUS
  <2> HIDE DEF Bad
  <2> QED BY <2>1, SmallestSubset
<1>2. s \in SUBSET S1 /\ s \in SUBSET S2 /\ s \in SUBSET T
  OBVIOUS
<1>3. g1[s] = Turn(f, g1, s) /\ g2[s] = Turn(f, g2, s)
  BY <1>2, Zenon DEF Adds
<1>4. CASE s = {}
  BY <1>3, <1>4 DEF Turn
<1>5. CASE s # {}
  <2>1. Rest(s) \in SUBSET s /\ Rest(s) # s
    BY <1>5, RestSmaller
  <2>2. g1[Rest(s)] = g2[Rest(s)]
    BY <1>1, <1>2, <2>1
  <2> QED BY <1>3, <1>5, <2>2 DEF Turn
<1> QED BY <1>4, <1>5

LEMMA AddsExists ==
  ASSUME NEW f, NEW T, IsFiniteSet(T)
  PROVE  \E g : Adds(f, T, g)
<1> DEFINE Bad == {s \in SUBSET T : ~ \E g : Adds(f, s, g)}
<1> SUFFICES ASSUME Bad # {} PROVE FALSE
  OBVIOUS
<1>1. PICK S \in Bad : IsFiniteSet(S) /\ \A r \in SUBSET S : r # S => r \notin Bad
  <2>1. Bad \in SUBSET SUBSET T
    OBVIOUS
  <2> HIDE DEF Bad
  <2> QED BY <2>1, SmallestSubset
<1> DEFINE h(s) == CHOOSE g : Adds(f, s, g)
           g == [s \in SUBSET S |->
                   IF s = {} THEN 0 ELSE f[First(s)] + h(Rest(s))[Rest(s)]]
<1>2. ASSUME NEW r \in SUBSET S, r # S
      PROVE  Adds(f, r, h(r)) /\ IsFiniteSet(r)
  <2>1. r \notin Bad
    BY <1>1, <1>2
  <2>2. r \in SUBSET T
    OBVIOUS
  <2>3. \E k : Adds(f, r, k)
    BY <2>1, <2>2
  <2>4. IsFiniteSet(r)
    BY <1>1, FS_Subset
  <2> QED BY <2>3, <2>4
<1>3. ASSUME NEW r \in SUBSET S, r # S
      PROVE  h(r)[r] = g[r]
  <2>1. Adds(f, r, h(r)) /\ IsFiniteSet(r)
    BY <1>2, <1>3
  <2>2. h(r)[r] = Turn(f, h(r), r)
    <3> HIDE DEF h
    <3>1. r \in SUBSET r
      OBVIOUS
    <3> QED BY <2>1, <3>1, Zenon DEF Adds
  <2>3. CASE r = {}
    BY <2>2, <2>3 DEF Turn
  <2>4. CASE r # {}
    <3> DEFINE q == Rest(r)
    <3>1. q \subseteq r /\ q # r
      BY <2>4, RestSmaller
    <3>2. q \in SUBSET S /\ q # S
      BY <3>1
    <3>3. Adds(f, q, h(q)) /\ IsFiniteSet(q)
      BY <3>2, <1>2
    <3>4. h(r)[q] = h(q)[q]
      <4> HIDE DEF h, q
      <4>1. q \subseteq q
        OBVIOUS
      <4> QED BY <2>1, <3>1, <3>3, <4>1, AddsUnique
    <3>5. h(r)[r] = f[First(r)] + h(r)[q]
      BY <2>2, <2>4, Zenon DEF Turn
    <3>6. g[r] = f[First(r)] + h(q)[q]
      BY <2>4, Zenon
    <3> QED BY <3>4, <3>5, <3>6, Zenon
  <2> QED BY <2>3, <2>4
<1>4. Adds(f, S, g)
  <2>1. ASSUME NEW s \in SUBSET S
        PROVE  g[s] = Turn(f, g, s)
    <3>1. CASE s = {}
      BY <3>1 DEF Turn
    <3>2. CASE s # {}
      <4>1. Rest(s) \in SUBSET S /\ Rest(s) # S
        BY <3>2, RestSmaller
      <4>2. h(Rest(s))[Rest(s)] = g[Rest(s)]
        BY <4>1, <1>3
      <4>3. g[s] = f[First(s)] + h(Rest(s))[Rest(s)]
        BY <3>2, Zenon
      <4>4. Turn(f, g, s) = f[First(s)] + g[Rest(s)]
        BY <3>2, Zenon DEF Turn
      <4> QED BY <4>2, <4>3, <4>4, Zenon
    <3> QED BY <3>1, <3>2
  <2>2. g = [s \in SUBSET S |-> g[s]]
    OBVIOUS
  <2> HIDE DEF g
  <2>3. [s \in SUBSET S |-> g[s]] = [s \in SUBSET S |-> Turn(f, g, s)]
    BY <2>1, Zenon
  <2> QED BY <2>2, <2>3, Zenon DEF Adds
<1> HIDE DEF g
<1> QED BY <1>1, <1>4

LEMMA SumUnfolds ==
  ASSUME NEW f, NEW S
  PROVE  SumOf(f, S) = (CHOOSE g : Adds(f, S, g))[S]
BY Zenon DEF SumOf, MapThenSumSet, MapThenFoldSet, Adds, Turn, First, Rest

LEMMA SumTurns ==
  ASSUME NEW f, NEW S, IsFiniteSet(S)
  PROVE  /\ S = {} => SumOf(f, S) = 0
         /\ S # {} => SumOf(f, S) = f[First(S)] + SumOf(f, Rest(S))
<1> DEFINE h(s) == CHOOSE g : Adds(f, s, g)
<1>1. \A s : IsFiniteSet(s) => Adds(f, s, h(s))
  BY AddsExists
<1>2. \A s : SumOf(f, s) = h(s)[s]
  BY SumUnfolds
<1> HIDE DEF h
<1>3. h(S)[S] = Turn(f, h(S), S)
  <2>1. S \in SUBSET S
    OBVIOUS
  <2>2. Adds(f, S, h(S))
    BY <1>1
  <2> QED BY <2>1, <2>2, Zenon DEF Adds
<1>4. CASE S = {}
  BY <1>2, <1>3, <1>4 DEF Turn
<1>5. CASE S # {}
  <2>1. Rest(S) \subseteq S
    BY <1>5, RestSmaller
  <2>2. IsFiniteSet(Rest(S))
    BY <2>1, FS_Subset
  <2>3. Adds(f, S, h(S)) /\ Adds(f, Rest(S), h(Rest(S)))
    BY <1>1, <2>2
  <2>4. h(S)[Rest(S)] = h(Rest(S))[Rest(S)]
    BY <2>1, <2>2, <2>3, AddsUnique
  <2>5. h(S)[S] = f[First(S)] + h(S)[Rest(S)]
    BY <1>3, <1>5, Zenon DEF Turn
  <2>6. SumOf(f, S) = h(S)[S] /\ SumOf(f, Rest(S)) = h(Rest(S))[Rest(S)]
    BY <1>2
  <2> QED BY <1>5, <2>4, <2>5, <2>6, Zenon
<1> QED BY <1>4, <1>5

\* Functions that agree on a set have the same sum over it.
LEMMA SumAgrees ==
  ASSUME NEW f, NEW g, NEW S, IsFiniteSet(S), \A x \in S : f[x] = g[x]
  PROVE  SumOf(f, S) = SumOf(g, S)
<1> DEFINE Bad == {s \in SUBSET S : SumOf(f, s) # SumOf(g, s)}
<1> SUFFICES ASSUME Bad # {} PROVE FALSE
  OBVIOUS
<1>1. PICK s \in Bad : IsFiniteSet(s) /\ \A r \in SUBSET s : r # s => r \notin Bad
  <2>1. Bad \in SUBSET SUBSET S
    OBVIOUS
  <2> HIDE DEF Bad
  <2> QED BY <2>1, SmallestSubset
<1>2. CASE s = {}
  BY <1>1, <1>2, SumTurns
<1>3. CASE s # {}
  <2>1. First(s) \in s /\ Rest(s) \in SUBSET s /\ Rest(s) # s
    BY <1>3, RestSmaller
  <2>2. SumOf(f, Rest(s)) = SumOf(g, Rest(s))
    BY <1>1, <2>1
  <2>3. f[First(s)] = g[First(s)]
    BY <2>1
  <2>4. /\ SumOf(f, s) = f[First(s)] + SumOf(f, Rest(s))
        /\ SumOf(g, s) = g[First(s)] + SumOf(g, Rest(s))
    BY <1>1, <1>3, SumTurns
  <2> QED BY <2>2, <2>3, <2>4
<1> QED BY <1>2, <1>3

LEMMA SumType ==
  ASSUME NEW f, NEW S, IsFiniteSet(S), \A x \in S : f[x] \in Int
  PROVE  SumOf(f, S) \in Int
<1> DEFINE Bad == {s \in SUBSET S : SumOf(f, s) \notin Int}
<1> SUFFICES ASSUME Bad # {} PROVE FALSE
  OBVIOUS
<1>1. PICK s \in Bad : IsFiniteSet(s) /\ \A r \in SUBSET s : r # s => r \notin Bad
  <2>1. Bad \in SUBSET SUBSET S
    OBVIOUS
  <2> HIDE DEF Bad
  <2> QED BY <2>1, SmallestSubset
<1>2. CASE s = {}
  <2>1. SumOf(f, s) = 0
    BY <1>1, <1>2, SumTurns
  <2> QED BY <2>1
<1>3. CASE s # {}
  <2>1. First(s) \in s /\ Rest(s) \in SUBSET s /\ Rest(s) # s
    BY <1>3, RestSmaller
  <2>2. SumOf(f, Rest(s)) \in Int /\ f[First(s)] \in Int
    BY <1>1, <2>1
  <2>3. SumOf(f, s) = f[First(s)] + SumOf(f, Rest(s))
    BY <1>1, <1>3, SumTurns
  <2> QED BY <2>2, <2>3
<1> QED BY <1>2, <1>3

\* Whichever element is taken off, the rest has the rest of the sum.
LEMMA SumWithout ==
  ASSUME NEW f, NEW S, IsFiniteSet(S), \A x \in S : f[x] \in Int, NEW y \in S
  PROVE  SumOf(f, S) = f[y] + SumOf(f, S \ {y})
<1> DEFINE Bad == {s \in SUBSET S : \E x \in s : SumOf(f, s) # f[x] + SumOf(f, s \ {x})}
<1> SUFFICES ASSUME Bad # {} PROVE FALSE
  OBVIOUS
<1>1. PICK s \in Bad : IsFiniteSet(s) /\ \A r \in SUBSET s : r # s => r \notin Bad
  <2>1. Bad \in SUBSET SUBSET S
    OBVIOUS
  <2> HIDE DEF Bad
  <2> QED BY <2>1, SmallestSubset
<1>2. PICK x \in s : SumOf(f, s) # f[x] + SumOf(f, s \ {x})
  OBVIOUS
<1>3. s \in SUBSET S /\ s # {}
  OBVIOUS
<1>4. ASSUME NEW r \in SUBSET s, r # s, NEW z \in r
      PROVE  SumOf(f, r) = f[z] + SumOf(f, r \ {z})
  BY <1>1, <1>3, <1>4
<1> HIDE DEF Bad
<1> DEFINE c == First(s)
           b == s \ {c, x}
<1>5. c \in s /\ SumOf(f, s) = f[c] + SumOf(f, s \ {c})
  BY <1>1, <1>3, SumTurns, RestSmaller DEF Rest
<1> HIDE DEF c
<1>6. c # x
  BY <1>2, <1>5
<1>7. SumOf(f, s \ {c}) = f[x] + SumOf(f, b)
  <2>1. (s \ {c}) \ {x} = b /\ s \ {c} \in SUBSET s /\ s \ {c} # s /\ x \in s \ {c}
    BY <1>5, <1>6
  <2> QED BY <2>1, <1>4
<1>8. SumOf(f, s \ {x}) = f[c] + SumOf(f, b)
  <2>1. (s \ {x}) \ {c} = b /\ s \ {x} \in SUBSET s /\ s \ {x} # s /\ c \in s \ {x}
    BY <1>5, <1>6
  <2> QED BY <2>1, <1>4
<1>9. f[c] \in Int /\ f[x] \in Int
  BY <1>3, <1>5
<1>10. SumOf(f, b) \in Int
  <2>1. IsFiniteSet(b) /\ b \subseteq S
    BY <1>1, <1>3, FS_Subset
  <2> QED BY <2>1, SumType
<1> HIDE DEF b
<1> QED BY <1>2, <1>5, <1>7, <1>8, <1>9, <1>10
-----------------------------------------------------------------------------
(* Utilization.  The second pass plays the answers of the first again, with   *)
(* a table that still holds what the first pass left in it.  What it relies   *)
(* on is a property of the answers alone: the request that gave a block its   *)
(* present place, and where the answers put two such blocks.                  *)

Alive(t, k) == LiveAfter(SubSeq(t, 1, k))

\* Request q placed its block, and none of the next, up to request k, was for it.
Standing(t, q, k) ==
  /\ q \in 1 .. k /\ t[q].type # "FREE"
  /\ \A j \in q + 1 .. k : t[j].index # t[q].index

Spot(t, ans, q) == Bytes(ans[q + 1].p, t[q].size)

\* After request k the answers have put all blocks in the heap, and apart.
Placed(t, ans, k) ==
  \A q \in 1 .. k : Standing(t, q, k) =>
    /\ Spot(t, ans, q) \subseteq HeapLo .. ans[k + 1].brk - 1
    /\ \A r \in 1 .. k : Standing(t, r, k) /\ r # q =>
         Spot(t, ans, q) \cap Spot(t, ans, r) = {}

\* For the blocks that are live after request k the table holds the answers.
Agrees(t, ans, at, size, k) ==
  \A id \in Alive(t, k) : \E q \in 1 .. k :
    /\ Standing(t, q, k) /\ t[q].index = id
    /\ at[id] = ans[q + 1].p /\ size[id] = t[q].size

\* A request leaves the table right for the blocks of others.
TableAfter(t, ans, at, size, at2, size2, k) ==
  /\ \A id \in Ids : id # t[k].index => at2[id] = at[id] /\ size2[id] = size[id]
  /\ t[k].type # "FREE" => at2[t[k].index] = ans[k + 1].p /\ size2[t[k].index] = t[k].size

LEMMA AliveStep ==
  ASSUME NEW t \in Seq(Request), NEW k \in 1 .. Len(t)
  PROVE  Alive(t, k) = IF t[k].type = "FREE" THEN Alive(t, k - 1) \ {t[k].index}
                       ELSE Alive(t, k - 1) \cup {t[k].index}
BY LiveStep DEF Alive

LEMMA AliveNone ==
  ASSUME NEW t
  PROVE  Alive(t, 0) = {}
<1>1. SubSeq(t, 1, 0) = <<>>
  OBVIOUS
<1>2. DOMAIN <<>> = {}
  OBVIOUS
<1> QED BY <1>1, <1>2 DEF Alive, LiveAfter

LEMMA AliveFinite ==
  ASSUME NEW t \in Seq(Request), NEW k \in 0 .. Len(t)
  PROVE  IsFiniteSet(Alive(t, k))
<1> DEFINE Bad == {n \in 0 .. Len(t) : ~ IsFiniteSet(Alive(t, n))}
<1> SUFFICES ASSUME Bad # {} PROVE FALSE
  OBVIOUS
<1>1. Len(t) \in Nat
  BY LenProperties
<1>2. PICK m \in Bad : \A n \in Bad : m <= n
  <2>1. Bad \in SUBSET Nat
    BY <1>1
  <2> HIDE DEF Bad
  <2> QED BY <2>1, LeastNat
<1>3. m \in 0 .. Len(t) /\ ~ IsFiniteSet(Alive(t, m))
  OBVIOUS
<1>4. m # 0
  BY <1>3, AliveNone, FS_EmptySet
<1>5. m \in 1 .. Len(t) /\ m - 1 \in 0 .. Len(t) /\ m - 1 < m
  BY <1>1, <1>3, <1>4
<1>6. IsFiniteSet(Alive(t, m - 1))
  <2>1. m - 1 \notin Bad
    <3> HIDE DEF Bad
    <3> QED BY <1>1, <1>2, <1>3, <1>5
  <2> QED BY <1>5, <2>1
<1>7. /\ IsFiniteSet(Alive(t, m - 1) \cup {t[m].index})
      /\ IsFiniteSet(Alive(t, m - 1) \ {t[m].index})
  BY <1>6, FS_AddElement, FS_RemoveElement
<1> QED BY <1>3, <1>5, <1>7, AliveStep

LEMMA StandingStep ==
  ASSUME NEW t, NEW k \in Nat \ {0}, NEW q \in 1 .. k
  PROVE  Standing(t, q, k) <=> \/ q = k /\ t[k].type # "FREE"
                               \/ /\ q \in 1 .. k - 1 /\ Standing(t, q, k - 1)
                                  /\ t[q].index # t[k].index
<1>1. CASE q = k
  BY <1>1 DEF Standing
<1>2. CASE q # k
  <2>1. q \in 1 .. k - 1 /\ k \in q + 1 .. k
    BY <1>2
  <2>2. \A j \in q + 1 .. k : j = k \/ j \in q + 1 .. k - 1
    BY <2>1
  <2>3. \A j \in q + 1 .. k - 1 : j \in q + 1 .. k
    BY <2>1
  <2> QED BY <1>2, <2>1, <2>2, <2>3 DEF Standing
<1> QED BY <1>1, <1>2

LEMMA AgreesNone ==
  ASSUME NEW t, NEW ans, NEW at, NEW size
  PROVE  Agrees(t, ans, at, size, 0)
BY AliveNone DEF Agrees

LEMMA AgreesStep ==
  ASSUME NEW t \in Seq(Request), NEW k \in 1 .. Len(t), NEW ans, NEW ans2,
         NEW at, NEW size, NEW at2, NEW size2,
         Agrees(t, ans, at, size, k - 1),
         \A q \in 1 .. k : ans2[q] = ans[q],
         TableAfter(t, ans2, at, size, at2, size2, k)
  PROVE  Agrees(t, ans2, at2, size2, k)
<1>1. k \in Nat \ {0}
  BY LenProperties
<1> SUFFICES ASSUME NEW id \in Alive(t, k)
             PROVE  \E q \in 1 .. k :
                      /\ Standing(t, q, k) /\ t[q].index = id
                      /\ at2[id] = ans2[q + 1].p /\ size2[id] = t[q].size
  BY DEF Agrees
<1>2. id \in Ids
  BY DEF Alive, LiveAfter
<1>3. CASE id = t[k].index
  <2>1. t[k].type # "FREE"
    BY <1>3, AliveStep
  <2>2. k \in 1 .. k /\ Standing(t, k, k)
    BY <1>1, <2>1, StandingStep
  <2> QED BY <1>3, <2>1, <2>2 DEF TableAfter
<1>4. CASE id # t[k].index
  <2>1. id \in Alive(t, k - 1)
    BY <1>4, AliveStep
  <2>2. PICK q \in 1 .. k - 1 :
          /\ Standing(t, q, k - 1) /\ t[q].index = id
          /\ at[id] = ans[q + 1].p /\ size[id] = t[q].size
    BY <2>1 DEF Agrees
  <2>3. q \in 1 .. k /\ q + 1 \in 1 .. k
    BY <1>1
  <2>4. Standing(t, q, k)
    BY <1>1, <1>4, <2>2, <2>3, StandingStep
  <2>5. ans2[q + 1] = ans[q + 1]
    BY <2>3
  <2>6. at2[id] = at[id] /\ size2[id] = size[id]
    BY <1>2, <1>4 DEF TableAfter
  <2> QED BY <2>2, <2>3, <2>4, <2>5, <2>6
<1> QED BY <1>3, <1>4

\* A block that a request has placed and that none was for since is live.
LEMMA StandingAlive ==
  ASSUME NEW t \in Seq(Request), NEW k \in 0 .. Len(t), NEW q \in 1 .. k, Standing(t, q, k)
  PROVE  t[q].index \in Alive(t, k)
<1> DEFINE s == SubSeq(t, 1, k)
<1>1. k \in Nat /\ Len(t) \in Nat /\ q \in 1 .. Len(t) /\ \A j \in 1 .. k : j \in 1 .. Len(t)
  BY LenProperties
<1>2. DOMAIN s = 1 .. k /\ Len(s) = k /\ \A j \in 1 .. k : s[j] = t[j]
  BY <1>1, SubSeqProperties
<1> HIDE DEF s
<1>3. t[q].index \in Ids
  <2>1. t[q] \in Request
    BY <1>1, ElementOfSeq
  <2> QED BY <2>1 DEF Request
<1>4. \A j \in q + 1 .. k : j \in 1 .. k /\ s[j].index # t[q].index
  <2>1. \A j \in q + 1 .. k : j \in 1 .. k
    BY <1>1
  <2> QED BY <2>1, <1>2 DEF Standing
<1>5. s[q].index = t[q].index /\ s[q].type # "FREE"
  BY <1>2 DEF Standing
<1>6. t[q].index \in LiveAfter(s)
  BY <1>2, <1>3, <1>4, <1>5 DEF LiveAfter
<1> QED BY <1>6 DEF Alive, s

\* One block has one request that placed it.
LEMMA StandingOnce ==
  ASSUME NEW t, NEW k \in Nat, NEW q \in 1 .. k, NEW r \in 1 .. k,
         Standing(t, q, k), Standing(t, r, k), t[q].index = t[r].index
  PROVE  q = r
<1>1. q < r => r \in q + 1 .. k
  OBVIOUS
<1>2. r < q => q \in r + 1 .. k
  OBVIOUS
<1> QED BY <1>1, <1>2 DEF Standing

\* The payload that the answer puts in the heap, away from those of the others.
WellPut(t, ans, at, size, k) ==
  t[k].type # "FREE" =>
    /\ Spot(t, ans, k) \subseteq HeapLo .. ans[k + 1].brk - 1
    /\ \A id \in Alive(t, k - 1) \ {t[k].index} :
         Spot(t, ans, k) \cap Bytes(at[id], size[id]) = {}

LEMMA PlacedStep ==
  ASSUME NEW t \in Seq(Request), NEW k \in 1 .. Len(t), NEW ans, NEW ans2,
         NEW at, NEW size,
         Agrees(t, ans, at, size, k - 1), Placed(t, ans, k - 1),
         \A q \in 1 .. k : ans2[q] = ans[q],
         ans2[k].brk \in Int, ans2[k + 1].brk \in Int, ans2[k].brk <= ans2[k + 1].brk,
         HeapLo \in Int, WellPut(t, ans2, at, size, k)
  PROVE  Placed(t, ans2, k)
<1>1. k \in Nat \ {0} /\ k - 1 \in 0 .. Len(t)
  BY LenProperties
<1>2. ASSUME NEW q \in 1 .. k - 1
      PROVE  q \in 1 .. k /\ Spot(t, ans2, q) = Spot(t, ans, q)
  <2>1. q + 1 \in 1 .. k /\ q \in 1 .. k
    BY <1>1
  <2> QED BY <2>1 DEF Spot
<1>3. ASSUME NEW q \in 1 .. k - 1, Standing(t, q, k - 1)
      PROVE  Spot(t, ans, q) \subseteq HeapLo .. ans2[k + 1].brk - 1
  <2>1. Spot(t, ans, q) \subseteq HeapLo .. ans[(k - 1) + 1].brk - 1
    BY <1>3 DEF Placed
  <2>2. ans[(k - 1) + 1] = ans2[k]
    <3>1. (k - 1) + 1 = k /\ k \in 1 .. k
      BY <1>1
    <3> QED BY <3>1
  <2>3. Spot(t, ans, q) \subseteq HeapLo .. ans2[k].brk - 1
    BY <2>1, <2>2
  <2>4. HeapLo .. ans2[k].brk - 1 \subseteq HeapLo .. ans2[k + 1].brk - 1
    OBVIOUS
  <2> QED BY <2>3, <2>4
<1>4. ASSUME NEW q \in 1 .. k - 1, Standing(t, q, k - 1), t[q].index # t[k].index,
             t[k].type # "FREE"
      PROVE  Spot(t, ans2, k) \cap Spot(t, ans, q) = {}
  <2> DEFINE id == t[q].index
  <2>1. id \in Alive(t, k - 1)
    BY <1>1, <1>4, StandingAlive
  <2>2. PICK r \in 1 .. k - 1 :
          /\ Standing(t, r, k - 1) /\ t[r].index = id
          /\ at[id] = ans[r + 1].p /\ size[id] = t[r].size
    BY <2>1 DEF Agrees
  <2>3. r = q
    <3>1. k - 1 \in Nat
      BY <1>1
    <3> QED BY <3>1, <1>4, <2>2, StandingOnce
  <2>4. Bytes(at[id], size[id]) = Spot(t, ans, q)
    BY <2>2, <2>3 DEF Spot
  <2>5. id \in Alive(t, k - 1) \ {t[k].index}
    BY <1>4, <2>1
  <2> QED BY <1>4, <2>4, <2>5 DEF WellPut
<1> SUFFICES ASSUME NEW q \in 1 .. k, Standing(t, q, k)
             PROVE  /\ Spot(t, ans2, q) \subseteq HeapLo .. ans2[k + 1].brk - 1
                    /\ \A r \in 1 .. k : Standing(t, r, k) /\ r # q =>
                         Spot(t, ans2, q) \cap Spot(t, ans2, r) = {}
  BY DEF Placed
<1>5. \A r \in 1 .. k : Standing(t, r, k) =>
         \/ r = k /\ t[k].type # "FREE"
         \/ r \in 1 .. k - 1 /\ Standing(t, r, k - 1) /\ t[r].index # t[k].index
  BY <1>1, StandingStep
<1>6. Spot(t, ans2, q) \subseteq HeapLo .. ans2[k + 1].brk - 1
  BY <1>2, <1>3, <1>5 DEF WellPut
<1>7. ASSUME NEW r \in 1 .. k, Standing(t, r, k), r # q
      PROVE  Spot(t, ans2, q) \cap Spot(t, ans2, r) = {}
  <2>1. CASE q = k /\ r # k
    BY <1>2, <1>4, <1>5, <1>7, <2>1
  <2>2. CASE q # k /\ r = k
    BY <1>2, <1>4, <1>5, <1>7, <2>2
  <2>3. CASE q # k /\ r # k
    <3>1. /\ q \in 1 .. k - 1 /\ Standing(t, q, k - 1)
          /\ r \in 1 .. k - 1 /\ Standing(t, r, k - 1)
      BY <1>5, <1>7, <2>3
    <3>2. Spot(t, ans, q) \cap Spot(t, ans, r) = {}
      BY <1>7, <3>1 DEF Placed
    <3> QED BY <3>1, <3>2, <1>2
  <2> QED BY <1>7, <2>1, <2>2, <2>3
<1> QED BY <1>6, <1>7

\* Payloads that are apart and between two bounds are together no longer than
\* what is between the bounds.
Covered(at, size, S) == UNION {Bytes(at[x], size[x]) : x \in S}

LEMMA SumIsCover ==
  ASSUME NEW at, NEW size, NEW S, IsFiniteSet(S),
         \A x \in S : at[x] \in Int /\ size[x] \in Nat,
         \A x, y \in S : x # y => Bytes(at[x], size[x]) \cap Bytes(at[y], size[y]) = {}
  PROVE  /\ IsFiniteSet(Covered(at, size, S))
         /\ Cardinality(Covered(at, size, S)) = SumOf(size, S)
<1> DEFINE Good(s) == /\ IsFiniteSet(Covered(at, size, s))
                      /\ Cardinality(Covered(at, size, s)) = SumOf(size, s)
           Bad == {s \in SUBSET S : ~ Good(s)}
<1> SUFFICES ASSUME Bad # {} PROVE FALSE
  OBVIOUS
<1>1. PICK s \in Bad : IsFiniteSet(s) /\ \A r \in SUBSET s : r # s => r \notin Bad
  <2>1. Bad \in SUBSET SUBSET S
    OBVIOUS
  <2> HIDE DEF Bad
  <2> QED BY <2>1, SmallestSubset
<1>2. CASE s = {}
  <2>1. Covered(at, size, s) = {}
    BY <1>2 DEF Covered
  <2>2. SumOf(size, s) = 0
    BY <1>1, <1>2, SumTurns
  <2> QED BY <2>1, <2>2, FS_EmptySet
<1>3. CASE s # {}
  <2> DEFINE x == First(s)
             r == Rest(s)
             A == Bytes(at[x], size[x])
             B == Covered(at, size, r)
  <2>1. x \in s /\ r \in SUBSET s /\ r # s /\ r = s \ {x}
    BY <1>3, RestSmaller DEF Rest
  <2>2. SumOf(size, s) = size[x] + SumOf(size, r)
    BY <1>1, <1>3, SumTurns
  <2>3. Good(r)
    BY <1>1, <2>1
  <2>4. x \in S /\ at[x] \in Int /\ size[x] \in Nat /\ \A y \in r : y \in S /\ y # x
    BY <2>1
  <2> HIDE DEF x, r
  <2>5. Covered(at, size, s) = A \cup B
    BY <2>1 DEF Covered
  <2>6. A \cap B = {}
    BY <2>4 DEF Covered
  <2>7. IsFiniteSet(A) /\ Cardinality(A) = size[x]
    <3> DEFINE a == at[x]
               n == size[x]
    <3>1. a \in Int /\ a + n - 1 \in Int /\ n \in Nat
      BY <2>4
    <3> HIDE DEF a, n
    <3>2. /\ IsFiniteSet(a .. a + n - 1)
          /\ Cardinality(a .. a + n - 1) =
               IF a > a + n - 1 THEN 0 ELSE (a + n - 1) - a + 1
      BY <3>1, FS_Interval
    <3>3. Cardinality(a .. a + n - 1) = n
      BY <3>1, <3>2
    <3> QED BY <3>2, <3>3 DEF Bytes, a, n
  <2>8. /\ IsFiniteSet(A \cup B)
        /\ Cardinality(A \cup B) = Cardinality(A) + Cardinality(B) - Cardinality(A \cap B)
    <3>1. IsFiniteSet(B)
      BY <2>3
    <3> HIDE DEF A, B
    <3> QED BY <3>1, <2>7, FS_Union
  <2>9. Cardinality(B) = SumOf(size, r) /\ Cardinality(B) \in Nat
    BY <2>3, FS_CardinalityType
  <2>10. Cardinality(A \cap B) = 0
    BY <2>6, FS_EmptySet
  <2>11. Cardinality(A \cup B) = SumOf(size, s)
    <3> HIDE DEF A, B
    <3> QED BY <2>2, <2>4, <2>7, <2>8, <2>9, <2>10
  <2> QED BY <2>5, <2>8, <2>11
<1> QED BY <1>2, <1>3

LEMMA SumBounded ==
  ASSUME NEW t \in Seq(Request), NEW k \in 0 .. Len(t), NEW ans, NEW at, NEW size,
         at \in [Ids -> Nat], size \in [Ids -> Nat],
         Agrees(t, ans, at, size, k), Placed(t, ans, k),
         HeapLo \in Int, ans[k + 1].brk \in Int, HeapLo <= ans[k + 1].brk
  PROVE  SumOf(size, Alive(t, k)) <= ans[k + 1].brk - HeapLo
<1> DEFINE S == Alive(t, k)
           hi == ans[k + 1].brk
           A == HeapLo .. hi - 1
<1>1. IsFiniteSet(S) /\ S \subseteq Ids
  BY AliveFinite DEF Alive, LiveAfter
<1>2. \A x \in S : at[x] \in Int /\ size[x] \in Nat
  BY <1>1
<1>3. \A x \in S : \E q \in 1 .. k :
        Standing(t, q, k) /\ t[q].index = x /\ Bytes(at[x], size[x]) = Spot(t, ans, q)
  BY DEF Agrees, Spot
<1>4. ASSUME NEW x \in S, NEW y \in S, x # y
      PROVE  Bytes(at[x], size[x]) \cap Bytes(at[y], size[y]) = {}
  <2>1. PICK q \in 1 .. k :
          Standing(t, q, k) /\ t[q].index = x /\ Bytes(at[x], size[x]) = Spot(t, ans, q)
    BY <1>3
  <2>2. PICK r \in 1 .. k :
          Standing(t, r, k) /\ t[r].index = y /\ Bytes(at[y], size[y]) = Spot(t, ans, r)
    BY <1>3
  <2>3. q # r
    BY <1>4, <2>1, <2>2
  <2> QED BY <2>1, <2>2, <2>3 DEF Placed
<1>5. Covered(at, size, S) \subseteq A
  <2> SUFFICES ASSUME NEW x \in S PROVE Bytes(at[x], size[x]) \subseteq A
    BY DEF Covered
  <2>1. PICK q \in 1 .. k :
          Standing(t, q, k) /\ Bytes(at[x], size[x]) = Spot(t, ans, q)
    BY <1>3
  <2> QED BY <2>1 DEF Placed
<1>6. Cardinality(Covered(at, size, S)) = SumOf(size, S)
  <2> HIDE DEF S
  <2> QED BY <1>1, <1>2, <1>4, SumIsCover
<1>7. IsFiniteSet(A) /\ Cardinality(A) = hi - HeapLo
  <2>1. hi \in Int /\ hi - 1 \in Int /\ HeapLo <= hi
    OBVIOUS
  <2> HIDE DEF hi
  <2>2. /\ IsFiniteSet(HeapLo .. hi - 1)
        /\ Cardinality(HeapLo .. hi - 1) =
             IF HeapLo > hi - 1 THEN 0 ELSE (hi - 1) - HeapLo + 1
    BY <2>1, FS_Interval
  <2>3. Cardinality(HeapLo .. hi - 1) = hi - HeapLo
    <3>1. (IF HeapLo > hi - 1 THEN 0 ELSE (hi - 1) - HeapLo + 1) = hi - HeapLo
      BY <2>1
    <3> QED BY <2>2, <3>1
  <2> QED BY <2>2, <2>3
<1>8. Cardinality(Covered(at, size, S)) <= Cardinality(A)
  <2> HIDE DEF A, S
  <2> QED BY <1>5, <1>7, FS_Subset
<1> QED BY <1>6, <1>7, <1>8

\* What the two passes rely on.
Answered ==
  pass \in {"valid", "util"} =>
    /\ brk = answers[i].brk
    /\ \A k \in 1 .. Len(answers) - 1 : answers[k].brk <= answers[k + 1].brk
    /\ broke = {} => \A k \in 0 .. Len(answers) - 1 : Placed(trace, answers, k)
    /\ Agrees(trace, answers, blocks, block_sizes, i - 1)

Counted ==
  pass = "util" =>
    /\ total_size = SumOf(block_sizes, Live)
    /\ total_size <= max_total_size
    /\ broke = {} => max_total_size <= brk - HeapLo

LEMMA PlacedNone ==
  ASSUME NEW t, NEW ans
  PROVE  Placed(t, ans, 0)
BY DEF Placed

\* A step of the checking pass that is content with an answer.
LEMMA AnsweredStep ==
  ASSUME Where, Table, Answered, pass = "valid", pass' = pass, i <= Len(trace),
         trace' = trace, i' = i + 1,
         brk' \in Brks, brk <= brk', NEW p \in Pointers,
         answers' = Append(answers, [p |-> p, brk |-> brk']),
         TableAfter(trace, answers', blocks, block_sizes, blocks', block_sizes', i),
         broke' = {} => broke = {} /\ WellPut(trace, answers', blocks, block_sizes, i)
  PROVE  Answered'
<1>1. trace \in Seq(Request) /\ Len(trace) \in Nat /\ i \in 1 .. Len(trace) /\ Len(answers) = i
      /\ i \in Nat
  BY TraceType DEF Where
<1>2. /\ Len(answers') = i + 1 /\ \A q \in 1 .. i : answers'[q] = answers[q]
      /\ answers'[i + 1] = [p |-> p, brk |-> brk']
  BY <1>1, AnswersAppended
<1>3. i \in 1 .. i /\ answers'[i].brk = brk /\ answers'[i + 1].brk = brk'
  <2>1. i \in 1 .. i
    BY <1>1
  <2> QED BY <2>1, <1>2 DEF Answered
<1>4. HeapLo \in Int /\ brk \in Int /\ brk' \in Int
  BY MDriverAssumption DEF Table
<1>5. brk' = answers'[i'].brk
  BY <1>3
<1>6. \A k \in 1 .. Len(answers') - 1 : answers'[k].brk <= answers'[k + 1].brk
  <2> SUFFICES ASSUME NEW k \in 1 .. i PROVE answers'[k].brk <= answers'[k + 1].brk
    BY <1>1, <1>2
  <2>1. CASE k = i
    BY <1>3, <2>1
  <2>2. CASE k # i
    <3>1. k \in 1 .. Len(answers) - 1 /\ k \in 1 .. i /\ k + 1 \in 1 .. i
      BY <1>1, <2>2
    <3>2. answers[k].brk <= answers[k + 1].brk
      BY <3>1 DEF Answered
    <3> QED BY <3>1, <3>2, <1>2
  <2> QED BY <2>1, <2>2
<1>7. Agrees(trace, answers', blocks', block_sizes', i)
  <2>1. Agrees(trace, answers, blocks, block_sizes, i - 1)
    BY DEF Answered
  <2> QED BY <2>1, <1>1, <1>2, AgreesStep
<1>8. ASSUME broke' = {}, NEW k \in 0 .. Len(answers') - 1
      PROVE  Placed(trace, answers', k)
  <2>1. \A n \in 0 .. i - 1 : Placed(trace, answers, n)
    BY <1>1, <1>8 DEF Answered
  <2>2. k \in 0 .. i
    BY <1>1, <1>2
  <2>3. CASE k = i
    <3>1. /\ Agrees(trace, answers, blocks, block_sizes, i - 1)
          /\ WellPut(trace, answers', blocks, block_sizes, i)
      BY <1>8 DEF Answered
    <3>2. Placed(trace, answers, i - 1)
      BY <2>1, <1>1
    <3>3. /\ answers'[i].brk \in Int /\ answers'[i + 1].brk \in Int
          /\ answers'[i].brk <= answers'[i + 1].brk
      BY <1>3, <1>4
    <3>4. Placed(trace, answers', i)
      BY <3>1, <3>2, <3>3, <1>1, <1>2, <1>4, PlacedStep
    <3> QED BY <2>3, <3>4
  <2>4. CASE k # i
    <3>1. k \in 0 .. i - 1 /\ k + 1 \in 1 .. i /\ \A q \in 1 .. k : q + 1 \in 1 .. i
      BY <1>1, <2>2, <2>4
    <3>2. \A q \in 1 .. k : Spot(trace, answers', q) = Spot(trace, answers, q)
      BY <3>1, <1>2 DEF Spot
    <3>3. answers'[k + 1] = answers[k + 1]
      BY <3>1, <1>2
    <3>4. Placed(trace, answers, k)
      BY <2>1, <3>1
    <3> QED BY <3>2, <3>3, <3>4 DEF Placed
  <2> QED BY <2>3, <2>4
<1>9. i' - 1 = i
  BY <1>1
<1> QED BY <1>5, <1>6, <1>7, <1>8, <1>9 DEF Answered

\* An answer that breaks no promise is well put.
LEMMA WellPutThere ==
  ASSUME RInv, Where, i <= Len(trace), NEW p, NEW b, NEW ans,
         ans[i + 1] = [p |-> p, brk |-> b],
         ~ Misplaced(p, Op.size, b, Live \ {Op.index})
  PROVE  WellPut(trace, ans, blocks, block_sizes, i)
<1>1. Spot(trace, ans, i) = Bytes(p, Op.size)
  BY DEF Spot, Op
<1>2. Alive(trace, i - 1) = Live
  BY DEF Alive, Live
<1> QED BY <1>1, <1>2 DEF WellPut, Misplaced, Payload, Op

LEMMA RememberedAnswer ==
  ASSUME RInv, TableType, Where, Table, Answered, pass = "valid", i <= Len(trace),
         brk' \in Brks, brk <= brk', NEW p \in Pointers, NEW m,
         Remember(Extent(p, Op.size), m),
         broke' = {} => broke = {} /\ ~ Misplaced(p, Op.size, brk', Live \ {Op.index})
  PROVE  Answered'
<1>1. /\ i' = i + 1 /\ trace' = trace /\ pass' = pass
      /\ blocks' = [blocks EXCEPT ![Op.index] = p]
      /\ block_sizes' = [block_sizes EXCEPT ![Op.index] = Op.size]
      /\ answers' = Append(answers, [p |-> p, brk |-> brk'])
  BY DEF Remember, Extent
<1>2. Len(answers) = i
  BY DEF Where
<1>3. answers'[i + 1] = [p |-> p, brk |-> brk']
  BY <1>1, <1>2, AnswersAppended
<1>4. Op.index \in Ids
  BY OpType DEF RInv, Request
<1>5. TableAfter(trace, answers', blocks, block_sizes, blocks', block_sizes', i)
  <2>1. /\ \A id \in Ids : id # Op.index => /\ blocks'[id] = blocks[id]
                                            /\ block_sizes'[id] = block_sizes[id]
        /\ blocks'[Op.index] = p /\ block_sizes'[Op.index] = Op.size
    BY <1>1, <1>4 DEF Table
  <2>2. answers'[i + 1].p = p
    BY <1>3
  <2> QED BY <2>1, <2>2 DEF TableAfter, Op
<1>6. broke' = {} => broke = {} /\ WellPut(trace, answers', blocks, block_sizes, i)
  BY <1>3, WellPutThere
<1> QED BY <1>1, <1>5, <1>6, AnsweredStep

LEMMA AnsweredUtil ==
  ASSUME Where, Table, Answered, pass = "util", pass' = pass, i <= Len(trace),
         Answer,
         TableAfter(trace, answers, blocks, block_sizes, blocks', block_sizes', i)
  PROVE  Answered'
<1>1. trace \in Seq(Request) /\ Len(trace) \in Nat /\ i \in 1 .. Len(trace) /\ i \in Nat
  BY TraceType DEF Where
<1>2. /\ i' = i + 1 /\ brk' = answers[i + 1].brk
      /\ UNCHANGED <<trace, answers, broke>>
  BY DEF Answer
<1>3. Agrees(trace, answers, blocks', block_sizes', i)
  <2>1. Agrees(trace, answers, blocks, block_sizes, i - 1)
    BY DEF Answered
  <2> QED BY <2>1, <1>1, AgreesStep
<1>4. i' - 1 = i
  BY <1>1, <1>2
<1> QED BY <1>2, <1>3, <1>4 DEF Answered

LEMMA AnsweredNext ==
  ASSUME RInv, TableType, TInv, Answered, [Next]_vars
  PROVE  Answered'
<1>1. Where /\ Table /\ Brks \subseteq Int
  BY MDriverAssumption DEF TInv
<1>2. ASSUME pass' \notin {"valid", "util"} PROVE Answered'
  BY <1>2 DEF Answered
<1>3. ASSUME malloc_error PROVE Answered'
  BY <1>2, <1>3 DEF malloc_error, NextTrace
<1>4. CASE StartValid
  <2>1. /\ i' = 1 /\ answers' = <<[p |-> NULL, brk |-> brk']>>
    BY <1>4 DEF StartValid, TableType
  <2>2. Len(answers') = 1 /\ answers'[1] = [p |-> NULL, brk |-> brk']
    BY <2>1
  <2>3. i' - 1 = 0 /\ (1 .. Len(answers') - 1) = {} /\ (0 .. Len(answers') - 1) = {0}
    BY <2>1, <2>2
  <2> QED BY <2>1, <2>2, <2>3, PlacedNone, AgreesNone DEF Answered
<1>5. CASE InitFails \/ ValidFails
  BY <1>3, <1>5 DEF InitFails, ValidFails
<1>6. CASE ValidAlloc
  <2>1. /\ pass = "valid" /\ i <= Len(trace) /\ Op.type = "ALLOC" /\ brk' \in Brks
        /\ brk <= brk'
    <3>1. brk \in Brks /\ brk' \in {b \in Brks : b >= brk}
      BY <1>6 DEF ValidAlloc, At, RInv, DriverType
    <3> QED BY <1>1, <1>6, <3>1 DEF ValidAlloc, At
  <2>2. PICK p \in Pointers, m \in Left(mem) :
          /\ broke' = broke \cup Breaks("place", Misplaced(p, Op.size, brk', Live))
                            \cup Breaks("data", Clobbered(m, Live))
          /\ Remember(Extent(p, Op.size), m) \/ malloc_error
    BY <1>6 DEF ValidAlloc
  <2>3. Live \ {Op.index} = Live
    BY <2>1, LiveNext DEF RInv
  <2>4. broke' = {} => broke = {} /\ ~ Misplaced(p, Op.size, brk', Live \ {Op.index})
    BY <2>2, <2>3 DEF Breaks
  <2> QED BY <1>1, <1>3, <2>1, <2>2, <2>4, RememberedAnswer
<1>7. CASE ValidRealloc
  <2> DEFINE id == Op.index
             kept == Min({Op.size, block_sizes[id]})
             others == Live \ {id}
  <2>1. /\ pass = "valid" /\ i <= Len(trace) /\ brk' \in Brks
        /\ brk <= brk'
    <3>1. brk \in Brks /\ brk' \in {b \in Brks : b >= brk}
      BY <1>7 DEF ValidRealloc, At, RInv, DriverType
    <3> QED BY <1>1, <1>7, <3>1 DEF ValidRealloc, At
  <2> HIDE DEF kept, others
  <2>2. PICK p \in Pointers : \E m \in Left(Moved(mem, blocks[id], p, kept)) :
          /\ broke' = broke
               \cup Breaks("place", ~ ~ Misplaced(p, Op.size, brk', others))
               \cup Breaks("data", Clobbered(m, others))
               \cup Breaks("copy", /\ ~ Misplaced(p, Op.size, brk', others)
                                   /\ Lost(m, blocks[id], p, kept))
          /\ Remember(Extent(p, Op.size), m) \/ malloc_error
    BY <1>7, Zenon DEF ValidRealloc, kept, others
  <2>3. PICK m \in Left(Moved(mem, blocks[id], p, kept)) :
          /\ broke' = broke
               \cup Breaks("place", ~ ~ Misplaced(p, Op.size, brk', others))
               \cup Breaks("data", Clobbered(m, others))
               \cup Breaks("copy", /\ ~ Misplaced(p, Op.size, brk', others)
                                   /\ Lost(m, blocks[id], p, kept))
          /\ Remember(Extent(p, Op.size), m) \/ malloc_error
    BY <2>2
  <2>4. broke' = {} => broke = {} /\ ~ Misplaced(p, Op.size, brk', Live \ {Op.index})
    BY <2>3 DEF Breaks, others
  <2> QED BY <1>1, <1>3, <2>1, <2>3, <2>4, RememberedAnswer
<1>8. CASE ValidFree
  <2>1. /\ pass = "valid" /\ pass' = pass /\ i <= Len(trace) /\ Op.type = "FREE"
        /\ brk' = brk /\ i' = i + 1 /\ UNCHANGED <<trace, blocks, block_sizes>>
        /\ answers' = Append(answers, [p |-> NULL, brk |-> brk])
        /\ broke \subseteq broke'
    BY <1>8 DEF ValidFree, At, table
  <2>2. brk' \in Brks /\ brk <= brk' /\ NULL \in Pointers
    <3>1. brk \in Brks
      BY <2>1 DEF RInv, DriverType
    <3> QED BY <3>1, <2>1, <1>1, MDriverAssumption
  <2>3. TableAfter(trace, answers', blocks, block_sizes, blocks', block_sizes', i)
    BY <2>1 DEF TableAfter, Op
  <2>4. broke' = {} => broke = {} /\ WellPut(trace, answers', blocks, block_sizes, i)
    BY <2>1 DEF WellPut, Op
  <2>5. answers' = Append(answers, [p |-> NULL, brk |-> brk'])
    BY <2>1
  <2> QED BY <1>1, <2>1, <2>2, <2>3, <2>4, <2>5, AnsweredStep
<1>9. CASE StartUtil
  <2>1. /\ pass = "valid" /\ i' = 1 /\ brk' = answers[1].brk
        /\ UNCHANGED <<trace, answers, blocks, block_sizes, broke>>
    BY <1>9 DEF StartUtil, Reset, table
  <2>2. i' - 1 = 0
    BY <2>1
  <2> QED BY <2>1, <2>2, AgreesNone DEF Answered
<1>10. CASE StartSpeed \/ SpeedAgain
  BY <1>2, <1>10 DEF StartSpeed, SpeedAgain, Reset
<1>11. CASE UtilAlloc \/ UtilRealloc \/ UtilFree
  <2>1. pass = "util" /\ pass' = pass /\ i <= Len(trace) /\ Answer
    BY <1>11 DEF UtilAlloc, UtilRealloc, UtilFree, At, Answer
  <2>2. Op.index \in Ids
    BY <2>1, OpType DEF RInv, Request
  <2>3. TableAfter(trace, answers, blocks, block_sizes, blocks', block_sizes', i)
    <3>1. CASE UtilAlloc \/ UtilRealloc
      BY <2>2, <3>1, <1>1 DEF UtilAlloc, UtilRealloc, Table, TableAfter, Op
    <3>2. CASE UtilFree
      BY <3>2 DEF UtilFree, At, TableAfter, Op, table
    <3> QED BY <1>11, <3>1, <3>2
  <2> QED BY <1>1, <2>1, <2>3, AnsweredUtil
<1>12. CASE SpeedRequest \/ SpeedFree
  BY <1>2, <1>12 DEF SpeedRequest, SpeedFree, Answer, At
<1>13. CASE Fails
  BY <1>2, <1>13 DEF Fails, app_error
<1>14. CASE EndTrace \/ Summary
  BY <1>2, <1>14 DEF EndTrace, NextTrace, Summary
<1>15. CASE UNCHANGED vars
  <2>1. UNCHANGED <<pass, trace, i, blocks, block_sizes, brk, answers, broke>>
    BY <1>15 DEF vars, table, heap
  <2> QED BY <2>1 DEF Answered
<1> QED BY <1>4, <1>5, <1>6, <1>7, <1>8, <1>9, <1>10, <1>11, <1>12, <1>13, <1>14, <1>15
        DEF Next

LEMMA RoomLeft ==
  ASSUME NEW lo \in Int, NEW top \in Int, NEW more \in Int, NEW n \in Int,
         lo <= top, top <= more
  PROVE  0 <= top - lo /\ (n <= top - lo => n <= more - lo)
OBVIOUS

LEMMA CountedNext ==
  ASSUME RInv, TableType, TInv, Answered, Answered', Table', Counted, [Next]_vars
  PROVE  Counted'
<1>1. /\ Where /\ Table /\ HeapLo \in Int /\ Brks \subseteq Int
      /\ \A b \in Brks : HeapLo <= b
  BY MDriverAssumption DEF TInv
<1>2. ASSUME pass' # "util" PROVE Counted'
  BY <1>2 DEF Counted
<1>3. CASE StartUtil
  <2>1. /\ pass = "valid" /\ i = Len(trace) + 1 /\ i' = 1 /\ brk' = answers[1].brk
        /\ total_size' = 0 /\ max_total_size' = 0
    BY <1>3 DEF StartUtil, Reset
  <2>2. Live' = {}
    <3>1. i' - 1 = 0
      BY <2>1
    <3> QED BY <3>1, AliveNone DEF Alive, Live
  <2>3. SumOf(block_sizes', Live') = 0
    BY <2>2, SumTurns, FS_EmptySet
  <2>4. brk' \in Brks
    <3>1. 1 \in 1 .. Len(answers)
      BY <1>1, <2>1, TraceType DEF Where
    <3> QED BY <1>1, <2>1, <3>1, AnswerType
  <2>5. 0 <= brk' - HeapLo
    <3>1. brk' \in Int /\ HeapLo <= brk' /\ HeapLo \in Int /\ brk' <= brk'
      BY <1>1, <2>4
    <3> QED BY <3>1, RoomLeft
  <2> QED BY <2>1, <2>3, <2>5 DEF Counted
<1>4. CASE UtilAlloc \/ UtilRealloc \/ UtilFree
  <2> DEFINE id == Op.index
             others == Live \ {id}
  <2>1. /\ pass = "util" /\ pass' = pass /\ i <= Len(trace) /\ i' = i + 1
        /\ UNCHANGED <<trace, answers, broke>>
    BY <1>4 DEF UtilAlloc, UtilRealloc, UtilFree, At, Answer
  <2>2. /\ trace \in Seq(Request) /\ Len(trace) \in Nat /\ i \in Nat /\ i \in 1 .. Len(trace)
        /\ Len(answers) = Len(trace) + 1
    BY <1>1, <2>1, TraceType DEF Where
  <2>3. /\ id \in Ids /\ Op.size \in Nat /\ (Op.type = "ALLOC" <=> id \notin Live)
        /\ Live' = IF Op.type = "FREE" THEN others ELSE others \cup {id}
    <3>1. i' - 1 = i
      BY <2>1, <2>2
    <3>2. Live' = LiveAfter(SubSeq(trace, 1, i))
      BY <2>1, <3>1 DEF Live
    <3>3. (Live \ {id}) \cup {id} = Live \cup {id}
      OBVIOUS
    <3> QED BY <2>1, <3>2, <3>3, LiveNext DEF RInv
  <2>4. IsFiniteSet(Live) /\ IsFiniteSet(others) /\ Live \subseteq Ids
    <3>1. i - 1 \in 0 .. Len(trace)
      BY <2>2
    <3>2. IsFiniteSet(Alive(trace, i - 1))
      BY <2>2, <3>1, AliveFinite
    <3>3. Alive(trace, i - 1) = Live
      BY DEF Alive, Live
    <3> QED BY <3>2, <3>3, FS_Subset DEF Live, LiveAfter
  <2> HIDE DEF others
  <2>5. others \subseteq Ids /\ id \notin others
    BY <2>4 DEF others
  <2>6. block_sizes \in [Ids -> Nat] /\ block_sizes' \in [Ids -> Nat]
    BY <1>1 DEF Table
  <2>7. SumOf(block_sizes, others) \in Int
    BY <2>4, <2>5, <2>6, SumType
  <2> DEFINE n == SumOf(block_sizes, others)
             old == block_sizes[id]
  <2>8. id \in Live => SumOf(block_sizes, Live) = old + n
    <3>1. \A x \in Live : block_sizes[x] \in Int
      BY <2>4, <2>6
    <3> QED BY <2>4, <3>1, SumWithout DEF others
  <2>9. id \notin Live => SumOf(block_sizes, Live) = n
    <3>1. id \notin Live => others = Live
      BY DEF others
    <3> QED BY <3>1
  <2>10. SumOf(block_sizes', others) = n
    <3>1. \A x \in others : block_sizes'[x] = block_sizes[x]
      BY <1>4, <2>5, <2>6 DEF UtilAlloc, UtilRealloc, UtilFree, table
    <3> QED BY <2>4, <3>1, SumAgrees
  <2>11. SumOf(block_sizes', others \cup {id}) = block_sizes'[id] + n
    <3>1. \A x \in others \cup {id} : block_sizes'[x] \in Int
      BY <2>3, <2>5, <2>6
    <3>2. IsFiniteSet(others \cup {id}) /\ (others \cup {id}) \ {id} = others
      BY <2>4, <2>5, FS_AddElement
    <3>3. SumOf(block_sizes', others \cup {id})
            = block_sizes'[id] + SumOf(block_sizes', (others \cup {id}) \ {id})
      BY <3>1, <3>2, SumWithout
    <3> QED BY <2>10, <3>2, <3>3
  <2>12. total_size = SumOf(block_sizes, Live) /\ total_size <= max_total_size
    BY <2>1 DEF Counted
  <2>13. old \in Nat /\ total_size \in Int /\ max_total_size \in Int
    BY <1>1, <2>3, <2>6 DEF Table
  <2> HIDE DEF n, old
  <2>14. /\ total_size' = SumOf(block_sizes', Live')
         /\ total_size' <= max_total_size'
         /\ max_total_size' = max_total_size \/ max_total_size' = total_size'
    <3>1. ASSUME NEW m \in Int, Counts(m)
          PROVE  /\ total_size' = total_size + m /\ total_size' <= max_total_size'
                 /\ max_total_size' = max_total_size \/ max_total_size' = total_size'
      <4>1. /\ total_size' = total_size + m
            /\ max_total_size' = Max({total_size + m, max_total_size})
        BY <3>1 DEF Counts
      <4>2. total_size + m \in Int
        BY <2>13
      <4>3. max_total_size' = IF total_size + m < max_total_size
                              THEN max_total_size ELSE total_size + m
        BY <4>1, <4>2, <2>13, MaxOfTwo
      <4> QED BY <4>1, <4>2, <4>3, <2>13
    <3>2. CASE UtilAlloc
      <4>1. Op.type = "ALLOC" /\ Counts(Op.size) /\ block_sizes'[id] = Op.size
        BY <2>3, <2>6, <3>2 DEF UtilAlloc, At
      <4>2. Live' = others \cup {id} /\ total_size = n
        BY <2>3, <2>9, <2>12, <4>1
      <4>3. SumOf(block_sizes', Live') = Op.size + n
        BY <2>11, <4>1, <4>2
      <4>4. /\ total_size' = total_size + Op.size /\ total_size' <= max_total_size'
            /\ max_total_size' = max_total_size \/ max_total_size' = total_size'
        BY <2>3, <3>1, <4>1
      <4>5. n \in Int /\ Op.size \in Int
        BY <2>3, <2>7 DEF n
      <4>6. total_size + Op.size = Op.size + n
        BY <4>2, <4>5
      <4> QED BY <4>3, <4>4, <4>6
    <3>3. CASE UtilRealloc
      <4>1. Op.type = "REALLOC" /\ Counts(Op.size - old) /\ block_sizes'[id] = Op.size
        BY <2>3, <2>6, <3>3 DEF UtilRealloc, At, old
      <4>2. Live' = others \cup {id} /\ total_size = old + n
        BY <2>3, <2>8, <2>12, <4>1
      <4>3. SumOf(block_sizes', Live') = Op.size + n
        BY <2>11, <4>1, <4>2
      <4>4. Op.size - old \in Int
        BY <2>3, <2>13
      <4>5. /\ total_size' = total_size + (Op.size - old) /\ total_size' <= max_total_size'
            /\ max_total_size' = max_total_size \/ max_total_size' = total_size'
        BY <3>1, <4>1, <4>4
      <4>6. n \in Int /\ Op.size \in Int /\ old \in Int
        BY <2>3, <2>7, <2>13 DEF n
      <4>7. (old + n) + (Op.size - old) = Op.size + n
        BY <4>6
      <4> QED BY <4>2, <4>3, <4>5, <4>7
    <3>4. CASE UtilFree
      <4>1. Op.type = "FREE" /\ total_size' = total_size - old
            /\ max_total_size' = max_total_size
        BY <3>4 DEF UtilFree, At, old
      <4>2. Live' = others /\ total_size = old + n
        BY <2>3, <2>8, <2>12, <4>1
      <4>3. n \in Int
        BY <2>7 DEF n
      <4>4. total_size' = n
        BY <2>13, <4>1, <4>2, <4>3
      <4>5. total_size' <= max_total_size'
        BY <2>12, <2>13, <4>1, <4>2, <4>3, <4>4
      <4> QED BY <2>10, <4>1, <4>2, <4>4, <4>5
    <3> QED BY <1>4, <3>2, <3>3, <3>4
  <2>15. ASSUME broke' = {}
         PROVE  max_total_size' <= brk' - HeapLo
    <3>1. brk = answers[i].brk /\ brk' = answers[i + 1].brk
          /\ answers[i].brk <= answers[i + 1].brk
      <4>1. i \in 1 .. Len(answers) - 1
        BY <2>2
      <4> QED BY <2>1, <4>1 DEF Answered
    <3>2. answers[i].brk \in Brks /\ answers[i + 1].brk \in Brks
      <4>1. i \in 1 .. Len(answers) /\ i + 1 \in 1 .. Len(answers)
        BY <2>2
      <4> QED BY <1>1, <4>1, AnswerType
    <3>3. brk \in Int /\ brk' \in Int /\ brk <= brk' /\ HeapLo <= brk'
      BY <1>1, <3>1, <3>2
    <3>4. max_total_size <= brk - HeapLo
      BY <2>1, <2>15 DEF Counted
    <3>5. total_size' <= brk' - HeapLo
      <4>1. i \in 0 .. Len(trace) /\ i \in 0 .. Len(answers) - 1 /\ i' - 1 = i
        BY <2>1, <2>2
      <4>2. Agrees(trace, answers, blocks', block_sizes', i)
        BY <2>1, <4>1 DEF Answered
      <4>3. Placed(trace, answers, i)
        BY <2>1, <2>15, <4>1 DEF Answered
      <4>4. blocks' \in [Ids -> Nat]
        <5>1. blocks' \in [Ids -> Pointers] /\ Pointers \subseteq Nat
          BY MDriverAssumption DEF Table
        <5> QED BY <5>1
      <4>5. answers[i + 1].brk \in Int /\ HeapLo <= answers[i + 1].brk
        BY <3>1, <3>3
      <4>6. SumOf(block_sizes', Alive(trace, i)) <= answers[i + 1].brk - HeapLo
        BY <1>1, <2>2, <2>6, <4>1, <4>2, <4>3, <4>4, <4>5, SumBounded
      <4>7. Live' = Alive(trace, i)
        BY <2>1, <4>1 DEF Live, Alive
      <4> QED BY <2>14, <3>1, <4>6, <4>7
    <3>6. total_size' \in Int /\ max_total_size' \in Int
      BY DEF Table
    <3>7. max_total_size' = max_total_size \/ max_total_size' = total_size'
      BY <2>14
    <3>8. CASE max_total_size' = total_size'
      BY <3>5, <3>8
    <3>9. CASE max_total_size' = max_total_size
      <4>1. max_total_size \in Int /\ HeapLo \in Int /\ HeapLo <= brk
        BY <1>1, <2>13, <3>1, <3>2
      <4>2. max_total_size <= brk' - HeapLo
        BY <3>3, <3>4, <4>1, RoomLeft
      <4> QED BY <3>9, <4>2
    <3> QED BY <3>7, <3>8, <3>9
  <2> QED BY <2>1, <2>14, <2>15 DEF Counted
<1>5. CASE UNCHANGED vars
  <2>1. UNCHANGED <<pass, trace, i, block_sizes, total_size, max_total_size, brk, broke>>
    BY <1>5 DEF vars, table, sizes, heap
  <2>2. Live' = Live
    BY <2>1 DEF Live
  <2> QED BY <2>1, <2>2 DEF Counted
<1>6. CASE StartValid \/ InitFails \/ ValidFails \/ EndTrace \/ Summary \/ Fails
  BY <1>2, <1>6 DEF StartValid, InitFails, ValidFails, EndTrace, Summary, Fails, malloc_error,
                    NextTrace, app_error
<1>7. CASE ValidAlloc \/ ValidRealloc \/ ValidFree
  <2>1. pass' # "util"
    BY <1>7, ValidSteps DEF malloc_error, NextTrace
  <2> QED BY <1>2, <2>1
<1>8. CASE StartSpeed \/ SpeedAgain \/ SpeedRequest \/ SpeedFree
  BY <1>2, <1>8 DEF StartSpeed, SpeedAgain, Reset, SpeedRequest, SpeedFree, Answer, At
<1> QED BY <1>3, <1>4, <1>5, <1>6, <1>7, <1>8 DEF Next

\* The utilization of a package that keeps its promises is at most one, in traces
\* and heaps of every size: what eval_mm_util adds up is the sum of the sizes of
\* the live blocks, and those lie apart in the heap (mdriver.c:713-793).
THEOREM UtilizationHolds == Spec => []UtilizationAtMostOne
<1>1. Init => Answered /\ Counted
  BY DEF Init, Answered, Counted
<1>2. RInv /\ TableType /\ TInv /\ Answered /\ [Next]_vars => Answered'
  BY AnsweredNext
<1>3. /\ RInv /\ TableType /\ TInv /\ Answered /\ Counted /\ [Next]_vars
      /\ Answered' /\ TInv'
      => Counted'
  <2>1. TInv' => Table'
    BY DEF TInv
  <2> QED BY <2>1, CountedNext
<1>4. Counted => UtilizationAtMostOne
  <2>1. MapThenSumSet(LAMBDA id : block_sizes[id], Live) = SumOf(block_sizes, Live)
    BY DEF SumOf
  <2> QED BY <2>1 DEF Counted, UtilizationAtMostOne
<1>5. Spec => [](Answered /\ Counted)
  BY TInvariant, <1>1, <1>2, <1>3, PTL DEF Spec
<1> QED BY <1>4, <1>5, PTL
=============================================================================
