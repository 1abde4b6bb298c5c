---------------------------- MODULE FilterProofs ----------------------------
(***************************************************************************)
(* Proofs about the image filter: for images and filters of every size the *)
(* unrolled loop computes what the simple one does, the program is stopped *)
(* from outside in three cases only, the state keeps its types, every file *)
(* that is written is a whole BMP file, and its interior is the filtered   *)
(* interior of the file that was read.                                     *)
(***************************************************************************)
EXTENDS FilterMain, FiniteSetTheorems, WellFoundedInduction, TLAPS

(* The headers of the files *)

\* The bytes of the two headers are bytes.  No more is needed of a file, and no more
\* is said of the files that are written.
HeaderBytes(f) ==
  /\ Len(f) \in Nat
  /\ Len(f) >= 54 => \A i \in 1 .. 54 : f[i] \in Byte

LEMMA Grows ==
  ASSUME NEW m \in Nat, NEW a \in Nat, a > 1
  PROVE  m * a \in Nat /\ m * a >= m
  OBVIOUS

\* A negative int becomes a large unsigned long.
LEMMA ULongsLarge ==
  ASSUME NEW n \in Int, n >= -(65536 * 32768)
  PROVE  n + ULongs \in Nat
<1> DEFINE a == 65536
           b == a * a
           c == b * a
           d == c * a
<1>1. a \in Nat /\ a > 1 /\ a >= 32768
  OBVIOUS
<1> HIDE DEF a
<1>2. b \in Nat /\ b >= a * 32768
  BY <1>1
<1> HIDE DEF b
<1>3. c \in Nat /\ c >= b
  BY <1>1, <1>2, Grows
<1> HIDE DEF c
<1>4. d \in Nat /\ d >= c
  BY <1>1, <1>3, Grows
<1> HIDE DEF d
<1>5. n + d \in Nat
  BY <1>1, <1>2, <1>3, <1>4 DEF a
<1> QED
  BY <1>5 DEF a, b, c, d, ULongs

LEMMA ShortRead ==
  ASSUME NEW f, NEW p \in Nat, f[p + 1] \in Byte, f[p + 2] \in Byte
  PROVE  u_short_int_read(f, p) \in Nat /\ u_short_int_read(f, p) <= 65535
<1>1. \A a, b \in Byte : a * 256 + b \in Nat /\ a * 256 + b <= 65535
  BY SMT DEF Byte
<1> QED
  BY <1>1, SMT DEF u_short_int_read

LEMMA LongRead ==
  ASSUME NEW f, NEW p \in Nat, f[p + 1] \in Byte, f[p + 2] \in Byte,
         f[p + 3] \in Byte, f[p + 4] \in Byte
  PROVE  /\ long_int_read(f, p) \in Int /\ long_int_read(f, p) >= -(65536 * 32768)
         /\ u_long_int_read(f, p) \in Nat
<1>1. /\ u_short_int_read(f, p) \in Nat /\ u_short_int_read(f, p) <= 65535
      /\ u_short_int_read(f, p + 2) \in Nat /\ u_short_int_read(f, p + 2) <= 65535
  <2>1. (p + 2) + 1 = p + 3 /\ (p + 2) + 2 = p + 4 /\ p + 2 \in Nat
    BY SMT
  <2> QED
    BY <2>1, ShortRead, SMT
<1>2. PICK hi \in Nat, lo \in Nat : Halves(f, p) = <<hi, lo>> /\ hi <= 65535 /\ lo <= 65535
  BY <1>1, SMT DEF Halves
<1>3. long_int_read(f, p) \in Int /\ long_int_read(f, p) >= -(65536 * 32768)
  <2>1. long_int_read(f, p) = (IF hi < 32768 THEN hi ELSE hi - 65536) * 65536 + lo
    BY <1>2, SMT DEF long_int_read
  <2> QED
    BY <1>2, <2>1, SMT
<1>4. u_long_int_read(f, p) \in Nat
  <2> DEFINE n == long_int_read(f, p)
  <2>1. u_long_int_read(f, p) = IF n < 0 THEN n + ULongs ELSE n
    BY SMT DEF u_long_int_read
  <2>2. n + ULongs \in Nat
    BY <1>3, ULongsLarge
  <2> HIDE DEF n
  <2>3. n \in Int
    BY <1>3 DEF n
  <2> QED
    BY <2>1, <2>2, <2>3, SMT
<1> QED
  BY <1>3, <1>4

\* What bmp_read gives back of the header of a file it accepts.
LEMMA HeaderRead ==
  ASSUME NEW f, HeaderBytes(f), ~ bmp_read(f).error
  PROVE  LET image == bmp_read(f)
             h2 == bmp_header2_read(f)
         IN  /\ image.width = h2.width /\ image.height = h2.height
             /\ image.shared = (h2.bitsperpixel = 8)
             /\ h2.width \in Nat /\ h2.height \in Int
<1>1. ~ Len(f) < Header1Size + Header2Size
  BY DEF bmp_read, Failed
<1>2. \A i \in 1 .. 54 : f[i] \in Byte
  <2>1. Header1Size + Header2Size = 54
    BY DEF Header1Size, Header2Size
  <2>2. Len(f) >= 54
    BY <1>1, <2>1 DEF HeaderBytes
  <2> QED
    BY <2>2 DEF HeaderBytes
<1>3. u_long_int_read(f, 18) \in Nat /\ long_int_read(f, 22) \in Int
  <2>1. /\ f[18 + 1] \in Byte /\ f[18 + 2] \in Byte /\ f[18 + 3] \in Byte
        /\ f[18 + 4] \in Byte
        /\ f[22 + 1] \in Byte /\ f[22 + 2] \in Byte /\ f[22 + 3] \in Byte
        /\ f[22 + 4] \in Byte
    BY <1>2
  <2> QED
    BY <2>1, LongRead
<1>4. /\ bmp_header2_read(f).width \in Nat /\ bmp_header2_read(f).height \in Int
  <2>1. Header1Size + 4 = 18 /\ Header1Size + 8 = 22
    BY DEF Header1Size
  <2> QED
    BY <1>3, <2>1 DEF bmp_header2_read
<1>5. /\ bmp_read(f).width = bmp_header2_read(f).width
      /\ bmp_read(f).height = bmp_header2_read(f).height
      /\ bmp_read(f).shared = (bmp_header2_read(f).bitsperpixel = 8)
  BY DEF bmp_read, Failed
<1> QED
  BY <1>4, <1>5

-----------------------------------------------------------------------------
(* The header of a file that is written *)

LEMMA Quotients ==
  ASSUME NEW n \in Int
  PROVE  CDiv(n, 65536) \in Int /\ CMod(n, 65536) \in Int /\ AbsVal(n) \in Nat
<1>1. AbsVal(n) \in Nat /\ AbsVal(65536) = 65536
  BY SMT DEF AbsVal
<1>2. AbsVal(n) \div 65536 \in Int
  BY <1>1, SMT
<1>3. CDiv(n, 65536) \in Int
  BY <1>1, <1>2, SMT DEF CDiv
<1> QED
  BY <1>1, <1>3, SMT DEF CMod

LEMMA Appended ==
  ASSUME NEW S, NEW s \in Seq(S), NEW t \in Seq(S)
  PROVE  /\ s \o t \in Seq(S) /\ Len(s \o t) = Len(s) + Len(t)
         /\ \A i \in 1 .. Len(s) : (s \o t)[i] = s[i]
  OBVIOUS

LEMMA ShortWritten ==
  ASSUME NEW n \in Int
  PROVE  u_short_int_write(n) \in Seq(Byte) /\ Len(u_short_int_write(n)) = 2
<1>1. n \div 256 \in Int /\ n % 256 \in Byte
  BY SMT DEF Byte
<1>2. (n \div 256) % 256 \in Byte
  BY <1>1, SMT DEF Byte
<1>3. \A a, b \in Byte : <<a, b>> \in Seq(Byte) /\ Len(<<a, b>>) = 2
  OBVIOUS
<1> QED
  BY <1>1, <1>2, <1>3 DEF u_short_int_write

LEMMA HalvesWritten ==
  ASSUME NEW hi \in Int, NEW lo \in Int
  PROVE  WriteHalves(hi, lo) \in Seq(Byte) /\ Len(WriteHalves(hi, lo)) = 4
<1> DEFINE h == u_short_int_write(hi)
           l == u_short_int_write(lo)
<1>1. h \in Seq(Byte) /\ Len(h) = 2 /\ l \in Seq(Byte) /\ Len(l) = 2
  BY ShortWritten
<1> HIDE DEF h, l
<1>2. /\ l \o h \in Seq(Byte) /\ Len(l \o h) = Len(l) + Len(h)
      /\ h \o l \in Seq(Byte) /\ Len(h \o l) = Len(h) + Len(l)
  BY <1>1, Appended
<1>3. 2 + 2 = 4
  OBVIOUS
<1>4. /\ l \o h \in Seq(Byte) /\ Len(l \o h) = 4
      /\ h \o l \in Seq(Byte) /\ Len(h \o l) = 4
  BY <1>1, <1>2, <1>3
<1>5. WriteHalves(hi, lo) \in {l \o h, h \o l}
  BY DEF WriteHalves, h, l
<1> QED
  BY <1>4, <1>5

LEMMA LongWritten ==
  ASSUME NEW n \in Int
  PROVE  /\ u_long_int_write(n) \in Seq(Byte) /\ Len(u_long_int_write(n)) = 4
         /\ long_int_write(n) \in Seq(Byte) /\ Len(long_int_write(n)) = 4
<1>1. n \div 65536 \in Int /\ n % 65536 \in Int /\ (n \div 65536) % 65536 \in Int
  BY SMT
<1>2. \A m \in Int : (IF m < 0 THEN m + 65536 ELSE m) % 65536 \in Int
  BY SMT
<1>3. CDiv(n, 65536) \in Int /\ CMod(n, 65536) \in Int
  BY Quotients
<1>4. u_long_int_write(n) \in Seq(Byte) /\ Len(u_long_int_write(n)) = 4
  BY <1>1, HalvesWritten DEF u_long_int_write
<1>5. long_int_write(n) \in Seq(Byte) /\ Len(long_int_write(n)) = 4
  <2> DEFINE hi == (IF CDiv(n, 65536) < 0 THEN CDiv(n, 65536) + 65536
                                          ELSE CDiv(n, 65536)) % 65536
             lo == (IF CMod(n, 65536) < 0 THEN CMod(n, 65536) + 65536
                                          ELSE CMod(n, 65536)) % 65536
  <2>1. hi \in Int /\ lo \in Int
    BY <1>2, <1>3
  <2>2. long_int_write(n) = WriteHalves(hi, lo)
    BY DEF long_int_write
  <2> HIDE DEF hi, lo
  <2> QED
    BY <2>1, <2>2, HalvesWritten
<1> QED
  BY <1>4, <1>5

LEMMA Header1Written ==
  ASSUME NEW filetype \in Int, NEW filesize \in Int, NEW bitmapoffset \in Int
  PROVE  LET h1 == bmp_header1_write(filetype, filesize, bitmapoffset)
         IN  h1 \in Seq(Byte) /\ Len(h1) = 14
<1> DEFINE a == u_short_int_write(filetype)
           b == u_long_int_write(filesize)
           z == u_short_int_write(0)
           o == u_long_int_write(bitmapoffset)
<1>1. /\ a \in Seq(Byte) /\ Len(a) = 2 /\ z \in Seq(Byte) /\ Len(z) = 2
      /\ b \in Seq(Byte) /\ Len(b) = 4 /\ o \in Seq(Byte) /\ Len(o) = 4
  BY ShortWritten, LongWritten
<1> HIDE DEF a, b, z, o
<1>2. a \o b \in Seq(Byte) /\ Len(a \o b) = Len(a) + Len(b)
  BY <1>1, Appended
<1>3. a \o b \o z \in Seq(Byte) /\ Len(a \o b \o z) = Len(a \o b) + Len(z)
  BY <1>1, <1>2, Appended
<1>4. a \o b \o z \o z \in Seq(Byte) /\ Len(a \o b \o z \o z) = Len(a \o b \o z) + Len(z)
  BY <1>1, <1>3, Appended
<1>5. /\ a \o b \o z \o z \o o \in Seq(Byte)
      /\ Len(a \o b \o z \o z \o o) = Len(a \o b \o z \o z) + Len(o)
  BY <1>1, <1>4, Appended
<1>6. 2 + 4 + 2 + 2 + 4 = 14
  OBVIOUS
<1>7. Len(a \o b \o z \o z \o o) = 14
  BY <1>1, <1>2, <1>3, <1>4, <1>5, <1>6
<1> QED
  BY <1>5, <1>7 DEF bmp_header1_write, a, b, z, o

LEMMA Header2Written ==
  ASSUME NEW size \in Int, NEW width \in Int, NEW height \in Int, NEW bitsperpixel \in Int
  PROVE  LET h2 == bmp_header2_write(size, width, height, bitsperpixel)
         IN  h2 \in Seq(Byte) /\ Len(h2) = 40
<1> DEFINE a == u_long_int_write(size)
           b == u_long_int_write(width)
           c == long_int_write(height)
           d == u_short_int_write(1)
           g == u_short_int_write(bitsperpixel)
           z == u_long_int_write(0)
<1>1. /\ a \in Seq(Byte) /\ Len(a) = 4 /\ b \in Seq(Byte) /\ Len(b) = 4
      /\ c \in Seq(Byte) /\ Len(c) = 4 /\ z \in Seq(Byte) /\ Len(z) = 4
      /\ d \in Seq(Byte) /\ Len(d) = 2 /\ g \in Seq(Byte) /\ Len(g) = 2
  BY ShortWritten, LongWritten
<1> HIDE DEF a, b, c, d, g, z
<1> DEFINE h == a \o b \o c \o d \o g
<1>2. h \in Seq(Byte) /\ Len(h) = Len(a) + Len(b) + Len(c) + Len(d) + Len(g)
  <2>1. a \o b \in Seq(Byte) /\ Len(a \o b) = Len(a) + Len(b)
    BY <1>1, Appended
  <2>2. a \o b \o c \in Seq(Byte) /\ Len(a \o b \o c) = Len(a \o b) + Len(c)
    BY <1>1, <2>1, Appended
  <2>3. /\ a \o b \o c \o d \in Seq(Byte)
        /\ Len(a \o b \o c \o d) = Len(a \o b \o c) + Len(d)
    BY <1>1, <2>2, Appended
  <2>4. h \in Seq(Byte) /\ Len(h) = Len(a \o b \o c \o d) + Len(g)
    <3>1. g \in Seq(Byte) /\ a \o b \o c \o d \in Seq(Byte)
      BY <1>1, <2>3
    <3> QED
      BY <3>1, Appended
  <2> QED
    BY <2>1, <2>2, <2>3, <2>4
<1>3. bmp_header2_write(size, width, height, bitsperpixel) = h \o z \o z \o z \o z \o z \o z
  BY DEF bmp_header2_write, a, b, c, d, g, z
<1> HIDE DEF h
<1>4. \A s \in Seq(Byte) : s \o z \in Seq(Byte) /\ Len(s \o z) = Len(s) + Len(z)
  BY <1>1, Appended
<1>5. /\ h \o z \o z \o z \in Seq(Byte)
      /\ Len(h \o z \o z \o z) = Len(h) + Len(z) + Len(z) + Len(z)
  BY <1>2, <1>4, Zenon
<1> DEFINE k == h \o z \o z \o z
<1> HIDE DEF k
<1>6. /\ k \o z \o z \o z \in Seq(Byte)
      /\ Len(k \o z \o z \o z) = Len(k) + Len(z) + Len(z) + Len(z)
  <2>1. k \in Seq(Byte)
    BY <1>5 DEF k
  <2> QED
    BY <2>1, <1>4, Zenon
<1>7. 4 + 4 + 4 + 2 + 2 + 4 + 4 + 4 + 4 + 4 + 4 = 40
  OBVIOUS
<1>8. /\ h \o z \o z \o z \o z \o z \o z \in Seq(Byte)
      /\ Len(h \o z \o z \o z \o z \o z \o z) = 40
  BY <1>1, <1>2, <1>5, <1>6, <1>7 DEF k
<1> QED
  BY <1>3, <1>8

LEMMA LineType ==
  ASSUME NEW b \in Nat
  PROVE  /\ LineBytes(b) \in Nat /\ LineBytes(b) >= b /\ LineBytes(b) < b + 4
         /\ LineBytes(b) % 4 = 0 /\ (b = 0 => LineBytes(b) = 0)
BY SMT DEF LineBytes, Padding

\* The two headers of the file that is written for an image.
Headers(width, height) ==
  bmp_header1_write(WrittenType, 54 + LineBytes(3 * width) * AbsVal(height), 54) \o
  bmp_header2_write(40, width, height, 24)

LEMMA HeadersWritten ==
  ASSUME NEW width \in Nat, NEW height \in Int
  PROVE  Headers(width, height) \in Seq(Byte) /\ Len(Headers(width, height)) = 54
<1> DEFINE line == LineBytes(3 * width)
           h1 == bmp_header1_write(WrittenType, 54 + line * AbsVal(height), 54)
           h2 == bmp_header2_write(40, width, height, 24)
<1>1. line \in Nat /\ AbsVal(height) \in Nat
  BY LineType, Quotients
<1> HIDE DEF line
<1>2. 54 + line * AbsVal(height) \in Int
  BY <1>1
<1>3. h1 \in Seq(Byte) /\ Len(h1) = 14
  <2>1. WrittenType \in Int
    BY SMT DEF WrittenType, Magic
  <2>2. 54 \in Int
    OBVIOUS
  <2> QED
    BY <1>2, <2>1, <2>2, Header1Written
<1>4. h2 \in Seq(Byte) /\ Len(h2) = 40
  BY Header2Written
<1>5. Headers(width, height) = h1 \o h2
  BY DEF Headers, line
<1> HIDE DEF h1, h2
<1>6. h1 \o h2 \in Seq(Byte) /\ Len(h1 \o h2) = Len(h1) + Len(h2)
  <2>1. h1 \in Seq(Byte) /\ h2 \in Seq(Byte)
    BY <1>3, <1>4
  <2> QED
    BY <2>1, Appended
<1>7. 14 + 40 = 54
  OBVIOUS
<1> QED
  BY <1>3, <1>4, <1>5, <1>6, <1>7

\* Whatever the pixels are, the headers of a file that is written are bytes.
LEMMA HeaderWritten ==
  ASSUME NEW width \in Nat, NEW height \in Int, NEW pixel
  PROVE  HeaderBytes(bmp_24_write(width, height, pixel))
<1> DEFINE N == AbsVal(height) * LineBytes(3 * width)
           D == bmp_24_data_write(width, height, pixel)
           S == Byte \cup {D[n] : n \in 1 .. N}
           h == Headers(width, height)
<1>1. N \in Nat
  <2>1. LineBytes(3 * width) \in Nat /\ AbsVal(height) \in Nat
    BY LineType, Quotients
  <2> QED
    BY <2>1
<1>5. D \in Seq(S)
  <2>1. PICK g : D = [n \in 1 .. N |-> g[n]]
    <3>1. D = [n \in 1 .. N |-> D[n]]
      BY DEF bmp_24_data_write
    <3> QED
      BY <3>1
  <2> HIDE DEF D, N
  <2>2. D \in [1 .. N -> S]
    BY <2>1 DEF S
  <2> QED
    BY <1>1, <2>2
<1>6. bmp_24_write(width, height, pixel) = h \o D
  BY DEF bmp_24_write, Headers
<1> HIDE DEF h, D, N
<1>8. h \in Seq(Byte) /\ Len(h) = 54
  BY HeadersWritten DEF h
<1>9. h \in Seq(S)
  <2>1. Byte \subseteq S
    OBVIOUS
  <2> HIDE DEF S
  <2> QED
    BY <1>8, <2>1
<1> HIDE DEF S
<1>10. /\ Len(h \o D) \in Nat
       /\ \A i \in 1 .. Len(h) : (h \o D)[i] = h[i]
  BY <1>5, <1>9, Appended
<1>11. \A i \in 1 .. 54 : h[i] \in Byte
  <2>1. \A i \in 1 .. Len(h) : h[i] \in Byte
    <3>1. h \in Seq(Byte)
      BY <1>8
    <3> QED
      BY <3>1
  <2> QED
    BY <1>8, <2>1
<1> QED
  BY <1>6, <1>8, <1>10, <1>11 DEF HeaderBytes

-----------------------------------------------------------------------------
(* The inductive invariant *)

\* Every file that exists has headers of bytes: those on the disk by assumption,
\* those written by HeaderWritten.
FilesInv ==
  /\ \A name \in DOMAIN written : HeaderBytes(written[name])
  /\ filter \in readFilter
  /\ pc = "next" => row = 1 /\ col = 1

\* The images at hand have the size their header says, as a long as it is.
SizeInv ==
  LET h2 == bmp_header2_read(File(args[inNum]))
  IN  /\ input.width = h2.width /\ input.height = h2.height
      /\ input.width \in Nat /\ input.height \in Int

\* The result is as large as the image, and the loop variables are where the loop
\* can be.
LoopInv ==
  /\ output = [width |-> input.width, height |-> input.height, color |-> output.color]
  /\ DOMAIN input.color = Rows(input.height) \X (0 .. input.width - 1)
  /\ output.color = [cell \in Rows(input.height) \X (0 .. input.width - 1) |->
                       output.color[cell]]
  /\ row \in Nat \ {0} /\ col \in Nat \ {0}
  /\ pc = "write" => row >= input.height - 1

\* What the loops have passed is filtered.
PassedInv ==
  (filter.size <= 3 /\ filter.divisor # 0) =>
     \A r \in 1 .. input.height - 2, c \in 1 .. input.width - 2 :
        Passed(r, c) => output.color[<<r, c>>] = Reference(input.color, r, c)

FilterInv ==
  /\ FilesInv
  /\ pc \in {"apply", "write"} => SizeInv /\ LoopInv /\ PassedInv
  /\ AbortsOnly

LEMMA FileHeader ==
  ASSUME FilesInv, NEW name, Exists(name)
  PROVE  HeaderBytes(File(name))
<1>1. CASE name \in DOMAIN written
  BY <1>1 DEF FilesInv, File
<1>2. CASE name \notin DOMAIN written
  <2>1. Images[name] \in Seq(Byte)
    BY <1>2, FilterAssumption DEF Exists
  <2>2. \A s \in Seq(Byte) : HeaderBytes(s)
    <3> SUFFICES ASSUME NEW s \in Seq(Byte), Len(s) >= 54, NEW i \in 1 .. 54
                 PROVE  s[i] \in Byte
      BY DEF HeaderBytes
    <3>1. i \in 1 .. Len(s)
      OBVIOUS
    <3> QED
      BY <3>1
  <2> QED
    BY <1>2, <2>1, <2>2 DEF File
<1> QED
  BY <1>1, <1>2

LEMMA FilterFacts ==
  ASSUME filter \in readFilter
  PROVE  filter.size \in Nat /\ (filter.divisor = 0 => filter.size = 0)
<1>1. \A f \in Filters : f.size \in Nat /\ f.divisor # 0
  BY FilterAssumption
<1> QED
  BY <1>1 DEF readFilter

\* The two accumulators of a turn are the sums of the loop that takes one column a
\* turn: every tap around a cell of the interior lies inside the image.
LEMMA TapsInside ==
  ASSUME NEW h \in Int, NEW w \in Nat, NEW r \in 1 .. h - 2, NEW c \in 1 .. w - 2,
         filter.size \in Nat, filter.size <= 3,
         DOMAIN input.color = Rows(h) \X (0 .. w - 1), NEW k, NEW junk
  PROVE  Acc1(r, c, k, junk) =
           Sum([t \in Taps |->
                  input.color[<<r + t[1] - 1, c + t[2] - 1>>][k] * filter.data[t]])
<1>1. \A t \in Taps : <<r + t[1] - 1, c + t[2] - 1>> \in DOMAIN input.color
  <2> SUFFICES ASSUME NEW i \in 0 .. filter.size - 1, NEW j \in 0 .. filter.size - 1
               PROVE  <<r + i - 1, c + j - 1>> \in Rows(h) \X (0 .. w - 1)
    BY DEF Taps
  <2>1. r + i - 1 \in Rows(h) /\ c + j - 1 \in 0 .. w - 1
    BY DEF Rows
  <2> QED
    BY <2>1
<1>2. \A t \in Taps : At(r + t[1] - 1, c + t[2] - 1, k, junk)
                        = input.color[<<r + t[1] - 1, c + t[2] - 1>>][k]
  BY <1>1 DEF At
<1>3. [t \in Taps |-> At(r + t[1] - 1, c + t[2] - 1, k, junk) * filter.data[t]]
        = [t \in Taps |->
             input.color[<<r + t[1] - 1, c + t[2] - 1>>][k] * filter.data[t]]
  BY <1>2
<1> QED
  BY <1>3 DEF Acc1

\* The second accumulator of a turn is the first one of the next column.
LEMMA NextColumn ==
  ASSUME NEW r, NEW c \in Int, NEW k, NEW junk, filter.size \in Nat
  PROVE  Acc2(r, c, k, junk) = Acc1(r, c + 1, k, junk)
<1>1. \A t \in Taps : c + t[2] = (c + 1) + t[2] - 1
  BY DEF Taps
<1>2. \A t \in Taps : At(r + t[1] - 1, c + t[2], k, junk)
                        = At(r + t[1] - 1, (c + 1) + t[2] - 1, k, junk)
  BY <1>1
<1>3. [t \in Taps |-> At(r + t[1] - 1, c + t[2], k, junk) * filter.data[t]]
        = [t \in Taps |-> At(r + t[1] - 1, (c + 1) + t[2] - 1, k, junk) * filter.data[t]]
  BY <1>2
<1> QED
  BY <1>3 DEF Acc1, Acc2

-----------------------------------------------------------------------------
(* The steps *)

\* A turn of the column loop filters the two cells at and after col and leaves the
\* others alone.
LEMMA FilterPairKeeps ==
  ASSUME FilterInv, FilterPair
  PROVE  LoopInv' /\ PassedInv'
<1> DEFINE w == input.width
           h == input.height
           Cells2 == Rows(h) \X (0 .. w - 1)
<1>1. /\ SizeInv /\ LoopInv /\ PassedInv /\ filter \in readFilter
      /\ row < h - 1 /\ col < w - 1 /\ w \in Nat /\ h \in Int
      /\ row \in Nat \ {0} /\ col \in Nat \ {0}
  BY DEF FilterInv, FilesInv, FilterPair, InLoop, ColumnsLeft, SizeInv, LoopInv
<1>2. /\ filter.size \in Nat /\ UNCHANGED <<filter, input, row>>
      /\ col' = col + 2 /\ pc = "apply" /\ pc' = "apply"
  BY <1>1, FilterFacts DEF FilterPair
<1>3. PICK junk \in JunkBytes :
        output' = [output EXCEPT !.color =
         [@ EXCEPT ![<<row, col>>] =
                     [k \in Colors |-> Clamp(CDiv(Acc1(row, col, k, junk), filter.divisor))],
                   ![<<row, col + 1>>] =
                     [k \in Colors |-> Clamp(CDiv(Acc2(row, col, k, junk), filter.divisor))]]]
  BY DEF FilterPair
<1> DEFINE v1 == [k \in Colors |-> Clamp(CDiv(Acc1(row, col, k, junk), filter.divisor))]
           v2 == [k \in Colors |-> Clamp(CDiv(Acc2(row, col, k, junk), filter.divisor))]
           new == [output.color EXCEPT ![<<row, col>>] = v1, ![<<row, col + 1>>] = v2]
<1>4. output' = [width |-> w, height |-> h, color |-> new]
  <2>1. output = [width |-> w, height |-> h, color |-> output.color]
    BY <1>1 DEF LoopInv
  <2>2. output' = [output EXCEPT !.color = new]
    BY <1>3
  <2> HIDE DEF new
  <2> QED
    BY <2>1, <2>2
<1>5. <<row, col>> \in Cells2 /\ <<row, col + 1>> \in Cells2
  BY <1>1 DEF Rows
<1>6. output.color = [cell \in Cells2 |-> output.color[cell]]
  BY <1>1 DEF LoopInv
<1>7. /\ new = [cell \in Cells2 |-> new[cell]]
      /\ new[<<row, col>>] = v1 /\ new[<<row, col + 1>>] = v2
      /\ \A cell \in Cells2 : cell # <<row, col>> /\ cell # <<row, col + 1>>
                                => new[cell] = output.color[cell]
  <2> DEFINE old == output.color
             c1 == <<row, col>>
             c2 == <<row, col + 1>>
  <2>1. c1 # c2
    BY <1>1
  <2>2. c1 \in Cells2 /\ c2 \in Cells2 /\ old = [cell \in Cells2 |-> old[cell]]
    BY <1>5, <1>6
  <2>3. new = [old EXCEPT ![c1] = v1, ![c2] = v2]
    OBVIOUS
  <2> HIDE DEF old, c1, c2, v1, v2, new, Cells2
  <2>4. /\ new = [cell \in Cells2 |-> new[cell]] /\ new[c1] = v1 /\ new[c2] = v2
        /\ \A cell \in Cells2 : cell # c1 /\ cell # c2 => new[cell] = old[cell]
    BY <2>1, <2>2, <2>3
  <2> QED
    BY <2>4 DEF c1, c2, old
<1> HIDE DEF new
<1>8. LoopInv'
  <2>1. DOMAIN input.color = Cells2
    BY <1>1 DEF LoopInv
  <2>2. output'.color = new
    BY <1>4
  <2>3. (col + 2) \in Nat \ {0}
    BY <1>1
  <2> QED
    BY <1>1, <1>2, <1>4, <1>7, <2>1, <2>2, <2>3 DEF LoopInv
<1>9. ASSUME filter.size <= 3, filter.divisor # 0,
             NEW r \in 1 .. h - 2, NEW c \in 1 .. w - 2, Passed(r, c)'
      PROVE  new[<<r, c>>] = Reference(input.color, r, c)
  <2>1. r < row \/ (r = row /\ c < col + 2)
    BY <1>2, <1>9 DEF Passed
  <2>2. DOMAIN input.color = Rows(h) \X (0 .. w - 1)
    BY <1>1 DEF LoopInv
  <2>3. \A k : Acc1(r, c, k, junk) =
                 Sum([t \in Taps |->
                        input.color[<<r + t[1] - 1, c + t[2] - 1>>][k] * filter.data[t]])
    BY <1>1, <1>2, <1>9, <2>2, TapsInside
  <2>4. Reference(input.color, r, c)
          = [k \in Colors |-> Clamp(CDiv(Acc1(r, c, k, junk), filter.divisor))]
    BY <2>3, Zenon DEF Reference
  <2>5. CASE r = row /\ c = col
    BY <1>7, <2>4, <2>5
  <2>6. CASE r = row /\ c = col + 1
    <3>1. \A k : Acc2(row, col, k, junk) = Acc1(r, c, k, junk)
      BY <1>1, <1>2, <2>6, NextColumn
    <3>2. v2 = [k \in Colors |-> Clamp(CDiv(Acc1(r, c, k, junk), filter.divisor))]
      BY <3>1, Zenon
    <3> QED
      BY <1>7, <2>4, <2>6, <3>2
  <2>7. CASE ~ (r = row /\ c = col) /\ ~ (r = row /\ c = col + 1)
    <3>1. <<r, c>> # <<row, col>> /\ <<r, c>> # <<row, col + 1>>
      BY <2>7
    <3>2. <<r, c>> \in Cells2
      BY <1>1 DEF Rows
    <3>3. Passed(r, c)
      BY <1>1, <2>1, <2>7 DEF Passed
    <3>4. output.color[<<r, c>>] = Reference(input.color, r, c)
      BY <1>1, <1>9, <3>3 DEF PassedInv
    <3> QED
      BY <1>7, <3>1, <3>2, <3>4
  <2> QED
    BY <2>5, <2>6, <2>7
<1>10. PassedInv'
  <2>1. \A r, c : Reference(input.color, r, c)' = Reference(input.color, r, c)
    BY <1>2 DEF Reference, Taps
  <2>2. output'.color = new
    BY <1>4
  <2> QED
    BY <1>2, <1>9, <2>1, <2>2 DEF PassedInv, Passed
<1> QED
  BY <1>8, <1>10

\* Nothing of a new image has been passed.
LEMMA ReadKeeps ==
  ASSUME FilterInv, cs1300bmp_readfile
  PROVE  SizeInv' /\ LoopInv' /\ PassedInv'
<1> DEFINE f == File(args[inNum])
           image == bmp_read(f)
           h2 == bmp_header2_read(f)
<1>1. /\ ~ image.error /\ HeaderBytes(f) /\ row = 1 /\ col = 1
      /\ UNCHANGED <<args, inNum, written, filter, row, col>> /\ pc' = "apply"
  <2>1. HeaderBytes(f)
    BY FileHeader DEF FilterInv, cs1300bmp_readfile
  <2> QED
    BY <2>1 DEF FilterInv, FilesInv, cs1300bmp_readfile
<1>2. PICK junk \in JunkBytes : input' = Copied(image, junk)
  BY DEF cs1300bmp_readfile
<1>3. output' = Fresh(image.width, image.height)
  BY DEF cs1300bmp_readfile
<1>4. /\ image.width = h2.width /\ image.height = h2.height
      /\ h2.width \in Nat /\ h2.height \in Int
  BY <1>1, HeaderRead
<1>5. f' = f
  BY <1>1 DEF File
<1> HIDE DEF image, h2, f
<1>6. /\ input'.width = image.width /\ input'.height = image.height
      /\ DOMAIN input'.color = Rows(image.height) \X (0 .. image.width - 1)
  BY <1>2 DEF Copied
<1>7. /\ output'.width = image.width /\ output'.height = image.height
      /\ output' = [width |-> image.width, height |-> image.height,
                    color |-> output'.color]
      /\ output'.color = [cell \in Rows(image.height) \X (0 .. image.width - 1) |->
                            output'.color[cell]]
  BY <1>3 DEF Fresh
<1>8. SizeInv'
  <2>1. h2' = h2
    BY <1>5 DEF h2
  <2> QED
    BY <1>4, <1>6, <2>1 DEF SizeInv, h2, f
<1>9. LoopInv'
  BY <1>1, <1>6, <1>7 DEF LoopInv
<1>10. PassedInv'
  BY <1>1, <1>4, <1>6 DEF PassedInv, Passed
<1> QED
  BY <1>8, <1>9, <1>10

LEMMA WriteKeeps ==
  ASSUME FilterInv, cs1300bmp_writefile
  PROVE  FilesInv'
<1> DEFINE name == OutputName(args[inNum])
<1>1. /\ output.width \in Nat /\ output.height \in Int
      /\ pc' = "next" /\ row' = 1 /\ col' = 1 /\ filter' = filter
  <2>1. SizeInv /\ LoopInv
    BY DEF FilterInv, cs1300bmp_writefile
  <2>2. output.width = input.width /\ output.height = input.height
    BY <2>1 DEF LoopInv
  <2> QED
    BY <2>1, <2>2 DEF cs1300bmp_writefile, NextImage, SizeInv
<1>2. PICK junk \in JunkBytes :
        written' = [n \in DOMAIN written \cup {name} |->
                      IF n = name THEN Saved(junk) ELSE written[n]]
  BY DEF cs1300bmp_writefile
<1>3. HeaderBytes(Saved(junk))
  BY <1>1, HeaderWritten DEF Saved
<1>4. \A n \in DOMAIN written' : HeaderBytes(written'[n])
  BY <1>2, <1>3 DEF FilterInv, FilesInv
<1>5. readFilter' = readFilter
  BY DEF readFilter
<1> QED
  BY <1>1, <1>4, <1>5 DEF FilterInv, FilesInv

\* The three ways in which the program is stopped from outside.
LEMMA ReadAbortsOnly ==
  ASSUME FilterInv, ReadAborts
  PROVE  bmp_header2_read(File(args[inNum])).bitsperpixel = 8
<1>1. HeaderBytes(File(args[inNum]))
  BY FileHeader DEF FilterInv, ReadAborts
<1>2. ~ bmp_read(File(args[inNum])).error /\ bmp_read(File(args[inNum])).shared
  BY DEF ReadAborts, DeletedTwice
<1> QED
  BY <1>1, <1>2, HeaderRead

LEMMA WriteAbortsOnly ==
  ASSUME FilterInv, WriteAborts
  PROVE  LET h2 == bmp_header2_read(File(args[inNum]))
         IN  h2.height < 0 /\ h2.width > 0
<1>1. SizeInv /\ LoopInv
  BY DEF FilterInv, WriteAborts
<1>2. \A m \in Nat, n \in Int : m * n < 0 => n < 0 /\ m > 0
  <2> SUFFICES ASSUME NEW m \in Nat, NEW n \in Int, ~ (n < 0 /\ m > 0)
               PROVE  m * n >= 0
    OBVIOUS
  <2>1. CASE m = 0
    BY <2>1
  <2>2. CASE n >= 0
    BY <2>2
  <2> QED
    BY <2>1, <2>2
<1>3. output.width = input.width /\ output.height = input.height
  BY <1>1 DEF LoopInv
<1>4. input.width * input.height < 0
  BY <1>3 DEF WriteAborts, ColorBytes
<1> QED
  BY <1>1, <1>2, <1>4 DEF SizeInv


LEMMA InitFilterInv == Init => FilterInv
<1> SUFFICES ASSUME Init
             PROVE  FilterInv
  OBVIOUS
<1>1. FilesInv
  BY DEF Init, FilesInv
<1> QED
  BY <1>1 DEF Init, FilterInv, AbortsOnly

LEMMA NextFilterInv == FilterInv /\ [Next]_vars => FilterInv'
<1> SUFFICES ASSUME FilterInv, [Next]_vars
             PROVE  FilterInv'
  OBVIOUS
<1>1. readFilter' = readFilter
  BY DEF readFilter
<1>2. ASSUME UNCHANGED <<args, inNum, written, filter, input, output, row, col>>
      PROVE  /\ FilesInv' <=> (\A name \in DOMAIN written : HeaderBytes(written[name]))
                               /\ filter \in readFilter
                               /\ (pc' = "next" => row = 1 /\ col = 1)
             /\ SizeInv' <=> SizeInv
             /\ PassedInv' <=> PassedInv
             /\ File(args[inNum])' = File(args[inNum])
  <2>1. File(args[inNum])' = File(args[inNum])
    BY <1>2 DEF File
  <2>2. \A r, c : Reference(input.color, r, c)' = Reference(input.color, r, c)
    BY <1>2 DEF Reference, Taps
  <2> QED
    BY <1>1, <1>2, <2>1, <2>2 DEF FilesInv, SizeInv, PassedInv, Passed
<1> DEFINE h2 == bmp_header2_read(File(args[inNum]))
           Reason == \/ h2.bitsperpixel = 8
                     \/ h2.height < 0 /\ h2.width > 0
                     \/ filter.size = 0 /\ filter.divisor = 0
<1>3. ASSUME Abort, Reason
      PROVE  FilterInv'
  <2>1. UNCHANGED <<args, inNum, written, filter, input, output, row, col>>
        /\ pc' = "aborted"
    BY <1>3 DEF Abort
  <2>2. FilesInv'
    BY <1>2, <2>1 DEF FilterInv, FilesInv
  <2>3. AbortsOnly'
    BY <1>2, <1>3, <2>1 DEF AbortsOnly
  <2> QED
    BY <2>1, <2>2, <2>3 DEF FilterInv
<1> HIDE DEF Reason
<1>4. ASSUME NextImage, FilesInv'
      PROVE  FilterInv'
  BY <1>4 DEF NextImage, FilterInv, AbortsOnly
<1>5. CASE ReadFails
  <2>1. FilesInv'
    BY <1>1, <1>5 DEF ReadFails, NextImage, FilterInv, FilesInv
  <2> QED
    BY <1>4, <1>5, <2>1 DEF ReadFails
<1>6. CASE cs1300bmp_readfile
  <2>1. SizeInv' /\ LoopInv' /\ PassedInv'
    BY <1>6, ReadKeeps
  <2>2. FilesInv'
    BY <1>1, <1>6 DEF cs1300bmp_readfile, FilterInv, FilesInv
  <2>3. AbortsOnly'
    BY <1>6 DEF cs1300bmp_readfile, AbortsOnly
  <2> QED
    BY <2>1, <2>2, <2>3 DEF FilterInv
<1>7. CASE ReadAborts
  <2>1. Reason
    BY <1>7, ReadAbortsOnly DEF Reason
  <2>2. Abort
    BY <1>7 DEF ReadAborts
  <2> QED
    BY <1>3, <2>1, <2>2
<1>8. CASE FilterPair
  <2>1. LoopInv' /\ PassedInv'
    BY <1>8, FilterPairKeeps
  <2>2. UNCHANGED <<args, inNum, written, filter, input, row>> /\ pc = "apply"
        /\ pc' = "apply"
    BY <1>8 DEF FilterPair
  <2>3. SizeInv'
    BY <2>2 DEF FilterInv, SizeInv, File
  <2>4. FilesInv'
    BY <1>1, <2>2 DEF FilterInv, FilesInv
  <2>5. AbortsOnly'
    BY <2>2 DEF AbortsOnly
  <2> QED
    BY <2>1, <2>3, <2>4, <2>5 DEF FilterInv
<1>9. CASE DivideByZero
  <2>1. Reason
    BY <1>9, FilterFacts DEF Reason, DivideByZero, FilterInv, FilesInv
  <2> QED
    BY <1>3, <1>9, <2>1 DEF DivideByZero
<1>10. CASE NextRow
  <2>1. /\ UNCHANGED <<args, inNum, written, filter, input, output>>
        /\ pc = "apply" /\ pc' = "apply" /\ row' = row + 1 /\ col' = 1
        /\ ~ (col < input.width - 1)
    BY <1>10 DEF NextRow, ColumnsLeft
  <2>2. SizeInv /\ LoopInv /\ PassedInv
    BY <2>1 DEF FilterInv
  <2>3. SizeInv'
    BY <2>1, <2>2 DEF SizeInv, File
  <2>4. LoopInv'
    BY <2>1, <2>2 DEF LoopInv
  <2>5. PassedInv'
    <3>1. \A r, c : Reference(input.color, r, c)' = Reference(input.color, r, c)
      BY <2>1 DEF Reference, Taps
    <3>2. ASSUME NEW r \in 1 .. input.height - 2, NEW c \in 1 .. input.width - 2,
                 Passed(r, c)'
          PROVE  Passed(r, c)
      <4>1. row \in Nat /\ col \in Nat /\ input.width \in Nat /\ input.height \in Int
        BY <2>2 DEF SizeInv, LoopInv
      <4> QED
        BY <2>1, <3>2, <4>1 DEF Passed
    <3> QED
      BY <2>1, <2>2, <3>1, <3>2 DEF PassedInv
  <2>6. FilesInv' /\ AbortsOnly'
    BY <1>1, <2>1 DEF FilterInv, FilesInv, AbortsOnly
  <2> QED
    BY <2>3, <2>4, <2>5, <2>6 DEF FilterInv
<1>11. CASE Filtered
  <2>1. /\ UNCHANGED <<args, inNum, written, filter, input, output, row, col>>
        /\ pc = "apply" /\ pc' = "write" /\ ~ (row < input.height - 1)
    BY <1>11 DEF Filtered
  <2>2. SizeInv /\ LoopInv /\ PassedInv
    BY <2>1 DEF FilterInv
  <2>3. LoopInv'
    BY <2>1, <2>2 DEF LoopInv, SizeInv
  <2>4. SizeInv' /\ PassedInv' /\ FilesInv'
    BY <1>2, <2>1, <2>2 DEF FilterInv, FilesInv
  <2>5. AbortsOnly'
    BY <2>1 DEF AbortsOnly
  <2> QED
    BY <2>3, <2>4, <2>5 DEF FilterInv
<1>12. CASE cs1300bmp_writefile
  <2>1. FilesInv'
    BY <1>12, WriteKeeps
  <2> QED
    BY <1>4, <1>12, <2>1 DEF cs1300bmp_writefile
<1>13. CASE WriteFails
  <2>1. FilesInv'
    BY <1>1, <1>13 DEF WriteFails, NextImage, FilterInv, FilesInv
  <2> QED
    BY <1>4, <1>13, <2>1 DEF WriteFails
<1>14. CASE WriteAborts
  <2>1. Reason
    BY <1>14, WriteAbortsOnly DEF Reason
  <2>2. Abort
    BY <1>14 DEF WriteAborts
  <2> QED
    BY <1>3, <2>1, <2>2
<1>15. CASE Return
  <2>1. UNCHANGED <<args, inNum, written, filter, input, output, row, col>>
        /\ pc' = "end"
    BY <1>15 DEF Return
  <2> QED
    BY <1>2, <2>1 DEF FilterInv, FilesInv, AbortsOnly
<1>16. CASE UNCHANGED vars
  <2>1. UNCHANGED <<args, inNum, written, filter, input, output, row, col>> /\ pc' = pc
    BY <1>16 DEF vars
  <2>2. LoopInv' <=> LoopInv
    BY <2>1 DEF LoopInv
  <2>3. FilesInv' /\ (SizeInv' <=> SizeInv) /\ (PassedInv' <=> PassedInv)
    BY <1>2, <2>1 DEF FilterInv, FilesInv
  <2>4. AbortsOnly'
    BY <1>2, <2>1 DEF FilterInv, AbortsOnly
  <2> QED
    BY <2>1, <2>2, <2>3, <2>4 DEF FilterInv
<1> QED
  BY <1>5, <1>6, <1>7, <1>8, <1>9, <1>10, <1>11, <1>12, <1>13, <1>14, <1>15, <1>16 DEF Next

LEMMA FilterInvariant == Spec => []FilterInv
BY InitFilterInv, NextFilterInv, PTL DEF Spec

\* For images and filters of every size: two columns a turn compute what one column a
\* turn does (applyFilter's loops against the README's), wherever the filter was read.
THEOREM InteriorAlwaysFiltered == Spec => []InteriorFiltered
<1>1. FilterInv => InteriorFiltered
  <2> SUFFICES ASSUME FilterInv, pc \in {"apply", "write"},
                      filter.size <= 3, filter.divisor # 0,
                      NEW cell \in Interior, pc = "write" \/ Passed(cell[1], cell[2])
               PROVE  output.color[cell] = Reference(input.color, cell[1], cell[2])
    BY DEF InteriorFiltered
  <2> PICK r \in 1 .. input.height - 2, c \in 1 .. input.width - 2 : cell = <<r, c>>
    BY DEF Interior
  <2>1. SizeInv /\ LoopInv /\ PassedInv
    BY DEF FilterInv
  <2>2. Passed(r, c)
    <3>1. pc = "write" => r < row
      BY <2>1 DEF SizeInv, LoopInv
    <3> QED
      BY <3>1 DEF Passed
  <2> QED
    BY <2>1, <2>2 DEF PassedInv
<1> QED
  BY <1>1, FilterInvariant, PTL

\* Whatever files are named and whatever memory holds, the program is stopped from
\* outside only by an 8-bit image, an image stored from the top and an unread filter.
THEOREM AbortsOnlyThen == Spec => []AbortsOnly
<1>1. FilterInv => AbortsOnly
  BY DEF FilterInv
<1> QED
  BY <1>1, FilterInvariant, PTL

-----------------------------------------------------------------------------
(* Sums.  The fold recurs on subsets: for a finite set there is such a       *)
(* function, and its values are integers when the terms are.                 *)

SumOver(f, S) == FoldFunctionOnSet(+, 0, f, S)

First(s) == CHOOSE x \in s : TRUE
Rest(s)  == s \ {First(s)}

Turn(f, g, s) == IF s = {} THEN 0 ELSE f[First(s)] + g[Rest(s)]

Adds(f, S, g) == g = [s \in SUBSET S |-> Turn(f, g, s)]

\* The natural numbers are well-ordered: induction without a predicate.
LEMMA LeastNat ==
  ASSUME NEW S \in SUBSET Nat, S # {}
  PROVE  \E m \in S : \A n \in S : m <= n
<1> DEFINE R == {ss \in Nat \X Nat : ss[1] < ss[2]}
<1>1. IsWellFoundedOn(R, Nat)
  BY NatLessThanWellFounded DEF OpToRel
<1>2. PICK x \in S : \A y \in S : ~ (<<y, x>> \in R)
  <2> HIDE DEF R
  <2> QED BY <1>1, WFMin
<1>3. \A y \in S : ~ (y < x)
  <2> SUFFICES ASSUME NEW y \in S, y < x PROVE FALSE
    OBVIOUS
  <2>1. <<y, x>> \in Nat \X Nat /\ <<y, x>>[1] < <<y, x>>[2]
    OBVIOUS
  <2> QED BY <2>1, <1>2
<1> QED BY <1>3

\* Among the bad subsets of a finite set there is a smallest one.
LEMMA SmallestSubset ==
  ASSUME NEW T, IsFiniteSet(T), NEW Bad \in SUBSET SUBSET T, Bad # {}
  PROVE  \E s \in Bad : /\ IsFiniteSet(s)
                        /\ \A r \in SUBSET s : r # s => r \notin Bad
<1> DEFINE B == {n \in Nat : \E s \in Bad : Cardinality(s) = n}
<1>1. \A s \in Bad : IsFiniteSet(s) /\ Cardinality(s) \in Nat
  BY FS_Subset, FS_CardinalityType
<1>2. B # {}
  BY <1>1
<1>3. PICK m \in B : \A n \in B : m <= n
  <2>1. B \in SUBSET Nat
    OBVIOUS
  <2> HIDE DEF B
  <2> QED BY <1>2, <2>1, LeastNat
<1>4. PICK s \in Bad : Cardinality(s) = m
  OBVIOUS
<1>5. ASSUME NEW r \in SUBSET s, r # s, r \in Bad PROVE FALSE
  <2>1. Cardinality(r) <= Cardinality(s) /\ Cardinality(r) # Cardinality(s)
    BY <1>1, <1>5, FS_Subset
  <2>2. Cardinality(r) \in B
    BY <1>1, <1>5
  <2> HIDE DEF B
  <2>3. Cardinality(s) <= Cardinality(r)
    BY <1>3, <1>4, <2>2
  <2>4. Cardinality(r) \in Nat /\ Cardinality(s) \in Nat
    BY <1>1, <1>5
  <2> QED BY <2>1, <2>3, <2>4
<1> QED BY <1>1, <1>5

LEMMA RestSmaller ==
  ASSUME NEW s, s # {}
  PROVE  First(s) \in s /\ Rest(s) \subseteq s /\ Rest(s) # s
BY DEF First, Rest

LEMMA AddsUnique ==
  ASSUME NEW f, NEW S1, NEW S2, NEW g1, NEW g2, Adds(f, S1, g1), Adds(f, S2, g2),
         NEW T, IsFiniteSet(T), T \subseteq S1, T \subseteq S2
  PROVE  g1[T] = g2[T]
<1> DEFINE Bad == {s \in SUBSET T : g1[s] # g2[s]}
<1> SUFFICES ASSUME Bad # {} PROVE FALSE
  OBVIOUS
<1>1. PICK s \in Bad : \A r \in SUBSET s : r # s => r \notin Bad
  <2>1. Bad \in SUBSET SUBSET T
    OBVIOUS
  <2> HIDE DEF Bad
  <2> QED BY <2>1, SmallestSubset
<1>2. s \in SUBSET S1 /\ s \in SUBSET S2 /\ s \in SUBSET T
  OBVIOUS
<1>3. g1[s] = Turn(f, g1, s) /\ g2[s] = Turn(f, g2, s)
  BY <1>2, Zenon DEF Adds
<1>4. CASE s = {}
  BY <1>3, <1>4 DEF Turn
<1>5. CASE s # {}
  <2>1. Rest(s) \in SUBSET s /\ Rest(s) # s
    BY <1>5, RestSmaller
  <2>2. g1[Rest(s)] = g2[Rest(s)]
    BY <1>1, <1>2, <2>1
  <2> QED BY <1>3, <1>5, <2>2 DEF Turn
<1> QED BY <1>4, <1>5

LEMMA AddsExists ==
  ASSUME NEW f, NEW T, IsFiniteSet(T)
  PROVE  \E g : Adds(f, T, g)
<1> DEFINE Bad == {s \in SUBSET T : ~ \E g : Adds(f, s, g)}
<1> SUFFICES ASSUME Bad # {} PROVE FALSE
  OBVIOUS
<1>1. PICK S \in Bad : IsFiniteSet(S) /\ \A r \in SUBSET S : r # S => r \notin Bad
  <2>1. Bad \in SUBSET SUBSET T
    OBVIOUS
  <2> HIDE DEF Bad
  <2> QED BY <2>1, SmallestSubset
<1> DEFINE h(s) == CHOOSE g : Adds(f, s, g)
           g == [s \in SUBSET S |->
                   IF s = {} THEN 0 ELSE f[First(s)] + h(Rest(s))[Rest(s)]]
<1>2. ASSUME NEW r \in SUBSET S, r # S
      PROVE  Adds(f, r, h(r)) /\ IsFiniteSet(r)
  <2>1. r \notin Bad
    BY <1>1, <1>2
  <2>2. r \in SUBSET T
    OBVIOUS
  <2>3. \E k : Adds(f, r, k)
    BY <2>1, <2>2
  <2>4. IsFiniteSet(r)
    BY <1>1, FS_Subset
  <2> QED BY <2>3, <2>4
<1>3. ASSUME NEW r \in SUBSET S, r # S
      PROVE  h(r)[r] = g[r]
  <2>1. Adds(f, r, h(r)) /\ IsFiniteSet(r)
    BY <1>2, <1>3
  <2>2. h(r)[r] = Turn(f, h(r), r)
    <3> HIDE DEF h
    <3>1. r \in SUBSET r
      OBVIOUS
    <3> QED BY <2>1, <3>1, Zenon DEF Adds
  <2>3. CASE r = {}
    BY <2>2, <2>3 DEF Turn
  <2>4. CASE r # {}
    <3> DEFINE q == Rest(r)
    <3>1. q \subseteq r /\ q # r
      BY <2>4, RestSmaller
    <3>2. q \in SUBSET S /\ q # S
      BY <3>1
    <3>3. Adds(f, q, h(q)) /\ IsFiniteSet(q)
      BY <3>2, <1>2
    <3>4. h(r)[q] = h(q)[q]
      <4> HIDE DEF h, q
      <4>1. q \subseteq q
        OBVIOUS
      <4> QED BY <2>1, <3>1, <3>3, <4>1, AddsUnique
    <3>5. h(r)[r] = f[First(r)] + h(r)[q]
      BY <2>2, <2>4, Zenon DEF Turn
    <3>6. g[r] = f[First(r)] + h(q)[q]
      BY <2>4, Zenon
    <3> QED BY <3>4, <3>5, <3>6, Zenon
  <2> QED BY <2>3, <2>4
<1>4. Adds(f, S, g)
  <2>1. ASSUME NEW s \in SUBSET S
        PROVE  g[s] = Turn(f, g, s)
    <3>1. CASE s = {}
      BY <3>1 DEF Turn
    <3>2. CASE s # {}
      <4>1. Rest(s) \in SUBSET S /\ Rest(s) # S
        BY <3>2, RestSmaller
      <4>2. h(Rest(s))[Rest(s)] = g[Rest(s)]
        BY <4>1, <1>3
      <4>3. g[s] = f[First(s)] + h(Rest(s))[Rest(s)]
        BY <3>2, Zenon
      <4>4. Turn(f, g, s) = f[First(s)] + g[Rest(s)]
        BY <3>2, Zenon DEF Turn
      <4> QED BY <4>2, <4>3, <4>4, Zenon
    <3> QED BY <3>1, <3>2
  <2>2. g = [s \in SUBSET S |-> g[s]]
    OBVIOUS
  <2> HIDE DEF g
  <2>3. [s \in SUBSET S |-> g[s]] = [s \in SUBSET S |-> Turn(f, g, s)]
    BY <2>1, Zenon
  <2> QED BY <2>2, <2>3, Zenon DEF Adds
<1> HIDE DEF g
<1> QED BY <1>1, <1>4

LEMMA SumUnfolds ==
  ASSUME NEW f, NEW S
  PROVE  SumOver(f, S) = (CHOOSE g : Adds(f, S, g))[S]
BY Zenon DEF SumOver, FoldFunctionOnSet, MapThenFoldSet, Adds, Turn, First, Rest

LEMMA SumTurns ==
  ASSUME NEW f, NEW S, IsFiniteSet(S)
  PROVE  /\ S = {} => SumOver(f, S) = 0
         /\ S # {} => SumOver(f, S) = f[First(S)] + SumOver(f, Rest(S))
<1> DEFINE h(s) == CHOOSE g : Adds(f, s, g)
<1>1. \A s : IsFiniteSet(s) => Adds(f, s, h(s))
  BY AddsExists
<1>2. \A s : SumOver(f, s) = h(s)[s]
  BY SumUnfolds
<1> HIDE DEF h
<1>3. h(S)[S] = Turn(f, h(S), S)
  <2>1. S \in SUBSET S
    OBVIOUS
  <2>2. Adds(f, S, h(S))
    BY <1>1
  <2> QED BY <2>1, <2>2, Zenon DEF Adds
<1>4. CASE S = {}
  BY <1>2, <1>3, <1>4 DEF Turn
<1>5. CASE S # {}
  <2>1. Rest(S) \subseteq S
    BY <1>5, RestSmaller
  <2>2. IsFiniteSet(Rest(S))
    BY <2>1, FS_Subset
  <2>3. Adds(f, S, h(S)) /\ Adds(f, Rest(S), h(Rest(S)))
    BY <1>1, <2>2
  <2>4. h(S)[Rest(S)] = h(Rest(S))[Rest(S)]
    BY <2>1, <2>2, <2>3, AddsUnique
  <2>5. h(S)[S] = f[First(S)] + h(S)[Rest(S)]
    BY <1>3, <1>5, Zenon DEF Turn
  <2>6. SumOver(f, S) = h(S)[S] /\ SumOver(f, Rest(S)) = h(Rest(S))[Rest(S)]
    BY <1>2
  <2> QED BY <1>5, <2>4, <2>5, <2>6, Zenon
<1> QED BY <1>4, <1>5

LEMMA SumType ==
  ASSUME NEW f, NEW S, IsFiniteSet(S), \A x \in S : f[x] \in Int
  PROVE  SumOver(f, S) \in Int
<1> DEFINE Bad == {s \in SUBSET S : SumOver(f, s) \notin Int}
<1> SUFFICES ASSUME Bad # {} PROVE FALSE
  OBVIOUS
<1>1. PICK s \in Bad : IsFiniteSet(s) /\ \A r \in SUBSET s : r # s => r \notin Bad
  <2>1. Bad \in SUBSET SUBSET S
    OBVIOUS
  <2> HIDE DEF Bad
  <2> QED BY <2>1, SmallestSubset
<1>2. CASE s = {}
  <2>1. SumOver(f, s) = 0
    BY <1>1, <1>2, SumTurns
  <2> QED BY <2>1
<1>3. CASE s # {}
  <2>1. First(s) \in s /\ Rest(s) \in SUBSET s /\ Rest(s) # s
    BY <1>3, RestSmaller
  <2>2. SumOver(f, Rest(s)) \in Int /\ f[First(s)] \in Int
    BY <1>1, <2>1
  <2>3. SumOver(f, s) = f[First(s)] + SumOver(f, Rest(s))
    BY <1>1, <1>3, SumTurns
  <2> QED BY <2>2, <2>3
<1> QED BY <1>2, <1>3

LEMMA TapsSum ==
  ASSUME NEW f, filter.size \in Nat, DOMAIN f = Taps, \A t \in Taps : f[t] \in Int
  PROVE  Sum(f) \in Int
<1>1. Sum(f) = SumOver(f, Taps)
  BY Zenon DEF Sum, FoldFunction, SumOver
<1>2. IsFiniteSet(Taps)
  <2>1. IsFiniteSet(0 .. filter.size - 1)
    BY FS_Interval
  <2> QED BY <2>1, FS_Product DEF Taps
<1> QED BY <1>1, <1>2, SumType

-----------------------------------------------------------------------------
(* Types: the values of the result *)

LEMMA FilterNumbers ==
  ASSUME filter \in readFilter
  PROVE  /\ filter.size \in Nat /\ filter.divisor \in Int
         /\ \A t \in Taps : filter.data[t] \in Int
<1>1. ASSUME NEW f \in Filters
      PROVE  /\ f.size \in Nat /\ f.divisor \in Int
             /\ \A t \in (0 .. f.size - 1) \X (0 .. f.size - 1) : f.data[t] \in Int
  <2>1. f.size \in Nat /\ f.divisor \in Int
    BY FilterAssumption
  <2>2. f.data \in [(0 .. f.size - 1) \X (0 .. f.size - 1) -> Int]
    BY FilterAssumption
  <2> QED BY <2>1, <2>2
<1>2. CASE filter \in Filters
  BY <1>1, <1>2 DEF Taps
<1>3. CASE filter \notin Filters
  <2>1. PICK d \in JunkDivisors : filter = [size |-> 0, divisor |-> d, data |-> <<>>]
    BY <1>3 DEF readFilter
  <2>2. d \in Int
    BY FilterAssumption
  <2>3. Taps = {}
    <3>1. filter.size = 0
      BY <2>1
    <3> QED BY <3>1 DEF Taps
  <2> QED BY <2>1, <2>2, <2>3
<1> QED BY <1>2, <1>3

LEMMA Quotient ==
  ASSUME NEW a \in Int, NEW b \in Int, b # 0
  PROVE  CDiv(a, b) \in Int
<1>1. AbsVal(a) \in Nat /\ AbsVal(b) \in Nat \ {0}
  BY DEF AbsVal
<1>2. \A m \in Nat, n \in Nat \ {0} : m \div n \in Int
  OBVIOUS
<1>3. AbsVal(a) \div AbsVal(b) \in Int
  BY <1>1, <1>2
<1> QED BY <1>3 DEF CDiv

LEMMA Clamped ==
  ASSUME NEW n \in Int
  PROVE  Clamp(n) \in Byte
BY DEF Clamp, Byte

\* The images at hand hold bytes where they have been written.
Painted ==
  /\ input.color \in [Rows(input.height) \X (0 .. input.width - 1) -> [Colors -> Byte]]
  /\ output.color \in [Rows(input.height) \X (0 .. input.width - 1)
                         -> [Colors -> Byte \cup {Junk}]]

\* Every value the filter computes is a byte, whatever lies outside the image.
LEMMA ComputedByte ==
  ASSUME filter \in readFilter, filter.divisor # 0, Painted,
         NEW junk \in JunkBytes, NEW r \in Int, NEW c \in Int
  PROVE  /\ [k \in Colors |-> Clamp(CDiv(Acc1(r, c, k, junk), filter.divisor))]
              \in [Colors -> Byte]
         /\ [k \in Colors |-> Clamp(CDiv(Acc2(r, c, k, junk), filter.divisor))]
              \in [Colors -> Byte]
<1>1. \A m, n, k : k \in Colors => At(m, n, k, junk) \in Int
  <2> SUFFICES ASSUME NEW m, NEW n, NEW k \in Colors PROVE At(m, n, k, junk) \in Int
    OBVIOUS
  <2>1. junk \in Int
    BY FilterAssumption DEF Byte
  <2>2. \A cell \in DOMAIN input.color : input.color[cell][k] \in Byte
    BY DEF Painted
  <2>3. \A b \in Byte : b \in Int
    BY DEF Byte
  <2> QED BY <2>1, <2>2, <2>3 DEF At
<1>2. \A m, n \in Int : m * n \in Int
  OBVIOUS
<1>3. ASSUME NEW k \in Colors
      PROVE  Acc1(r, c, k, junk) \in Int /\ Acc2(r, c, k, junk) \in Int
  <2> DEFINE f1 == [t \in Taps |-> At(r + t[1] - 1, c + t[2] - 1, k, junk) * filter.data[t]]
             f2 == [t \in Taps |-> At(r + t[1] - 1, c + t[2], k, junk) * filter.data[t]]
  <2>1. /\ DOMAIN f1 = Taps /\ \A t \in Taps : f1[t] \in Int
        /\ DOMAIN f2 = Taps /\ \A t \in Taps : f2[t] \in Int
    BY <1>1, <1>2, FilterNumbers
  <2>2. Acc1(r, c, k, junk) = Sum(f1) /\ Acc2(r, c, k, junk) = Sum(f2)
    BY Zenon DEF Acc1, Acc2
  <2> HIDE DEF f1, f2
  <2> QED BY <2>1, <2>2, TapsSum, FilterNumbers
<1>4. \A n \in Int : Clamp(CDiv(n, filter.divisor)) \in Byte
  BY Quotient, Clamped, FilterNumbers
<1> QED BY <1>3, <1>4

-----------------------------------------------------------------------------
(* Types: the files that are written *)

LEMMA Divided ==
  ASSUME NEW a \in Nat, NEW c \in Nat \ {0}
  PROVE  a \div c \in Nat /\ a % c \in 0 .. c - 1 /\ a = c * (a \div c) + (a % c)
OBVIOUS

\* A place in a file of whole lines is in one of them.
LEMMA PlaceInLine ==
  ASSUME NEW line \in Nat, NEW rows \in Nat, NEW n \in 1 .. rows * line
  PROVE  /\ line > 0
         /\ (n - 1) \div line \in 0 .. rows - 1 /\ (n - 1) % line \in 0 .. line - 1
         /\ n = line * ((n - 1) \div line) + ((n - 1) % line) + 1
<1>1. line > 0
  <2> SUFFICES ASSUME line = 0 PROVE FALSE
    OBVIOUS
  <2>1. rows * line = 0
    OBVIOUS
  <2> QED BY <2>1
<1> DEFINE q == (n - 1) \div line
           r == (n - 1) % line
<1>3. /\ q \in Nat /\ r \in 0 .. line - 1 /\ n - 1 = line * q + r
      /\ n - 1 < rows * line
  <2>1. n - 1 \in Nat /\ n - 1 < rows * line
    OBVIOUS
  <2>2. line \in Nat \ {0} /\ n - 1 \in Nat
    BY <1>1
  <2> HIDE DEF q, r
  <2> QED BY <2>1, <2>2, Divided DEF q, r
<1> HIDE DEF q, r
<1>4. q < rows
  <2> SUFFICES ASSUME q >= rows PROVE FALSE
    BY <1>3
  <2>1. PICK d \in Nat : q = rows + d
    BY <1>3
  <2>2. line * q = rows * line + line * d
    BY <2>1
  <2>3. line * d \in Nat
    OBVIOUS
  <2>4. rows * line \in Nat
    OBVIOUS
  <2> QED BY <1>3, <2>2, <2>3, <2>4
<1>5. n = line * q + r + 1
  <2>1. line * q \in Nat
    BY <1>3
  <2> QED BY <1>3, <2>1
<1>6. q \in 0 .. rows - 1
  BY <1>3, <1>4
<1>7. r \in 0 .. line - 1
  BY <1>3
<1> QED BY <1>1, <1>5, <1>6, <1>7 DEF q, r

\* An image that can be written: a line has cells only if there are lines.
Writable(width, height) ==
  width \in Nat /\ height \in Int /\ (height < 0 => width = 0)

LEMMA DataWritten ==
  ASSUME NEW width, NEW height, Writable(width, height),
         NEW pixel \in [Rows(height) \X (0 .. width - 1) -> [Colors -> Byte]]
  PROVE  LET data == bmp_24_data_write(width, height, pixel)
         IN  /\ data \in Seq(Byte)
             /\ Len(data) = AbsVal(height) * LineBytes(3 * width)
<1> DEFINE line == LineBytes(3 * width)
           rows == AbsVal(height)
           data == bmp_24_data_write(width, height, pixel)
<1>1. width \in Nat /\ height \in Int /\ (height < 0 => width = 0)
  BY DEF Writable
<1>2. rows \in Nat /\ line \in Nat /\ (width = 0 => line = 0)
  BY <1>1, LineType DEF AbsVal
<1>3. data = [n \in 1 .. rows * line |-> data[n]]
  BY DEF bmp_24_data_write
<1>4. ASSUME NEW n \in 1 .. rows * line
      PROVE  data[n] \in Byte
  <2> DEFINE y == (n - 1) \div line
             at == (n - 1) % line
             p == pixel[<<y, at \div 3>>]
  <2>1. line > 0 /\ y \in 0 .. rows - 1 /\ at \in 0 .. line - 1
    <3> HIDE DEF rows, line
    <3> QED BY <1>2, PlaceInLine
  <2>2. data[n] = IF at >= 3 * width THEN Zero
                  ELSE IF at % 3 = 0 THEN p.blue
                  ELSE IF at % 3 = 1 THEN p.green ELSE p.red
    BY DEF bmp_24_data_write
  <2>3. Zero \in Byte
    BY DEF Zero, Byte
  <2>4. ASSUME at < 3 * width
        PROVE  p \in [Colors -> Byte]
    <3>1. height >= 0 /\ rows = height
      BY <1>1, <1>2, <2>1 DEF AbsVal
    <3>2. at \div 3 \in 0 .. width - 1
      <4>1. at \in Nat
        <5> HIDE DEF at, line
        <5> QED BY <1>2, <2>1
      <4> HIDE DEF at
      <4> QED BY <1>1, <2>4, <4>1
    <3>3. y \in Rows(height)
      BY <2>1, <3>1 DEF Rows
    <3> HIDE DEF y, at
    <3> QED BY <3>2, <3>3
  <2>5. ASSUME p \in [Colors -> Byte]
        PROVE  p.blue \in Byte /\ p.green \in Byte /\ p.red \in Byte
    <3> HIDE DEF p
    <3> QED BY <2>5 DEF Colors
  <2>6. CASE at >= 3 * width
    <3> HIDE DEF at, p, data
    <3> QED BY <2>2, <2>3, <2>6
  <2>7. CASE ~ (at >= 3 * width)
    <3>1. at < 3 * width
      <4>1. at \in Int
        <5> HIDE DEF at, line
        <5> QED BY <1>2, <2>1
      <4> HIDE DEF at
      <4> QED BY <1>1, <2>7, <4>1
    <3> HIDE DEF at, p, data
    <3> QED BY <2>2, <2>4, <2>5, <2>7, <3>1
  <2> QED BY <2>6, <2>7
<1>5. rows * line \in Nat
  <2> HIDE DEF rows, line
  <2> QED BY <1>2
<1> DEFINE N == rows * line
<1> HIDE DEF data, rows, line, N
<1>6. data \in [1 .. N -> Byte]
  BY <1>3, <1>4, Zenon DEF N
<1>7. N \in Nat
  BY <1>5 DEF N
<1>8. data \in Seq(Byte) /\ Len(data) = N
  BY <1>6, <1>7
<1> QED BY <1>8 DEF data, N, rows, line

LEMMA FileWritten ==
  ASSUME NEW width, NEW height, Writable(width, height),
         NEW pixel \in [Rows(height) \X (0 .. width - 1) -> [Colors -> Byte]]
  PROVE  LET f == bmp_24_write(width, height, pixel)
         IN  f \in Seq(Byte) /\ Len(f) = 54 + AbsVal(height) * LineBytes(3 * width)
<1> DEFINE h == Headers(width, height)
           data == bmp_24_data_write(width, height, pixel)
<1>1. data \in Seq(Byte) /\ Len(data) = AbsVal(height) * LineBytes(3 * width)
  BY DataWritten
<1>2. h \in Seq(Byte) /\ Len(h) = 54
  BY HeadersWritten DEF Writable
<1>3. bmp_24_write(width, height, pixel) = h \o data
  BY DEF bmp_24_write, Headers
<1> HIDE DEF h, data
<1>4. h \o data \in Seq(Byte) /\ Len(h \o data) = Len(h) + Len(data)
  <2>1. h \in Seq(Byte) /\ data \in Seq(Byte)
    BY <1>1, <1>2
  <2> QED BY <2>1, Appended
<1> QED BY <1>1, <1>2, <1>3, <1>4

-----------------------------------------------------------------------------
(* Types: the state *)

LEMMA FileType ==
  ASSUME TypeOK, NEW name, Exists(name)
  PROVE  File(name) \in Seq(Byte)
<1>1. CASE name \in DOMAIN written
  BY <1>1 DEF File, TypeOK
<1>2. CASE name \notin DOMAIN written
  <2>1. Images[name] \in Seq(Byte)
    BY <1>2, FilterAssumption DEF Exists
  <2> QED BY <1>2, <2>1 DEF File
<1> QED BY <1>1, <1>2

\* The headers of a file of bytes.
LEMMA BytesRead ==
  ASSUME NEW f \in Seq(Byte)
  PROVE  HeaderBytes(f) /\ Len(f) \in Nat /\ (\A n \in 1 .. Len(f) : f[n] \in Byte)
<1>1. Len(f) \in Nat /\ \A n \in 1 .. Len(f) : f[n] \in Byte
  OBVIOUS
<1>2. ASSUME Len(f) >= 54, NEW i \in 1 .. 54
      PROVE  f[i] \in Byte
  <2>1. i \in 1 .. Len(f)
    BY <1>1, <1>2
  <2> QED BY <1>1, <2>1
<1> QED BY <1>1, <1>2 DEF HeaderBytes

\* What the reader takes from a file it accepts.
LEMMA PixelsRead ==
  ASSUME NEW f \in Seq(Byte), ~ bmp_read(f).error, ~ bmp_read(f).shared
  PROVE  LET image == bmp_read(f)
             h2 == bmp_header2_read(f)
         IN  /\ image.width \in Nat /\ image.height \in Int
             /\ image.width = h2.width /\ image.height = h2.height
             /\ h2.bitsperpixel = 24 /\ h2.colorsused \in Nat
             /\ image.pixel = bmp_24_data_read(f, PaletteEnd(h2.colorsused), h2.width,
                                               h2.height).pixel
             /\ ~ bmp_24_data_read(f, PaletteEnd(h2.colorsused), h2.width, h2.height).error
<1> DEFINE h2 == bmp_header2_read(f)
           data == bmp_24_data_read(f, PaletteEnd(h2.colorsused), h2.width, h2.height)
<1>1. /\ bmp_read(f).width = h2.width /\ bmp_read(f).height = h2.height
      /\ bmp_read(f).shared = (h2.bitsperpixel = 8)
      /\ h2.width \in Nat /\ h2.height \in Int
  BY BytesRead, HeaderRead
<1>2. h2.bitsperpixel # 8
  BY <1>1
<1>3. ~ Len(f) < Header1Size + Header2Size
  BY DEF bmp_read, Failed
<1>4. h2.colorsused \in Nat
  <2>1. Header1Size + Header2Size = 54 /\ Header1Size + 32 = 46
    BY DEF Header1Size, Header2Size
  <2>2. \A n \in 1 .. 54 : f[n] \in Byte
    <3>1. Len(f) >= 54
      BY <1>3, <2>1, BytesRead
    <3> QED BY <3>1, BytesRead DEF HeaderBytes
  <2>3. f[46 + 1] \in Byte /\ f[46 + 2] \in Byte /\ f[46 + 3] \in Byte /\ f[46 + 4] \in Byte
    BY <2>2
  <2>4. u_long_int_read(f, 46) \in Nat
    BY <2>3, LongRead
  <2> QED BY <2>1, <2>4 DEF bmp_header2_read
<1>5. /\ h2.bitsperpixel = 24
      /\ bmp_read(f) = IF data.error THEN Failed
                       ELSE [error |-> FALSE, width |-> h2.width, height |-> h2.height,
                             pixel |-> data.pixel, shared |-> h2.bitsperpixel = 8]
  <2> HIDE DEF h2
  <2>1. bmp_read(f) # Failed
    BY DEF Failed
  <2> QED BY <1>2, <2>1, Zenon DEF bmp_read, Failed, h2
<1> HIDE DEF h2, data
<1>6. ~ data.error
  BY <1>5 DEF Failed
<1> QED BY <1>1, <1>4, <1>5, <1>6 DEF h2, data

\* The byte that a reader takes for colour k of a cell, from position p on.
ByteAt(f, p, width, cell, k) ==
  LET n == p + cell[1] * LineBytes(3 * width) + 3 * cell[2] + k + 1
  IN  IF n <= Len(f) THEN f[n] ELSE Junk

LEMMA CellRead ==
  ASSUME NEW f, NEW p, NEW width \in Nat, NEW height \in Int,
         NEW cell \in Rows(height) \X (0 .. width - 1)
  PROVE  /\ height >= 0
         /\ bmp_24_data_read(f, p, width, height).pixel[cell]
              = [blue  |-> ByteAt(f, p, width, cell, 0),
                 green |-> ByteAt(f, p, width, cell, 1),
                 red   |-> ByteAt(f, p, width, cell, 2)]
<1> PICK r \in Rows(height), c \in 0 .. width - 1 : cell = <<r, c>>
  OBVIOUS
<1>1. height >= 0 /\ r \in 0 .. AbsVal(height) - 1
  BY DEF Rows, AbsVal
<1>2. cell \in Cells(width, height)
  BY <1>1 DEF Cells
<1> DEFINE byte == Lines(f, p, 3, width, height).byte
<1>3. ASSUME NEW k \in 0 .. 2
      PROVE  byte[cell][k] = ByteAt(f, p, width, cell, k)
  <2>1. 3 - 1 = 2
    OBVIOUS
  <2> QED BY <1>2, <1>3, <2>1, Zenon DEF Lines, ByteAt
<1>4. bmp_24_data_read(f, p, width, height).pixel[cell]
        = [blue |-> byte[cell][0], green |-> byte[cell][1], red |-> byte[cell][2]]
  BY <1>2, Zenon DEF bmp_24_data_read
<1>5. 0 \in 0 .. 2 /\ 1 \in 0 .. 2 /\ 2 \in 0 .. 2
  OBVIOUS
<1> HIDE DEF byte
<1> QED BY <1>1, <1>3, <1>4, <1>5, Zenon

\* A place behind the headers and the palette, in line r and column c.
LEMMA PlaceType ==
  ASSUME NEW p \in Nat, NEW w \in Nat, NEW r \in Nat, NEW c \in Nat, NEW k \in Nat
  PROVE  p + r * LineBytes(3 * w) + 3 * c + k + 1 \in Nat \ {0}
<1>1. LineBytes(3 * w) \in Nat
  BY LineType
<1>2. r * LineBytes(3 * w) \in Nat
  BY <1>1
<1> DEFINE m == r * LineBytes(3 * w)
<1> HIDE DEF m
<1> QED BY <1>2 DEF m

LEMMA CopiedType ==
  ASSUME NEW f \in Seq(Byte), ~ bmp_read(f).error, ~ bmp_read(f).shared,
         NEW junk \in JunkBytes
  PROVE  LET image == bmp_read(f)
         IN  Copied(image, junk).color
               \in [Rows(image.height) \X (0 .. image.width - 1) -> [Colors -> Byte]]
<1> DEFINE image == bmp_read(f)
           h2 == bmp_header2_read(f)
           p == PaletteEnd(h2.colorsused)
           w == image.width
           h == image.height
<1>1. w \in Nat /\ h \in Int /\ p \in Nat
      /\ image.pixel = bmp_24_data_read(f, p, w, h).pixel
  <2>1. w \in Nat /\ h \in Int /\ w = h2.width /\ h = h2.height /\ h2.colorsused \in Nat
        /\ image.pixel = bmp_24_data_read(f, p, w, h).pixel
    BY PixelsRead
  <2> HIDE DEF h2
  <2>2. PaletteEnd(h2.colorsused) \in Nat
    BY <2>1 DEF PaletteEnd, Header1Size, Header2Size
  <2> QED BY <2>1, <2>2
<1> HIDE DEF p, image
<1>2. ASSUME NEW cell \in Rows(h) \X (0 .. w - 1), NEW k \in Colors
      PROVE  Resolve(image.pixel[cell][k], junk) \in Byte
  <2>1. image.pixel[cell] = [blue  |-> ByteAt(f, p, w, cell, 0),
                             green |-> ByteAt(f, p, w, cell, 1),
                             red   |-> ByteAt(f, p, w, cell, 2)]
    <3> HIDE DEF w, h
    <3>1. bmp_24_data_read(f, p, w, h).pixel[cell]
            = [blue  |-> ByteAt(f, p, w, cell, 0),
               green |-> ByteAt(f, p, w, cell, 1),
               red   |-> ByteAt(f, p, w, cell, 2)]
      BY <1>1, CellRead
    <3> QED BY <1>1, <3>1
  <2>2. cell[1] \in Nat /\ cell[2] \in Nat
    BY <1>1 DEF Rows
  <2>3. ASSUME NEW i \in Nat PROVE Resolve(ByteAt(f, p, w, cell, i), junk) \in Byte
    <3> DEFINE n == p + cell[1] * LineBytes(3 * w) + 3 * cell[2] + i + 1
    <3>1. n \in Nat \ {0}
      BY <1>1, <2>2, PlaceType
    <3>2. junk \in Byte /\ Len(f) \in Nat
      BY FilterAssumption, BytesRead
    <3>3. ByteAt(f, p, w, cell, i) = IF n <= Len(f) THEN f[n] ELSE Junk
      BY DEF ByteAt
    <3> HIDE DEF n
    <3>4. n <= Len(f) => f[n] \in Byte
      BY <3>1, <3>2, BytesRead
    <3>5. ByteAt(f, p, w, cell, i) \in Byte \cup {Junk}
      BY <3>3, <3>4
    <3> QED BY <3>2, <3>5 DEF Resolve
  <2>4. image.pixel[cell][k] \in {ByteAt(f, p, w, cell, 0), ByteAt(f, p, w, cell, 1),
                                 ByteAt(f, p, w, cell, 2)}
    BY <1>2, <2>1 DEF Colors
  <2> QED BY <2>3, <2>4
<1>3. Copied(image, junk).color
        = [cell \in Rows(h) \X (0 .. w - 1) |->
             [k \in Colors |-> Resolve(image.pixel[cell][k], junk)]]
  BY DEF Copied
<1>4. Copied(image, junk).color \in [Rows(h) \X (0 .. w - 1) -> [Colors -> Byte]]
  <2> DEFINE S == Rows(h) \X (0 .. w - 1)
  <2> HIDE DEF S
  <2> QED BY <1>2, <1>3 DEF S
<1> QED BY <1>4 DEF image

LEMMA SavedType ==
  ASSUME Writable(output.width, output.height), NEW junk \in JunkBytes,
         output.color \in [Rows(output.height) \X (0 .. output.width - 1)
                             -> [Colors -> Byte \cup {Junk}]]
  PROVE  Saved(junk) \in Seq(Byte)
<1> DEFINE pixel == [cell \in DOMAIN output.color |->
                       [k \in Colors |-> Resolve(output.color[cell][k], junk)]]
<1>1. \A b \in Byte \cup {Junk} : Resolve(b, junk) \in Byte
  <2>1. junk \in Byte
    BY FilterAssumption
  <2> QED BY <2>1 DEF Resolve
<1>2. pixel \in [Rows(output.height) \X (0 .. output.width - 1) -> [Colors -> Byte]]
  BY <1>1
<1>3. Saved(junk) = bmp_24_write(output.width, output.height, pixel)
  BY DEF Saved
<1>4. bmp_24_write(output.width, output.height, pixel) \in Seq(Byte)
  <2> HIDE DEF pixel
  <2> QED BY <1>2, FileWritten
<1> QED BY <1>3, <1>4

\* The types, and what they rest on: while there is an image its colours are known,
\* and images are counted when they are filtered, each once.
TypeInv ==
  /\ TypeOK
  /\ pc \in {"apply", "write"} => inNum <= Len(args) /\ Painted
  /\ pc \in {"next", "apply", "end"} => samples < inNum
  /\ pc = "write" => samples <= inNum

LEMMA LinesOfNames ==
  ASSUME TypeOK
  PROVE  Len(args) \in Nat /\ inNum \in Nat /\ samples \in Nat /\ inNum <= Len(args) + 1
<1>1. Len(args) \in Nat
  BY FilterAssumption DEF TypeOK
<1> QED BY <1>1 DEF TypeOK

LEMMA InitTypeInv == Init => TypeInv
<1> SUFFICES ASSUME Init PROVE TypeInv
  OBVIOUS
<1>1. Len(args) \in Nat
  BY FilterAssumption DEF Init
<1>2. inNum \in 1 .. Len(args) + 1 /\ samples \in 0 .. Len(args) /\ samples < inNum
  BY <1>1 DEF Init
<1>3. ImageType(NoImage, Byte) /\ ImageType(NoImage, Byte \cup {Junk})
  BY DEF ImageType, NoImage
<1>4. \A name \in DOMAIN written : written[name] \in Seq(Byte)
  BY DEF Init
<1>5. TypeOK
  BY <1>2, <1>3, <1>4 DEF Init, TypeOK
<1> QED BY <1>2, <1>5 DEF Init, TypeInv

\* The next image.
LEMMA NextImageType ==
  ASSUME TypeOK, NextImage, UNCHANGED <<args, filter, samples>>, inNum <= Len(args),
         samples <= inNum, \A name \in DOMAIN written' : written'[name] \in Seq(Byte)
  PROVE  TypeInv'
<1>1. ImageType(NoImage, Byte) /\ ImageType(NoImage, Byte \cup {Junk})
  BY DEF ImageType, NoImage
<1>2. /\ inNum' = inNum + 1 /\ pc' = "next" /\ input' = NoImage /\ output' = NoImage
      /\ row' = 1 /\ col' = 1
  BY DEF NextImage
<1>3. inNum' \in 1 .. Len(args') + 1 /\ samples' \in 0 .. Len(args') /\ samples' < inNum'
  BY <1>2, LinesOfNames DEF TypeOK
<1>4. /\ args' \in CommandLines /\ filter' \in readFilter'
      /\ ImageType(input', Byte) /\ ImageType(output', Byte \cup {Junk})
  BY <1>1, <1>2 DEF TypeOK, readFilter
<1>5. TypeOK'
  BY <1>2, <1>3, <1>4 DEF TypeOK
<1> QED BY <1>2, <1>3, <1>5 DEF TypeInv

LEMMA AbortType ==
  ASSUME TypeOK, Abort
  PROVE  TypeInv'
<1>1. /\ pc' = "aborted"
      /\ UNCHANGED <<args, inNum, written, filter, input, output, row, col, samples>>
  BY DEF Abort
<1>2. TypeOK'
  BY <1>1 DEF TypeOK, readFilter
<1> QED BY <1>1, <1>2 DEF TypeInv

LEMMA ReadType ==
  ASSUME TypeInv, FilterInv, cs1300bmp_readfile
  PROVE  TypeInv'
<1> DEFINE f == File(args[inNum])
           image == bmp_read(f)
<1>1. /\ pc = "next" /\ pc' = "apply" /\ inNum <= Len(args) /\ Exists(args[inNum])
      /\ ~ image.error /\ ~ image.shared
      /\ UNCHANGED <<args, inNum, written, filter, row, col, samples>>
  BY DEF cs1300bmp_readfile, DeletedTwice
<1>2. f \in Seq(Byte)
  BY <1>1, FileType DEF TypeInv
<1>3. PICK junk \in JunkBytes : input' = Copied(image, junk)
  BY DEF cs1300bmp_readfile
<1>4. output' = Fresh(image.width, image.height)
  BY DEF cs1300bmp_readfile
<1>5. image.width \in Nat /\ image.height \in Int
  BY <1>1, <1>2, PixelsRead
<1>6. Copied(image, junk).color
        \in [Rows(image.height) \X (0 .. image.width - 1) -> [Colors -> Byte]]
  <2> HIDE DEF f
  <2> QED BY <1>1, <1>2, CopiedType
<1> HIDE DEF image, f
<1>7. input'.width = image.width /\ input'.height = image.height
  BY <1>3 DEF Copied
<1>8. /\ output'.width = image.width /\ output'.height = image.height
      /\ output'.color \in [Rows(image.height) \X (0 .. image.width - 1)
                              -> [Colors -> Byte \cup {Junk}]]
  BY <1>4 DEF Fresh
<1>9. ImageType(input', Byte) /\ ImageType(output', Byte \cup {Junk}) /\ Painted'
  <2>1. input'.color
          \in [Rows(image.height) \X (0 .. image.width - 1) -> [Colors -> Byte]]
    BY <1>3, <1>6
  <2> QED BY <1>5, <1>7, <1>8, <2>1 DEF ImageType, Painted
<1>10. TypeOK'
  BY <1>1, <1>9 DEF TypeInv, TypeOK, readFilter
<1> QED BY <1>1, <1>9, <1>10 DEF TypeInv

LEMMA PairType ==
  ASSUME TypeInv, FilterInv, FilterPair
  PROVE  TypeInv'
<1> DEFINE w == input.width
           h == input.height
           S == Rows(h) \X (0 .. w - 1)
           V == [Colors -> Byte \cup {Junk}]
<1>1. /\ SizeInv /\ LoopInv /\ filter \in readFilter /\ Painted /\ TypeOK
      /\ pc = "apply" /\ pc' = "apply" /\ col' = col + 2
      /\ UNCHANGED <<args, inNum, written, filter, input, row, samples>>
      /\ filter.divisor # 0 /\ inNum <= Len(args) /\ samples < inNum
  BY DEF FilterInv, FilesInv, FilterPair, TypeInv
<1>2. w \in Nat /\ h \in Int /\ row \in Nat /\ col \in Nat
  BY <1>1 DEF SizeInv, LoopInv
<1>3. PICK junk \in JunkBytes :
        output' = [output EXCEPT !.color =
         [@ EXCEPT ![<<row, col>>] =
                     [k \in Colors |-> Clamp(CDiv(Acc1(row, col, k, junk), filter.divisor))],
                   ![<<row, col + 1>>] =
                     [k \in Colors |-> Clamp(CDiv(Acc2(row, col, k, junk), filter.divisor))]]]
  BY DEF FilterPair
<1> DEFINE v1 == [k \in Colors |-> Clamp(CDiv(Acc1(row, col, k, junk), filter.divisor))]
           v2 == [k \in Colors |-> Clamp(CDiv(Acc2(row, col, k, junk), filter.divisor))]
           new == [output.color EXCEPT ![<<row, col>>] = v1, ![<<row, col + 1>>] = v2]
<1>4. v1 \in V /\ v2 \in V
  <2>1. v1 \in [Colors -> Byte] /\ v2 \in [Colors -> Byte]
    BY <1>1, <1>2, ComputedByte
  <2> HIDE DEF v1, v2
  <2> QED BY <2>1
<1>5. output' = [width |-> w, height |-> h, color |-> new]
  <2>1. output = [width |-> w, height |-> h, color |-> output.color]
    BY <1>1 DEF LoopInv
  <2>2. output' = [output EXCEPT !.color = new]
    BY <1>3
  <2> HIDE DEF new
  <2> QED BY <2>1, <2>2
<1>6. new \in [S -> V]
  <2>1. output.color \in [S -> V]
    BY <1>1 DEF Painted
  <2> HIDE DEF v1, v2, S, V
  <2> QED BY <1>4, <2>1
<1> HIDE DEF new, v1, v2
<1>7. Painted' /\ ImageType(output', Byte \cup {Junk})
  BY <1>1, <1>2, <1>5, <1>6 DEF Painted, ImageType
<1>8. col' \in Int
  BY <1>1, <1>2
<1>9. TypeOK'
  BY <1>1, <1>7, <1>8 DEF TypeOK, readFilter
<1> QED BY <1>1, <1>7, <1>9 DEF TypeInv

LEMMA WriteType ==
  ASSUME TypeInv, FilterInv, cs1300bmp_writefile
  PROVE  TypeInv'
<1> DEFINE name == OutputName(args[inNum])
<1>1. /\ SizeInv /\ LoopInv /\ Painted /\ TypeOK /\ NextImage /\ ColorBytes >= 0
      /\ UNCHANGED <<args, filter, samples>> /\ inNum <= Len(args) /\ samples <= inNum
  BY DEF FilterInv, cs1300bmp_writefile, TypeInv
<1>2. output.width = input.width /\ output.height = input.height
  BY <1>1 DEF LoopInv
<1>3. Writable(output.width, output.height)
  <2>1. \A m \in Nat, n \in Int : m * n >= 0 /\ n < 0 => m = 0
    <3> SUFFICES ASSUME NEW m \in Nat, NEW n \in Int, n < 0, m # 0 PROVE m * n < 0
      OBVIOUS
    <3> QED OBVIOUS
  <2> QED BY <1>1, <1>2, <2>1 DEF SizeInv, ColorBytes, Writable
<1>4. PICK junk \in JunkBytes :
        written' = [n \in DOMAIN written \cup {name} |->
                      IF n = name THEN Saved(junk) ELSE written[n]]
  BY DEF cs1300bmp_writefile
<1>5. Saved(junk) \in Seq(Byte)
  BY <1>1, <1>2, <1>3, SavedType DEF Painted
<1> HIDE DEF name
<1>6. \A n \in DOMAIN written' : written'[n] \in Seq(Byte)
  BY <1>1, <1>4, <1>5 DEF TypeOK
<1> QED BY <1>1, <1>6, NextImageType

LEMMA NextTypeInv ==
  ASSUME TypeInv, FilterInv, [Next]_vars
  PROVE  TypeInv'
<1>1. TypeOK
  BY DEF TypeInv
<1>2. ASSUME UNCHANGED <<args, inNum, written, filter, input, output, samples>>,
             row' \in Int, col' \in Int, pc' = "apply", pc = "apply"
      PROVE  TypeInv'
  <2>1. TypeOK'
    BY <1>1, <1>2 DEF TypeOK, readFilter
  <2>2. Painted'
    BY <1>2 DEF TypeInv, Painted
  <2> QED BY <1>2, <2>1, <2>2 DEF TypeInv
<1>3. CASE ReadFails
  BY <1>1, <1>3, NextImageType, LinesOfNames DEF ReadFails, TypeInv, TypeOK
<1>4. CASE cs1300bmp_readfile
  BY <1>4, ReadType
<1>5. CASE ReadAborts \/ DivideByZero \/ WriteAborts
  BY <1>1, <1>5, AbortType DEF ReadAborts, DivideByZero, WriteAborts
<1>6. CASE FilterPair
  BY <1>6, PairType
<1>7. CASE NextRow
  <2>1. row' \in Int
    BY <1>1, <1>7 DEF NextRow, TypeOK
  <2> QED BY <1>2, <1>7, <2>1 DEF NextRow
<1>8. CASE Filtered
  <2>1. /\ pc = "apply" /\ pc' = "write" /\ samples' = samples + 1
        /\ UNCHANGED <<args, inNum, written, filter, input, output, row, col>>
    BY <1>8 DEF Filtered
  <2>2. samples' \in 0 .. Len(args) /\ samples' <= inNum
    BY <1>1, <2>1, LinesOfNames DEF TypeInv
  <2>3. TypeOK'
    BY <1>1, <2>1, <2>2 DEF TypeOK, readFilter
  <2>4. Painted' /\ inNum <= Len(args)
    BY <2>1 DEF TypeInv, Painted
  <2> QED BY <2>1, <2>2, <2>3, <2>4 DEF TypeInv
<1>9. CASE cs1300bmp_writefile
  BY <1>9, WriteType
<1>10. CASE WriteFails
  BY <1>1, <1>10, NextImageType DEF WriteFails, TypeInv, TypeOK
<1>11. CASE Return
  <2>1. /\ pc = "next" /\ pc' = "end"
        /\ UNCHANGED <<args, inNum, written, filter, input, output, row, col, samples>>
    BY <1>11 DEF Return
  <2>2. TypeOK'
    BY <1>1, <2>1 DEF TypeOK, readFilter
  <2> QED BY <2>1, <2>2 DEF TypeInv
<1>12. CASE UNCHANGED vars
  <2>1. /\ pc' = pc
        /\ UNCHANGED <<args, inNum, written, filter, input, output, row, col, samples>>
    BY <1>12 DEF vars
  <2>2. TypeOK' /\ (Painted' <=> Painted)
    BY <1>1, <2>1 DEF TypeOK, readFilter, Painted
  <2> QED BY <2>1, <2>2 DEF TypeInv
<1> QED
  BY <1>3, <1>4, <1>5, <1>6, <1>7, <1>8, <1>9, <1>10, <1>11, <1>12 DEF Next

LEMMA TypeInvariant == Spec => []TypeInv
BY InitTypeInv, NextTypeInv, FilterInvariant, PTL DEF Spec

\* The colours of the images are bytes, those of the result once they are written, for
\* images and filters of every size; every file that is written is a sequence of bytes,
\* and no image is counted twice.
THEOREM TypesHold == Spec => []TypeOK
<1>1. TypeInv => TypeOK
  BY DEF TypeInv
<1> QED BY <1>1, TypeInvariant, PTL

-----------------------------------------------------------------------------
(* The format of the files that are written.  bmp_byte_swap is a hypothesis  *)
(* from here on: the variable of the code is never changed from true, and a  *)
(* BMP file has its low bytes first.                                         *)

\* The number of values of four bytes, and of an int.
ULong32 == 65536 * 65536
IntMax  == 32768 * 65536

\* A file holds the bytes s from position p on.
Holds(f, p, s) == /\ p + Len(s) <= Len(f)
                  /\ \A n \in 1 .. Len(s) : f[p + n] = s[n]

LEMMA HoldsParts ==
  ASSUME NEW s \in Seq(Byte), NEW t \in Seq(Byte)
  PROVE  Holds(s \o t, 0, s) /\ Holds(s \o t, Len(s), t)
<1>1. /\ Len(s \o t) = Len(s) + Len(t) /\ Len(s) \in Nat /\ Len(t) \in Nat
      /\ \A n \in 1 .. Len(s) : (s \o t)[n] = s[n]
      /\ \A n \in 1 .. Len(t) : (s \o t)[Len(s) + n] = t[n]
  OBVIOUS
<1> QED BY <1>1 DEF Holds

LEMMA HoldsLeft ==
  ASSUME NEW s \in Seq(Byte), NEW t \in Seq(Byte), NEW u \in Seq(Byte), NEW p \in Nat,
         Holds(s, p, u)
  PROVE  Holds(s \o t, p, u)
<1>1. /\ Len(s \o t) = Len(s) + Len(t) /\ Len(s) \in Nat /\ Len(t) \in Nat /\ Len(u) \in Nat
      /\ \A n \in 1 .. Len(s) : (s \o t)[n] = s[n]
  OBVIOUS
<1>2. \A n \in 1 .. Len(u) : p + n \in 1 .. Len(s)
  BY <1>1 DEF Holds
<1> QED BY <1>1, <1>2 DEF Holds

LEMMA HoldsRight ==
  ASSUME NEW s \in Seq(Byte), NEW t \in Seq(Byte), NEW u \in Seq(Byte), NEW p \in Nat,
         Holds(t, p, u), NEW q \in Nat, q = Len(s) + p
  PROVE  Holds(s \o t, q, u)
<1>1. /\ Len(s \o t) = Len(s) + Len(t) /\ Len(s) \in Nat /\ Len(t) \in Nat /\ Len(u) \in Nat
      /\ \A n \in 1 .. Len(t) : (s \o t)[Len(s) + n] = t[n]
  OBVIOUS
<1>2. \A n \in 1 .. Len(u) : p + n \in 1 .. Len(t)
  BY <1>1 DEF Holds
<1>3. ASSUME NEW n \in 1 .. Len(u) PROVE (s \o t)[q + n] = u[n]
  <2>1. (s \o t)[Len(s) + (p + n)] = t[p + n]
    BY <1>1, <1>2
  <2>2. Len(s) + (p + n) = q + n
    BY <1>1
  <2>3. t[p + n] = u[n]
    BY DEF Holds
  <2> QED BY <2>1, <2>2, <2>3
<1>4. q + Len(u) <= Len(s \o t)
  BY <1>1 DEF Holds
<1> QED BY <1>3, <1>4 DEF Holds

\* Numbers, low byte first.
LEMMA ShortBytes ==
  ASSUME bmp_byte_swap, NEW n \in Nat, n <= 65535
  PROVE  u_short_int_write(n) = <<n % 256, n \div 256>>
<1>1. (n \div 256) % 256 = n \div 256
  OBVIOUS
<1> QED BY <1>1 DEF u_short_int_write

LEMMA FourBytes ==
  ASSUME NEW l \in Seq(Byte), NEW h \in Seq(Byte), Len(l) = 2, Len(h) = 2
  PROVE  /\ Len(l \o h) = 4 /\ (l \o h)[1] = l[1] /\ (l \o h)[2] = l[2]
         /\ (l \o h)[3] = h[1] /\ (l \o h)[4] = h[2]
<1>1. Holds(l \o h, 0, l) /\ Holds(l \o h, 2, h) /\ Len(l \o h) = 4
  <2>1. Holds(l \o h, 0, l) /\ Holds(l \o h, Len(l), h)
    BY HoldsParts
  <2>2. Len(l \o h) = Len(l) + Len(h)
    BY Appended
  <2> QED BY <2>1, <2>2
<1>2. 1 \in 1 .. 2 /\ 2 \in 1 .. 2 /\ 2 + 1 = 3 /\ 2 + 2 = 4 /\ 0 + 1 = 1 /\ 0 + 2 = 2
  OBVIOUS
<1> DEFINE f == l \o h
<1> HIDE DEF f
<1>3. /\ \A n \in 1 .. 2 : f[0 + n] = l[n]
      /\ \A n \in 1 .. 2 : f[2 + n] = h[n]
  BY <1>1, Zenon DEF Holds, f
<1>4. f[0 + 1] = l[1] /\ f[0 + 2] = l[2] /\ f[2 + 1] = h[1] /\ f[2 + 2] = h[2]
  BY <1>2, <1>3, Zenon
<1>5. Len(f) = 4 /\ f[1] = l[1] /\ f[2] = l[2] /\ f[3] = h[1] /\ f[4] = h[2]
  BY <1>1, <1>2, <1>4 DEF f
<1> QED BY <1>5 DEF f

LEMMA ULongBytes ==
  ASSUME bmp_byte_swap, NEW n \in Nat, n < ULong32
  PROVE  \E b1, b2, b3, b4 \in Byte :
            /\ LET s == u_long_int_write(n)
               IN  Len(s) = 4 /\ s[1] = b1 /\ s[2] = b2 /\ s[3] = b3 /\ s[4] = b4
            /\ b1 + 256 * b2 + 65536 * b3 + 16777216 * b4 = n
            /\ n < IntMax => b4 < 128
<1> DEFINE hi == n \div 65536
           lo == n % 65536
<1>1. /\ hi \in Nat /\ hi <= 65535 /\ lo \in Nat /\ lo <= 65535
      /\ n = 65536 * hi + lo
  <2>1. hi \in Nat /\ hi <= 65535
    BY DEF ULong32
  <2>2. lo \in Nat /\ lo <= 65535
    OBVIOUS
  <2>3. n = 65536 * hi + lo
    OBVIOUS
  <2> HIDE DEF hi, lo
  <2> QED BY <2>1, <2>2, <2>3
<1>2. u_long_int_write(n) = u_short_int_write(lo) \o u_short_int_write(hi)
  <2>1. \A m \in Nat : m <= 65535 => m % 65536 = m
    OBVIOUS
  <2> HIDE DEF hi, lo
  <2>2. hi % 65536 = hi
    BY <1>1, <2>1
  <2> QED BY <2>2 DEF u_long_int_write, WriteHalves, hi, lo
<1> HIDE DEF hi, lo
<1>3. n < IntMax => hi < 32768
  BY <1>1 DEF IntMax
<1> DEFINE b1 == lo % 256
           b2 == lo \div 256
           b3 == hi % 256
           b4 == hi \div 256
<1>4. /\ b1 \in Byte /\ b2 \in Byte /\ b3 \in Byte /\ b4 \in Byte
      /\ lo = 256 * b2 + b1 /\ hi = 256 * b4 + b3
  <2>1. \A m \in Nat : m <= 65535 => m % 256 \in Byte
    BY DEF Byte
  <2>2. \A m \in Nat : m <= 65535 => m \div 256 \in Byte
    BY DEF Byte
  <2>3. \A m \in Nat : m <= 65535 => m = 256 * (m \div 256) + (m % 256)
    OBVIOUS
  <2> QED BY <1>1, <2>1, <2>2, <2>3
<1>5. u_short_int_write(lo) = <<b1, b2>> /\ u_short_int_write(hi) = <<b3, b4>>
  <2>1. u_short_int_write(lo) = <<b1, b2>>
    BY <1>1, ShortBytes
  <2>2. u_short_int_write(hi) = <<b3, b4>>
    BY <1>1, ShortBytes
  <2> QED BY <2>1, <2>2
<1> HIDE DEF b1, b2, b3, b4
<1>6. LET s == u_long_int_write(n)
      IN  Len(s) = 4 /\ s[1] = b1 /\ s[2] = b2 /\ s[3] = b3 /\ s[4] = b4
  <2> DEFINE l == <<b1, b2>>
             h == <<b3, b4>>
  <2>1. /\ l \in Seq(Byte) /\ Len(l) = 2 /\ l[1] = b1 /\ l[2] = b2
        /\ h \in Seq(Byte) /\ Len(h) = 2 /\ h[1] = b3 /\ h[2] = b4
    BY <1>4
  <2>2. u_long_int_write(n) = l \o h
    BY <1>2, <1>5
  <2> HIDE DEF l, h
  <2>3. /\ Len(l \o h) = 4 /\ (l \o h)[1] = l[1] /\ (l \o h)[2] = l[2]
        /\ (l \o h)[3] = h[1] /\ (l \o h)[4] = h[2]
    BY <2>1, FourBytes
  <2> QED BY <2>1, <2>2, <2>3
<1>7. b1 + 256 * b2 + 65536 * b3 + 16777216 * b4 = n
  BY <1>1, <1>4 DEF Byte
<1>8. n < IntMax => b4 < 128
  BY <1>1, <1>3, <1>4 DEF Byte
<1> QED BY <1>4, <1>6, <1>7, <1>8

LEMMA LongAsULong ==
  ASSUME NEW n \in Nat, n < ULong32
  PROVE  long_int_write(n) = u_long_int_write(n)
<1>1. AbsVal(n) = n /\ AbsVal(65536) = 65536
  BY DEF AbsVal
<1>2. CDiv(n, 65536) = n \div 65536
  BY <1>1 DEF CDiv
<1>3. CMod(n, 65536) = n % 65536
  BY <1>2 DEF CMod
<1>4. n \div 65536 \in Nat /\ n % 65536 \in Nat /\ n % 65536 < 65536
  <2>1. n \div 65536 \in Nat
    OBVIOUS
  <2>2. n % 65536 \in Nat /\ n % 65536 < 65536
    OBVIOUS
  <2> QED BY <2>1, <2>2
<1>5. (n % 65536) % 65536 = n % 65536
  BY <1>4
<1> DEFINE hi == n \div 65536
           lo == n % 65536
<1> HIDE DEF hi, lo
<1>6. ~ (hi < 0) /\ ~ (lo < 0) /\ lo % 65536 = lo
  BY <1>4, <1>5 DEF hi, lo
<1> QED BY <1>2, <1>3, <1>6 DEF long_int_write, u_long_int_write, hi, lo

\* What is written is read.
LEMMA ShortBack ==
  ASSUME bmp_byte_swap, NEW n \in Nat, n <= 65535, NEW f, NEW p \in Nat,
         Holds(f, p, u_short_int_write(n))
  PROVE  u_short_int_read(f, p) = n /\ f[p + 1] = n % 256 /\ f[p + 2] = n \div 256
<1> DEFINE a == n % 256
           b == n \div 256
<1>1. n = b * 256 + a
  OBVIOUS
<1>2. f[p + 1] = a /\ f[p + 2] = b
  <2>1. Holds(f, p, <<a, b>>)
    BY ShortBytes
  <2> HIDE DEF a, b
  <2>2. Len(<<a, b>>) = 2 /\ <<a, b>>[1] = a /\ <<a, b>>[2] = b
    OBVIOUS
  <2>3. 1 \in 1 .. 2 /\ 2 \in 1 .. 2
    OBVIOUS
  <2> QED BY <2>1, <2>2, <2>3 DEF Holds
<1> HIDE DEF a, b
<1>3. u_short_int_read(f, p) = b * 256 + a
  BY <1>2 DEF u_short_int_read
<1> QED BY <1>1, <1>2, <1>3 DEF a, b

LEMMA ULongBack ==
  ASSUME bmp_byte_swap, NEW n \in Nat, n < ULong32, NEW f, NEW p \in Nat,
         Holds(f, p, u_long_int_write(n))
  PROVE  /\ Little(f, p) = n
         /\ n < IntMax => u_long_int_read(f, p) = n /\ long_int_read(f, p) = n
<1>1. PICK b1, b2, b3, b4 \in Byte :
            /\ LET s == u_long_int_write(n)
               IN  Len(s) = 4 /\ s[1] = b1 /\ s[2] = b2 /\ s[3] = b3 /\ s[4] = b4
            /\ b1 + 256 * b2 + 65536 * b3 + 16777216 * b4 = n
            /\ n < IntMax => b4 < 128
  BY ULongBytes
<1>2. f[p + 1] = b1 /\ f[p + 2] = b2 /\ f[p + 3] = b3 /\ f[p + 4] = b4
  <2>1. 1 \in 1 .. 4 /\ 2 \in 1 .. 4 /\ 3 \in 1 .. 4 /\ 4 \in 1 .. 4
    OBVIOUS
  <2> QED BY <1>1, <2>1 DEF Holds
<1>3. Little(f, p) = n
  BY <1>1, <1>2 DEF Little
<1>4. ASSUME n < IntMax
      PROVE  u_long_int_read(f, p) = n /\ long_int_read(f, p) = n
  <2> DEFINE hi == b4 * 256 + b3
             lo == b2 * 256 + b1
  <2>1. Halves(f, p) = <<hi, lo>>
    <3>1. (p + 2) + 1 = p + 3 /\ (p + 2) + 2 = p + 4
      OBVIOUS
    <3> QED BY <1>2, <3>1 DEF Halves, u_short_int_read
  <2>2. hi < 32768 /\ hi * 65536 + lo = n
    BY <1>1, <1>4 DEF Byte
  <2> HIDE DEF hi, lo
  <2>3. long_int_read(f, p) = n
    BY <2>1, <2>2 DEF long_int_read
  <2> QED BY <2>3 DEF u_long_int_read
<1> QED BY <1>3, <1>4

\* Where the fields are in the headers.
LEMMA Header1Fields ==
  ASSUME NEW filetype \in Int, NEW filesize \in Int, NEW bitmapoffset \in Int
  PROVE  LET h1 == bmp_header1_write(filetype, filesize, bitmapoffset)
         IN  /\ Holds(h1, 0, u_short_int_write(filetype))
             /\ Holds(h1, 2, u_long_int_write(filesize))
             /\ Holds(h1, 10, u_long_int_write(bitmapoffset))
<1> DEFINE a == u_short_int_write(filetype)
           b == u_long_int_write(filesize)
           z == u_short_int_write(0)
           o == u_long_int_write(bitmapoffset)
           s == a \o b
           t == s \o z
           u == t \o z
           h1 == u \o o
<1>1. /\ a \in Seq(Byte) /\ Len(a) = 2 /\ z \in Seq(Byte) /\ Len(z) = 2
      /\ b \in Seq(Byte) /\ Len(b) = 4 /\ o \in Seq(Byte) /\ Len(o) = 4
  BY ShortWritten, LongWritten
<1>2. bmp_header1_write(filetype, filesize, bitmapoffset) = h1
  BY DEF bmp_header1_write
<1> HIDE DEF a, b, z, o, s, t, u, h1
<1>3. a \in Seq(Byte) /\ b \in Seq(Byte) /\ z \in Seq(Byte) /\ o \in Seq(Byte)
  BY <1>1
<1>4. s \in Seq(Byte) /\ Len(s) = 6 /\ Holds(s, 0, a) /\ Holds(s, 2, b)
  <2>1. s \in Seq(Byte) /\ Len(s) = Len(a) + Len(b)
    BY <1>3, Appended DEF s
  <2>2. Holds(s, 0, a) /\ Holds(s, Len(a), b)
    BY <1>3, HoldsParts DEF s
  <2> QED BY <1>1, <2>1, <2>2
<1>5. t \in Seq(Byte) /\ Len(t) = 8 /\ Holds(t, 0, a) /\ Holds(t, 2, b)
  <2>1. t \in Seq(Byte) /\ Len(t) = Len(s) + Len(z)
    BY <1>3, <1>4, Appended DEF t
  <2>2. Holds(t, 0, a) /\ Holds(t, 2, b)
    BY <1>3, <1>4, HoldsLeft DEF t
  <2> QED BY <1>1, <1>4, <2>1, <2>2
<1>6. u \in Seq(Byte) /\ Len(u) = 10 /\ Holds(u, 0, a) /\ Holds(u, 2, b)
  <2>1. u \in Seq(Byte) /\ Len(u) = Len(t) + Len(z)
    BY <1>3, <1>5, Appended DEF u
  <2>2. Holds(u, 0, a) /\ Holds(u, 2, b)
    BY <1>3, <1>5, HoldsLeft DEF u
  <2> QED BY <1>1, <1>5, <2>1, <2>2
<1>7. Holds(h1, 0, a) /\ Holds(h1, 2, b) /\ Holds(h1, 10, o)
  <2>1. Holds(h1, Len(u), o)
    BY <1>3, <1>6, HoldsParts DEF h1
  <2>2. Holds(h1, 0, a) /\ Holds(h1, 2, b)
    BY <1>3, <1>6, HoldsLeft DEF h1
  <2> QED BY <1>6, <2>1, <2>2
<1> QED BY <1>2, <1>7 DEF a, b, o

LEMMA Header2Fields ==
  ASSUME NEW size \in Int, NEW width \in Int, NEW height \in Int, NEW bitsperpixel \in Int
  PROVE  LET h2 == bmp_header2_write(size, width, height, bitsperpixel)
         IN  /\ Holds(h2, 4, u_long_int_write(width))
             /\ Holds(h2, 8, long_int_write(height))
             /\ Holds(h2, 14, u_short_int_write(bitsperpixel))
             /\ Holds(h2, 32, u_long_int_write(0))
<1> DEFINE a == u_long_int_write(size)
           b == u_long_int_write(width)
           c == long_int_write(height)
           d == u_short_int_write(1)
           g == u_short_int_write(bitsperpixel)
           z == u_long_int_write(0)
           s == a \o b
           t == s \o c
           u == t \o d
           v == u \o g
           x == v \o z \o z \o z \o z
           y == x \o z
           h2 == y \o z
           Three(f) == Holds(f, 4, b) /\ Holds(f, 8, c) /\ Holds(f, 14, g)
<1>1. /\ a \in Seq(Byte) /\ Len(a) = 4 /\ b \in Seq(Byte) /\ Len(b) = 4
      /\ c \in Seq(Byte) /\ Len(c) = 4 /\ z \in Seq(Byte) /\ Len(z) = 4
      /\ d \in Seq(Byte) /\ Len(d) = 2 /\ g \in Seq(Byte) /\ Len(g) = 2
  BY ShortWritten, LongWritten
<1>2. bmp_header2_write(size, width, height, bitsperpixel) = h2
  BY DEF bmp_header2_write
<1> HIDE DEF a, b, c, d, g, z, s, t, u, v, x, y, h2
<1>3. /\ a \in Seq(Byte) /\ b \in Seq(Byte) /\ c \in Seq(Byte) /\ d \in Seq(Byte)
      /\ g \in Seq(Byte) /\ z \in Seq(Byte)
  BY <1>1
<1>4. s \in Seq(Byte) /\ Len(s) = 8 /\ Holds(s, 4, b)
  <2>1. s \in Seq(Byte) /\ Len(s) = Len(a) + Len(b)
    BY <1>3, Appended DEF s
  <2>2. Holds(s, Len(a), b)
    BY <1>3, HoldsParts DEF s
  <2> QED BY <1>1, <2>1, <2>2
<1>5. t \in Seq(Byte) /\ Len(t) = 12 /\ Holds(t, 4, b) /\ Holds(t, 8, c)
  <2>1. t \in Seq(Byte) /\ Len(t) = Len(s) + Len(c)
    BY <1>3, <1>4, Appended DEF t
  <2>2. Holds(t, Len(s), c)
    BY <1>3, <1>4, HoldsParts DEF t
  <2>3. Holds(t, 4, b)
    BY <1>3, <1>4, HoldsLeft DEF t
  <2> QED BY <1>1, <1>4, <2>1, <2>2, <2>3
<1>6. u \in Seq(Byte) /\ Len(u) = 14 /\ Holds(u, 4, b) /\ Holds(u, 8, c)
  <2>1. u \in Seq(Byte) /\ Len(u) = Len(t) + Len(d)
    BY <1>3, <1>5, Appended DEF u
  <2>2. Holds(u, 4, b) /\ Holds(u, 8, c)
    BY <1>3, <1>5, HoldsLeft DEF u
  <2> QED BY <1>1, <1>5, <2>1, <2>2
<1>7. v \in Seq(Byte) /\ Len(v) = 16 /\ Three(v)
  <2>1. v \in Seq(Byte) /\ Len(v) = Len(u) + Len(g)
    BY <1>3, <1>6, Appended DEF v
  <2>2. Holds(v, Len(u), g)
    BY <1>3, <1>6, HoldsParts DEF v
  <2>3. Holds(v, 4, b) /\ Holds(v, 8, c)
    BY <1>3, <1>6, HoldsLeft DEF v
  <2> QED BY <1>1, <1>6, <2>1, <2>2, <2>3
<1>8. ASSUME NEW f \in Seq(Byte), Three(f)
      PROVE  f \o z \in Seq(Byte) /\ Len(f \o z) = Len(f) + 4 /\ Three(f \o z)
  <2>1. f \o z \in Seq(Byte) /\ Len(f \o z) = Len(f) + Len(z)
    BY <1>3, Appended
  <2>2. Holds(f \o z, 4, b) /\ Holds(f \o z, 8, c) /\ Holds(f \o z, 14, g)
    BY <1>3, <1>8, HoldsLeft
  <2> QED BY <1>1, <2>1, <2>2
<1> HIDE DEF Three
<1>9. x \in Seq(Byte) /\ Len(x) = 32 /\ Three(x)
  <2> DEFINE x1 == v \o z
             x2 == x1 \o z
             x3 == x2 \o z
  <2> HIDE DEF x1, x2, x3
  <2>1. x1 \in Seq(Byte) /\ Three(x1) /\ Len(x1) = Len(v) + 4
    BY <1>7, <1>8 DEF x1
  <2>2. x2 \in Seq(Byte) /\ Three(x2) /\ Len(x2) = Len(x1) + 4
    BY <1>8, <2>1 DEF x2
  <2>3. x3 \in Seq(Byte) /\ Three(x3) /\ Len(x3) = Len(x2) + 4
    BY <1>8, <2>2 DEF x3
  <2>4. x = x3 \o z
    BY DEF x, x1, x2, x3
  <2>5. x \in Seq(Byte) /\ Three(x) /\ Len(x) = Len(x3) + 4
    BY <1>8, <2>3, <2>4
  <2> QED BY <1>7, <2>1, <2>2, <2>3, <2>5
<1>10. y \in Seq(Byte) /\ Three(y) /\ Holds(y, 32, z)
  <2>1. y \in Seq(Byte) /\ Three(y)
    BY <1>8, <1>9 DEF y
  <2>2. Holds(y, Len(x), z)
    BY <1>3, <1>9, HoldsParts DEF y
  <2> QED BY <1>9, <2>1, <2>2
<1>11. Three(h2) /\ Holds(h2, 32, z)
  <2>1. Three(h2)
    BY <1>8, <1>10 DEF h2
  <2>2. Holds(h2, 32, z)
    BY <1>3, <1>10, HoldsLeft DEF h2
  <2> QED BY <2>1, <2>2
<1> QED BY <1>2, <1>11 DEF Three, b, c, g, z

LEMMA LineSize ==
  ASSUME NEW w \in Nat, NEW h \in Int
  PROVE  /\ LineBytes(3 * w) \in Nat /\ LineBytes(3 * w) >= 3 * w
         /\ AbsVal(h) \in Nat
<1>1. 3 * w \in Nat
  OBVIOUS
<1>2. LineBytes(3 * w) \in Nat /\ LineBytes(3 * w) >= 3 * w
  BY <1>1, LineType
<1> QED BY <1>2, Quotients

LEMMA FileSizeType ==
  ASSUME NEW w \in Nat, NEW h \in Int
  PROVE  FileSize(w, h) \in Nat /\ FileSize(w, h) >= 54
<1>1. LineBytes(3 * w) \in Nat /\ AbsVal(h) \in Nat
  BY LineType, Quotients
<1>2. \A m, n \in Nat : m * n \in Nat
  OBVIOUS
<1> QED BY <1>1, <1>2 DEF FileSize

\* An image that fits into a file of which the length has 32 bits has an int of lines
\* and of columns, if it has any pixel.
LEMMA SidesFit ==
  ASSUME NEW w \in Nat \ {0}, NEW h \in Nat \ {0}, FileSize(w, h) < ULong32
  PROVE  w < IntMax /\ h < IntMax
<1> DEFINE line == LineBytes(3 * w)
<1>1. line \in Nat /\ line >= 3 * w
  BY LineType
<1>2. 54 + line * h < ULong32
  BY DEF FileSize, AbsVal
<1> HIDE DEF line
<1>3. line * h >= line
  <2>1. PICK d \in Nat : h = d + 1
    <3>1. h - 1 \in Nat /\ h = (h - 1) + 1
      OBVIOUS
    <3> QED BY <3>1
  <2>2. line * h = line * d + line /\ line * d \in Nat
    BY <1>1, <2>1
  <2> QED BY <1>1, <2>2
<1>4. line * h >= 3 * h
  <2>1. PICK d \in Nat : line = 3 + d
    <3>1. line - 3 \in Nat /\ line = 3 + (line - 3)
      BY <1>1
    <3> QED BY <3>1
  <2>2. line * h = 3 * h + d * h /\ d * h \in Nat
    BY <2>1
  <2> QED BY <2>2
<1> DEFINE m == line * h
<1>5. m \in Nat
  BY <1>1
<1> HIDE DEF m
<1> QED BY <1>1, <1>2, <1>3, <1>4, <1>5 DEF m, ULong32, IntMax

LEMMA FileFields ==
  ASSUME NEW w, NEW h, Writable(w, h),
         NEW pixel \in [Rows(h) \X (0 .. w - 1) -> [Colors -> Byte]]
  PROVE  LET f == bmp_24_write(w, h, pixel)
         IN  /\ f \in Seq(Byte) /\ Len(f) = FileSize(w, h)
             /\ Holds(f, 0, u_short_int_write(WrittenType))
             /\ Holds(f, 2, u_long_int_write(FileSize(w, h)))
             /\ Holds(f, 10, u_long_int_write(54))
             /\ Holds(f, 18, u_long_int_write(w))
             /\ Holds(f, 22, long_int_write(h))
             /\ Holds(f, 28, u_short_int_write(24))
             /\ Holds(f, 46, u_long_int_write(0))
             /\ Holds(f, 54, bmp_24_data_write(w, h, pixel))
<1> DEFINE data == bmp_24_data_write(w, h, pixel)
           h1 == bmp_header1_write(WrittenType, FileSize(w, h), 54)
           h2 == bmp_header2_write(40, w, h, 24)
           a == u_short_int_write(WrittenType)
           b == u_long_int_write(FileSize(w, h))
           c == u_long_int_write(54)
           d == u_long_int_write(w)
           e == long_int_write(h)
           g == u_short_int_write(24)
           z == u_long_int_write(0)
           f == h1 \o h2
<1>1. w \in Nat /\ h \in Int /\ FileSize(w, h) \in Nat /\ WrittenType \in Int
  BY FileSizeType, SMT DEF Writable, WrittenType, Magic
<1>2. /\ Holds(h1, 0, a) /\ Holds(h1, 2, b) /\ Holds(h1, 10, c)
      /\ h1 \in Seq(Byte) /\ Len(h1) = 14
  <2>1. FileSize(w, h) \in Int /\ 54 \in Int
    BY <1>1
  <2>2. Holds(h1, 0, a) /\ Holds(h1, 2, b) /\ Holds(h1, 10, c)
    BY <1>1, <2>1, Header1Fields
  <2>3. h1 \in Seq(Byte) /\ Len(h1) = 14
    BY <1>1, <2>1, Header1Written
  <2> QED BY <2>2, <2>3
<1>3. /\ Holds(h2, 4, d) /\ Holds(h2, 8, e) /\ Holds(h2, 14, g) /\ Holds(h2, 32, z)
      /\ h2 \in Seq(Byte) /\ Len(h2) = 40
  <2>1. w \in Int /\ 40 \in Int /\ 24 \in Int
    BY <1>1
  <2>2. Holds(h2, 4, d) /\ Holds(h2, 8, e) /\ Holds(h2, 14, g) /\ Holds(h2, 32, z)
    BY <1>1, <2>1, Header2Fields
  <2>3. h2 \in Seq(Byte) /\ Len(h2) = 40
    <3>1. w \in Int /\ h \in Int
      BY <1>1
    <3>2. /\ bmp_header2_write(40, w, h, 24) \in Seq(Byte)
          /\ Len(bmp_header2_write(40, w, h, 24)) = 40
      BY ONLY <2>1, <3>1, Header2Written
    <3> QED BY <3>2
  <2> QED BY <2>2, <2>3
<1>4. /\ a \in Seq(Byte) /\ b \in Seq(Byte) /\ c \in Seq(Byte) /\ d \in Seq(Byte)
      /\ e \in Seq(Byte) /\ g \in Seq(Byte) /\ z \in Seq(Byte)
  BY <1>1, ShortWritten, LongWritten
<1>5. data \in Seq(Byte) /\ Len(data) = AbsVal(h) * LineBytes(3 * w)
  BY DataWritten
<1>6. bmp_24_write(w, h, pixel) = f \o data
  BY DEF bmp_24_write, FileSize
<1>7. LineBytes(3 * w) * AbsVal(h) = AbsVal(h) * LineBytes(3 * w)
  <2>1. LineBytes(3 * w) \in Nat /\ AbsVal(h) \in Nat
    <3>1. 3 * w \in Nat
      BY <1>1
    <3>2. LineBytes(3 * w) \in Nat
      BY <3>1, LineType
    <3> QED BY <1>1, <3>2, Quotients
  <2> QED BY <2>1
<1> HIDE DEF data, h1, h2, a, b, c, d, e, g, z, f
<1>8. h1 \in Seq(Byte) /\ h2 \in Seq(Byte) /\ data \in Seq(Byte)
  BY <1>2, <1>3, <1>5
<1>9. f \in Seq(Byte) /\ Len(f) = 54
  <2>1. f \in Seq(Byte) /\ Len(f) = Len(h1) + Len(h2)
    BY <1>8, Appended DEF f
  <2> QED BY <1>2, <1>3, <2>1
<1>10. Holds(f, 0, a) /\ Holds(f, 2, b) /\ Holds(f, 10, c)
  BY <1>2, <1>4, <1>8, HoldsLeft DEF f
<1>11. Holds(f, 18, d) /\ Holds(f, 22, e) /\ Holds(f, 28, g) /\ Holds(f, 46, z)
  <2>1. /\ 18 = Len(h1) + 4 /\ 22 = Len(h1) + 8
        /\ 28 = Len(h1) + 14 /\ 46 = Len(h1) + 32
    BY <1>2
  <2>2. Holds(f, 18, d)
    BY <1>3, <1>4, <1>8, <2>1, HoldsRight DEF f
  <2>3. Holds(f, 22, e)
    BY <1>3, <1>4, <1>8, <2>1, HoldsRight DEF f
  <2>4. Holds(f, 28, g)
    BY <1>3, <1>4, <1>8, <2>1, HoldsRight DEF f
  <2>5. Holds(f, 46, z)
    BY <1>3, <1>4, <1>8, <2>1, HoldsRight DEF f
  <2> QED BY <2>2, <2>3, <2>4, <2>5
<1> DEFINE F == f \o data
<1> HIDE DEF F
<1>12. /\ Holds(F, 0, a) /\ Holds(F, 2, b) /\ Holds(F, 10, c) /\ Holds(F, 18, d)
       /\ Holds(F, 22, e) /\ Holds(F, 28, g) /\ Holds(F, 46, z)
  <2>1. f \in Seq(Byte) /\ data \in Seq(Byte)
    BY <1>8, <1>9
  <2>2. ASSUME NEW u \in Seq(Byte), NEW p \in Nat, Holds(f, p, u) PROVE Holds(F, p, u)
    BY <2>1, <2>2, HoldsLeft DEF F
  <2> QED BY <1>4, <1>10, <1>11, <2>2
<1>13. Holds(F, 54, data)
  <2>1. Holds(F, Len(f), data)
    BY <1>8, <1>9, HoldsParts DEF F
  <2> QED BY <1>9, <2>1
<1>14. F \in Seq(Byte) /\ Len(F) = FileSize(w, h)
  <2>1. F \in Seq(Byte) /\ Len(F) = Len(f) + Len(data)
    <3>1. f \in Seq(Byte) /\ data \in Seq(Byte)
      BY <1>8, <1>9
    <3> QED BY <3>1, Appended DEF F
  <2>2. FileSize(w, h) = 54 + Len(data)
    BY <1>5, <1>7 DEF FileSize
  <2> QED BY <1>9, <2>1, <2>2
<1>15. bmp_24_write(w, h, pixel) = F
  BY <1>6 DEF F
<1> QED BY <1>12, <1>13, <1>14, <1>15 DEF a, b, c, d, e, g, z, data

LEMMA LittleType ==
  ASSUME NEW f, NEW p \in Nat, f[p + 1] \in Byte, f[p + 2] \in Byte,
         f[p + 3] \in Byte, f[p + 4] \in Byte
  PROVE  Little(f, p) \in Nat
<1> DEFINE b1 == f[p + 1]
           b2 == f[p + 2]
           b3 == f[p + 3]
           b4 == f[p + 4]
<1>1. b1 \in Byte /\ b2 \in Byte /\ b3 \in Byte /\ b4 \in Byte
  OBVIOUS
<1>2. Little(f, p) = b1 + 256 * b2 + 65536 * b3 + 16777216 * b4
  BY DEF Little
<1> HIDE DEF b1, b2, b3, b4
<1> QED BY <1>1, <1>2 DEF Byte

\* A file the program could have written.
Made(f, w, h, pixel) ==
  /\ Writable(w, h) /\ FileSize(w, h) < ULong32
  /\ pixel \in [Rows(h) \X (0 .. w - 1) -> [Colors -> Byte]]
  /\ f = bmp_24_write(w, h, pixel)

\* The header of such a file, read by the format and by the program.
LEMMA MadeHeader ==
  ASSUME bmp_byte_swap, NEW f, NEW w, NEW h, NEW pixel, Made(f, w, h, pixel)
  PROVE  LET h2 == bmp_header2_read(f)
         IN  /\ f \in Seq(Byte) /\ Len(f) = FileSize(w, h)
             /\ Little(f, 2) = Len(f) /\ Little(f, 10) = 54
             /\ bmp_header1_read(f).filetype = Magic
             /\ h2.bitsperpixel = 24 /\ h2.colorsused = 0
             /\ h2.width \in Nat /\ h2.height \in Int
             /\ Little(f, 18) \in Nat /\ Little(f, 22) \in Nat
             /\ w > 0 /\ h > 0 => /\ Little(f, 18) = w /\ Little(f, 22) = h
                                  /\ h2.width = w /\ h2.height = h
             /\ w = 0 => Little(f, 18) = 0 /\ h2.width = 0
             /\ h = 0 => Little(f, 22) = 0 /\ h2.height = 0
<1>1. /\ Writable(w, h) /\ FileSize(w, h) < ULong32 /\ f = bmp_24_write(w, h, pixel)
      /\ pixel \in [Rows(h) \X (0 .. w - 1) -> [Colors -> Byte]]
      /\ w \in Nat /\ h \in Int /\ (h < 0 => w = 0)
  BY DEF Made, Writable
<1>2. /\ f \in Seq(Byte) /\ Len(f) = FileSize(w, h)
      /\ Holds(f, 0, u_short_int_write(WrittenType))
      /\ Holds(f, 2, u_long_int_write(FileSize(w, h)))
      /\ Holds(f, 10, u_long_int_write(54))
      /\ Holds(f, 18, u_long_int_write(w))
      /\ Holds(f, 22, long_int_write(h))
      /\ Holds(f, 28, u_short_int_write(24))
      /\ Holds(f, 46, u_long_int_write(0))
  BY <1>1, FileFields
<1>3. FileSize(w, h) \in Nat /\ FileSize(w, h) >= 54
  BY <1>1, FileSizeType
<1>4. 54 < ULong32 /\ 0 < ULong32 /\ 0 < IntMax /\ IntMax < ULong32
  BY DEF ULong32, IntMax
<1>5. Little(f, 2) = Len(f)
  <2> DEFINE n == FileSize(w, h)
  <2> HIDE DEF n
  <2>1. n \in Nat /\ n < ULong32 /\ Holds(f, 2, u_long_int_write(n)) /\ Len(f) = n
    BY <1>1, <1>2, <1>3 DEF n
  <2>2. 2 \in Nat
    OBVIOUS
  <2> QED BY <2>1, <2>2, ULongBack
<1>6. Little(f, 10) = 54
  <2>1. 10 \in Nat /\ 54 \in Nat
    OBVIOUS
  <2> QED BY <1>2, <1>4, <2>1, ULongBack
<1>7. bmp_header1_read(f).filetype = Magic
  <2>1. WrittenType = 19778
    BY DEF WrittenType
  <2>2. f[0 + 1] = 19778 % 256 /\ u_short_int_read(f, 0) = 19778
    <3>1. 19778 \in Nat /\ 19778 <= 65535 /\ 0 \in Nat
      OBVIOUS
    <3> QED BY <1>2, <2>1, <3>1, ShortBack
  <2>3. 19778 \div 256 = 77 /\ 19778 % 256 = 66
    OBVIOUS
  <2>4. SignedChar(77) = 77 /\ SignedChar(66) = 66
    BY DEF SignedChar
  <2>5. (66 * 256 + 77) % 65536 = Magic
    BY DEF Magic
  <2> QED BY <2>2, <2>3, <2>4, <2>5 DEF bmp_header1_read
<1>8. bmp_header2_read(f).bitsperpixel = 24
  <2>1. 24 \in Nat /\ 24 <= 65535 /\ 28 \in Nat /\ Header1Size + 14 = 28
    BY DEF Header1Size
  <2>2. u_short_int_read(f, 28) = 24
    BY <1>2, <2>1, ShortBack
  <2> QED BY <2>1, <2>2 DEF bmp_header2_read
<1>9. bmp_header2_read(f).colorsused = 0
  <2>1. 0 \in Nat /\ 46 \in Nat /\ Header1Size + 32 = 46
    BY DEF Header1Size
  <2>2. u_long_int_read(f, 46) = 0
    BY <1>2, <1>4, <2>1, ULongBack
  <2> QED BY <2>1, <2>2 DEF bmp_header2_read
<1>10. \A n \in 1 .. 54 : f[n] \in Byte
  <2>1. Len(f) >= 54
    BY <1>2, <1>3
  <2> QED BY <1>2, <2>1, BytesRead DEF HeaderBytes
<1>11. /\ bmp_header2_read(f).width = u_long_int_read(f, 18)
       /\ bmp_header2_read(f).height = long_int_read(f, 22)
  <2>1. Header1Size + 4 = 18 /\ Header1Size + 8 = 22
    BY DEF Header1Size
  <2> QED BY <2>1 DEF bmp_header2_read
<1>12. /\ u_long_int_read(f, 18) \in Nat /\ long_int_read(f, 22) \in Int
       /\ Little(f, 18) \in Nat /\ Little(f, 22) \in Nat
  <2>1. /\ f[18 + 1] \in Byte /\ f[18 + 2] \in Byte /\ f[18 + 3] \in Byte
        /\ f[18 + 4] \in Byte
        /\ f[22 + 1] \in Byte /\ f[22 + 2] \in Byte /\ f[22 + 3] \in Byte
        /\ f[22 + 4] \in Byte
    BY <1>10
  <2>2. u_long_int_read(f, 18) \in Nat /\ long_int_read(f, 22) \in Int
    BY <2>1, LongRead
  <2>3. Little(f, 18) \in Nat /\ Little(f, 22) \in Nat
    BY <2>1, LittleType
  <2> QED BY <2>2, <2>3
<1>13. ASSUME w < IntMax PROVE Little(f, 18) = w /\ bmp_header2_read(f).width = w
  <2>1. w < ULong32 /\ 18 \in Nat
    BY <1>1, <1>4, <1>13 DEF ULong32, IntMax
  <2> QED BY <1>1, <1>2, <1>11, <1>13, <2>1, ULongBack
<1>14. ASSUME h >= 0, h < IntMax PROVE Little(f, 22) = h /\ bmp_header2_read(f).height = h
  <2>1. h \in Nat /\ h < ULong32 /\ 22 \in Nat
    BY <1>1, <1>4, <1>14 DEF ULong32, IntMax
  <2>2. Holds(f, 22, u_long_int_write(h))
    BY <1>2, <2>1, LongAsULong
  <2> QED BY <1>11, <1>14, <2>1, <2>2, ULongBack
<1>15. w > 0 /\ h > 0 => w < IntMax /\ h < IntMax
  BY <1>1, SidesFit
<1>16. w = 0 => w < IntMax
  BY <1>4
<1>17. h = 0 => h >= 0 /\ h < IntMax
  BY <1>4
<1>18. w > 0 /\ h > 0 => /\ Little(f, 18) = w /\ Little(f, 22) = h
                         /\ bmp_header2_read(f).width = w /\ bmp_header2_read(f).height = h
  BY <1>1, <1>13, <1>14, <1>15
<1>19. w = 0 => Little(f, 18) = 0 /\ bmp_header2_read(f).width = 0
  BY <1>13, <1>16
<1>20. h = 0 => Little(f, 22) = 0 /\ bmp_header2_read(f).height = 0
  BY <1>14, <1>17
<1> QED
  BY <1>2, <1>5, <1>6, <1>7, <1>8, <1>9, <1>11, <1>12, <1>18, <1>19, <1>20, Zenon

LEMMA StrideIsLine ==
  ASSUME NEW n \in Nat
  PROVE  ((24 * n + 31) \div 32) * 4 = LineBytes(3 * n)
<1> DEFINE q == n \div 4
           r == n % 4
<1>1. q \in Nat /\ r \in Nat /\ r < 4 /\ n = 4 * q + r
  <2>1. q \in Nat
    OBVIOUS
  <2>2. r \in Nat /\ r < 4
    OBVIOUS
  <2>3. n = 4 * q + r
    OBVIOUS
  <2> HIDE DEF q, r
  <2> QED BY <2>1, <2>2, <2>3
<1> HIDE DEF q, r
<1>2. r = 0 \/ r = 1 \/ r = 2 \/ r = 3
  BY <1>1
<1>3. /\ 24 * n + 31 = 32 * (3 * q) + (24 * r + 31)
      /\ 3 * n = 4 * (3 * q) + 3 * r
  BY <1>1
<1> DEFINE m == 3 * q
<1>4. m \in Nat
  BY <1>1
<1> HIDE DEF m
<1>5. 24 * n + 31 = 32 * m + (24 * r + 31) /\ 3 * n = 4 * m + 3 * r
  BY <1>3 DEF m
<1>6. CASE r = 0
  <2>1. 24 * n + 31 = 32 * m + 31 /\ 3 * n = 4 * m
    BY <1>4, <1>5, <1>6
  <2>2. (32 * m + 31) \div 32 = m /\ (4 * m) % 4 = 0
    BY <1>4
  <2> QED BY <1>4, <2>1, <2>2 DEF LineBytes, Padding
<1>7. CASE r = 1
  <2>1. 24 * n + 31 = 32 * (m + 1) + 23 /\ 3 * n = 4 * m + 3
    BY <1>4, <1>5, <1>7
  <2>2. (32 * (m + 1) + 23) \div 32 = m + 1 /\ (4 * m + 3) % 4 = 3
    BY <1>4
  <2> QED BY <1>4, <2>1, <2>2 DEF LineBytes, Padding
<1>8. CASE r = 2
  <2>1. 24 * n + 31 = 32 * (m + 2) + 15 /\ 3 * n = 4 * (m + 1) + 2
    BY <1>4, <1>5, <1>8
  <2>2. (32 * (m + 2) + 15) \div 32 = m + 2 /\ (4 * (m + 1) + 2) % 4 = 2
    BY <1>4
  <2> QED BY <1>4, <2>1, <2>2 DEF LineBytes, Padding
<1>9. CASE r = 3
  <2>1. 24 * n + 31 = 32 * (m + 3) + 7 /\ 3 * n = 4 * (m + 2) + 1
    BY <1>4, <1>5, <1>9
  <2>2. (32 * (m + 3) + 7) \div 32 = m + 3 /\ (4 * (m + 2) + 1) % 4 = 1
    BY <1>4
  <2> QED BY <1>4, <2>1, <2>2 DEF LineBytes, Padding
<1> QED BY <1>2, <1>6, <1>7, <1>8, <1>9

\* A cell of an image that is all there lies in the file.
LEMMA CellInFile ==
  ASSUME NEW p \in Nat, NEW line \in Nat, NEW w \in Nat, NEW h \in Nat, NEW len \in Nat,
         len >= p + (h - 1) * line + 3 * w,
         NEW r \in Nat, r < h, NEW c \in Nat, c < w, NEW k \in 0 .. 2
  PROVE  p + r * line + 3 * c + k + 1 <= len
<1>1. PICK d \in Nat : h - 1 = r + d
  <2>1. h - 1 - r \in Nat /\ h - 1 = r + (h - 1 - r)
    OBVIOUS
  <2> QED BY <2>1
<1>2. (h - 1) * line = r * line + d * line /\ d * line \in Nat /\ r * line \in Nat
  BY <1>1
<1>3. 3 * c + k + 1 <= 3 * w
  OBVIOUS
<1> DEFINE x == r * line
           y == d * line
           z == (h - 1) * line
<1>4. x \in Nat /\ y \in Nat /\ z = x + y /\ len >= p + z + 3 * w
  BY <1>2
<1> HIDE DEF x, y, z
<1>5. p + x + 3 * c + k + 1 <= len
  BY <1>3, <1>4
<1> QED BY <1>5 DEF x

LEMMA PixelRecord ==
  ASSUME NEW a, NEW b, NEW c
  PROVE  [blue |-> a, green |-> b, red |-> c]
           = [k \in Colors |-> IF k = "blue" THEN a ELSE IF k = "green" THEN b ELSE c]
BY DEF Colors

\* The program reads the pixels of a file where the format has them.
LEMMA PixelsAgree ==
  ASSUME NEW f, NEW w \in Nat, NEW h \in Nat, NEW p \in Nat, Len(f) \in Nat,
         Little(f, 10) = p, Little(f, 18) = w, Little(f, 22) = h, Whole(f),
         NEW cell \in (0 .. h - 1) \X (0 .. w - 1)
  PROVE  bmp_24_data_read(f, p, w, h).pixel[cell] = ImageOf(f)[cell]
<1> DEFINE line == LineBytes(3 * w)
           at(k) == p + cell[1] * line + 3 * cell[2] + k + 1
<1>1. Stride(f) = line
  BY StrideIsLine DEF Stride
<1>2. line \in Nat
  <2>1. 3 * w \in Nat
    OBVIOUS
  <2> QED BY <2>1, LineType
<1>3. /\ cell[1] \in Nat /\ cell[1] < h /\ cell[2] \in Nat /\ cell[2] < w
      /\ cell \in Rows(h) \X (0 .. w - 1)
  BY DEF Rows
<1>4. Len(f) >= p + (h - 1) * line + 3 * w
  BY <1>1 DEF Whole
<1>5. ASSUME NEW k \in 0 .. 2 PROVE ByteAt(f, p, w, cell, k) = f[at(k)]
  <2> DEFINE n == at(k)
  <2>1. n <= Len(f)
    <3> HIDE DEF line
    <3> QED BY <1>2, <1>3, <1>4, CellInFile
  <2>2. ByteAt(f, p, w, cell, k) = IF n <= Len(f) THEN f[n] ELSE Junk
    BY DEF ByteAt
  <2> HIDE DEF n
  <2> QED BY <2>1, <2>2 DEF n
<1>6. bmp_24_data_read(f, p, w, h).pixel[cell]
        = [blue |-> f[at(0)], green |-> f[at(1)], red |-> f[at(2)]]
  <2>1. bmp_24_data_read(f, p, w, h).pixel[cell]
          = [blue  |-> ByteAt(f, p, w, cell, 0),
             green |-> ByteAt(f, p, w, cell, 1),
             red   |-> ByteAt(f, p, w, cell, 2)]
    BY <1>3, CellRead
  <2>2. 0 \in 0 .. 2 /\ 1 \in 0 .. 2 /\ 2 \in 0 .. 2
    OBVIOUS
  <2> HIDE DEF at
  <2> QED BY <1>5, <2>1, <2>2
<1>7. ImageOf(f)[cell] = [k \in Colors |-> f[p + cell[1] * line + 3 * cell[2] + Plane[k] + 1]]
  BY <1>1, Zenon DEF ImageOf
<1>8. Plane["blue"] = 0 /\ Plane["green"] = 1 /\ Plane["red"] = 2
  BY DEF Plane
<1>9. [k \in Colors |-> f[p + cell[1] * line + 3 * cell[2] + Plane[k] + 1]]
        = [k \in Colors |-> IF k = "blue" THEN f[at(0)]
                            ELSE IF k = "green" THEN f[at(1)] ELSE f[at(2)]]
  <2>1. ASSUME NEW k \in Colors
        PROVE  f[p + cell[1] * line + 3 * cell[2] + Plane[k] + 1]
                 = IF k = "blue" THEN f[at(0)] ELSE IF k = "green" THEN f[at(1)] ELSE f[at(2)]
    BY <1>8, <2>1 DEF Colors
  <2> QED BY <2>1, Zenon
<1> DEFINE b0 == f[at(0)]
           b1 == f[at(1)]
           b2 == f[at(2)]
<1> HIDE DEF b0, b1, b2
<1>10. [blue |-> b0, green |-> b1, red |-> b2]
         = [k \in Colors |-> IF k = "blue" THEN b0 ELSE IF k = "green" THEN b1 ELSE b2]
  BY PixelRecord
<1> QED BY <1>6, <1>7, <1>9, <1>10, Zenon DEF b0, b1, b2

LEMMA MadeRead ==
  ASSUME bmp_byte_swap, NEW f, NEW w, NEW h, NEW pixel, Made(f, w, h, pixel)
  PROVE  ~ bmp_read(f).error /\ ~ bmp_read(f).shared
<1> DEFINE h2 == bmp_header2_read(f)
           data == bmp_24_data_read(f, 54, h2.width, h2.height)
<1>1. /\ f \in Seq(Byte) /\ Len(f) = FileSize(w, h)
      /\ bmp_header1_read(f).filetype = Magic
      /\ h2.bitsperpixel = 24 /\ h2.colorsused = 0
      /\ h2.width \in Nat /\ h2.height \in Int
      /\ w > 0 /\ h > 0 => h2.width = w /\ h2.height = h
      /\ w = 0 => h2.width = 0
      /\ h = 0 => h2.height = 0
  BY MadeHeader
<1>2. w \in Nat /\ h \in Int /\ (h < 0 => w = 0)
  BY DEF Made, Writable
<1>3. Len(f) \in Nat /\ Len(f) >= 54
  BY <1>1, <1>2, FileSizeType
<1>4. PaletteEnd(0) = 54 /\ Header1Size = 14 /\ Header1Size + Header2Size = 54
  BY DEF PaletteEnd, Header1Size, Header2Size
<1> DEFINE W == h2.width
           H == h2.height
           line == LineBytes(3 * W)
           left == Len(f) - 54
<1>5. ~ (left < AbsVal(H) * line)
  <2>1. left = LineBytes(3 * w) * AbsVal(h)
    <3>1. LineBytes(3 * w) * AbsVal(h) \in Nat
      <4>1. LineBytes(3 * w) \in Nat /\ AbsVal(h) \in Nat
        BY <1>2, LineSize
      <4> QED BY <4>1
    <3> QED BY <1>1, <3>1 DEF FileSize
  <2> HIDE DEF h2
  <2>2. line \in Nat /\ AbsVal(H) \in Nat /\ left \in Nat
    <3>1. W \in Nat /\ H \in Int
      BY <1>1
    <3>2. line \in Nat /\ AbsVal(H) \in Nat
      <4> HIDE DEF W, H
      <4> QED BY <3>1, LineSize
    <3>3. left \in Nat
      BY <1>3
    <3> QED BY <3>2, <3>3
  <2>3. CASE w > 0 /\ h > 0
    <3>1. left = line * AbsVal(H)
      BY <1>1, <2>1, <2>3
    <3> HIDE DEF line, left, H
    <3>2. line * AbsVal(H) = AbsVal(H) * line
      BY <2>2
    <3> QED BY <2>2, <3>1, <3>2
  <2>4. CASE W = 0
    <3>1. line = 0
      BY <2>4, LineType
    <3> HIDE DEF line, left, H
    <3> QED BY <2>2, <3>1
  <2>5. CASE H = 0
    <3>1. AbsVal(H) = 0
      BY <2>5 DEF AbsVal
    <3> HIDE DEF line, left, H
    <3> QED BY <2>2, <3>1
  <2> QED BY <1>1, <1>2, <2>3, <2>4, <2>5
<1>6. ~ data.error
  BY <1>5 DEF bmp_24_data_read, Lines
<1>7. /\ ~ (Len(f) < Header1Size) /\ ~ (Len(f) < Header1Size + Header2Size)
      /\ bmp_palette_read(f, 0) /\ 24 # 8
  BY <1>3, <1>4 DEF bmp_palette_read
<1> HIDE DEF data
<1>8. bmp_read(f) = [error |-> FALSE, width |-> h2.width, height |-> h2.height,
                     pixel |-> data.pixel, shared |-> FALSE]
  <2>1. h2.bitsperpixel # 8 /\ (h2.bitsperpixel = 8) = FALSE
    BY <1>1, <1>7
  <2> QED BY <1>1, <1>4, <1>6, <1>7, <2>1, Zenon DEF bmp_read, data
<1> QED BY <1>8

\* What the program writes is a whole file, and the program reads it as the format says.
LEMMA MadeWellFormed ==
  ASSUME bmp_byte_swap, NEW f, NEW w, NEW h, NEW pixel, Made(f, w, h, pixel)
  PROVE  WellFormed(f)
<1> DEFINE h2 == bmp_header2_read(f)
<1>1. /\ f \in Seq(Byte) /\ Len(f) = FileSize(w, h)
      /\ Little(f, 2) = Len(f) /\ Little(f, 10) = 54
      /\ h2.colorsused = 0
      /\ Little(f, 18) \in Nat /\ Little(f, 22) \in Nat
      /\ w > 0 /\ h > 0 => /\ Little(f, 18) = w /\ Little(f, 22) = h
                           /\ h2.width = w /\ h2.height = h
      /\ w = 0 => Little(f, 18) = 0
      /\ h = 0 => Little(f, 22) = 0
  BY MadeHeader
<1>2. w \in Nat /\ h \in Int /\ (h < 0 => w = 0)
  BY DEF Made, Writable
<1>3. ~ bmp_read(f).error /\ ~ bmp_read(f).shared
  BY MadeRead
<1>4. bmp_read(f).pixel = bmp_24_data_read(f, 54, h2.width, h2.height).pixel
  <2>1. PaletteEnd(0) = 54
    BY DEF PaletteEnd, Header1Size, Header2Size
  <2> QED BY <1>1, <1>3, <2>1, PixelsRead
<1> HIDE DEF h2
<1>5. Stride(f) = LineBytes(3 * Little(f, 18)) /\ Stride(f) \in Nat
  <2> DEFINE n == Little(f, 18)
  <2> HIDE DEF n
  <2>1. n \in Nat /\ 3 * n \in Nat
    BY <1>1 DEF n
  <2>2. ((24 * n + 31) \div 32) * 4 = LineBytes(3 * n) /\ LineBytes(3 * n) \in Nat
    BY <2>1, StrideIsLine, LineType
  <2> QED BY <2>2 DEF Stride, n
<1>6. Len(f) = Little(f, 10) + Little(f, 22) * Stride(f)
  <2>1. FileSize(w, h) = 54 + LineBytes(3 * w) * AbsVal(h)
    BY DEF FileSize
  <2>3. LineBytes(3 * w) \in Nat /\ AbsVal(h) \in Nat
    BY <1>2, LineSize
  <2>4. CASE w > 0 /\ h > 0
    <3>1. Stride(f) = LineBytes(3 * w) /\ Little(f, 22) = h /\ AbsVal(h) = h
      BY <1>1, <1>2, <1>5, <2>4 DEF AbsVal
    <3>2. LineBytes(3 * w) * h = h * LineBytes(3 * w)
      <4> DEFINE line == LineBytes(3 * w)
      <4> HIDE DEF line
      <4>1. line \in Nat
        BY <2>3 DEF line
      <4> QED BY <1>2, <4>1 DEF line
    <3> QED BY <1>1, <2>1, <3>1, <3>2
  <2>5. CASE w = 0
    <3>1. Stride(f) = 0 /\ LineBytes(3 * w) = 0
      BY <1>1, <1>5, <2>5, LineType
    <3> QED BY <1>1, <2>1, <2>3, <3>1
  <2>6. CASE h = 0
    <3>1. Little(f, 22) = 0 /\ AbsVal(h) = 0
      BY <1>1, <2>6 DEF AbsVal
    <3> QED BY <1>1, <1>5, <2>1, <2>3, <3>1
  <2> QED BY <1>2, <2>4, <2>5, <2>6
<1>7. ASSUME NEW cell \in DOMAIN ImageOf(f)
      PROVE  bmp_read(f).pixel[cell] = ImageOf(f)[cell]
  <2>1. cell \in (0 .. Little(f, 22) - 1) \X (0 .. Little(f, 18) - 1)
    BY DEF ImageOf
  <2>2. w > 0 /\ h > 0
    <3>1. Little(f, 18) # 0 /\ Little(f, 22) # 0
      BY <2>1
    <3> QED BY <1>1, <1>2, <3>1
  <2>3. Little(f, 18) = w /\ Little(f, 22) = h /\ h2.width = w /\ h2.height = h
    BY <1>1, <2>2
  <2>4. Whole(f)
    <3> DEFINE line == Stride(f)
    <3>1. line \in Nat /\ line >= 3 * w
      <4>1. 3 * w \in Nat
        BY <1>2
      <4> QED BY <1>5, <2>3, <4>1, LineType
    <3>2. Len(f) = 54 + h * line
      BY <1>1, <1>6, <2>3
    <3> HIDE DEF line
    <3>3. h * line = (h - 1) * line + line /\ (h - 1) * line \in Int
      BY <1>2, <2>2, <3>1
    <3> DEFINE m == (h - 1) * line
    <3> HIDE DEF m
    <3>4. Len(f) >= 54 + m + 3 * w
      BY <1>2, <3>1, <3>2, <3>3 DEF m
    <3> QED BY <1>1, <2>3, <3>4 DEF Whole, m, line
  <2>5. h \in Nat /\ Len(f) \in Nat /\ 54 \in Nat
    BY <1>1, <1>2, <2>2
  <2>6. cell \in (0 .. h - 1) \X (0 .. w - 1)
    BY <2>1, <2>3
  <2>7. bmp_24_data_read(f, 54, w, h).pixel[cell] = ImageOf(f)[cell]
    BY <1>1, <1>2, <2>3, <2>4, <2>5, <2>6, PixelsAgree
  <2> QED BY <1>4, <2>3, <2>7
<1> QED BY <1>1, <1>3, <1>6, <1>7 DEF WellFormed

-----------------------------------------------------------------------------
(* The files that are written are whole *)

\* The files of the images have lengths of 32 bits, if written with 24 bits a pixel.
Fits(f) ==
  LET h2 == bmp_header2_read(f)
  IN  ~ bmp_read(f).error => FileSize(h2.width, h2.height) < ULong32

ImagesFit == \A name \in DOMAIN Images : Fits(Images[name])

\* The image at hand is the one the file holds that is named.
SourceInv ==
  LET f == File(args[inNum])
  IN  /\ Exists(args[inNum]) /\ ~ bmp_read(f).error /\ ~ bmp_read(f).shared
      /\ \E junk \in JunkBytes : input = Copied(bmp_read(f), junk)

MadeInv ==
  /\ \A name \in DOMAIN written : \E w, h, pixel : Made(written[name], w, h, pixel)
  /\ pc \in {"apply", "write"} => SourceInv

LEMMA EmptyFits ==
  ASSUME NEW w \in Nat, NEW h \in Int, w = 0 \/ h = 0
  PROVE  FileSize(w, h) = 54
<1>1. LineBytes(3 * w) \in Nat /\ AbsVal(h) \in Nat
  BY LineSize
<1>2. CASE w = 0
  <2>1. LineBytes(3 * w) = 0
    BY <1>2, LineType
  <2> QED BY <1>1, <2>1 DEF FileSize
<1>3. CASE h = 0
  <2>1. AbsVal(h) = 0
    BY <1>3 DEF AbsVal
  <2> QED BY <1>1, <2>1 DEF FileSize
<1> QED BY <1>2, <1>3

\* What was written can be read and written again.
LEMMA MadeFits ==
  ASSUME bmp_byte_swap, NEW f, NEW w, NEW h, NEW pixel, Made(f, w, h, pixel)
  PROVE  Fits(f)
<1> DEFINE h2 == bmp_header2_read(f)
<1>1. /\ h2.width \in Nat /\ h2.height \in Int
      /\ w > 0 /\ h > 0 => h2.width = w /\ h2.height = h
      /\ w = 0 => h2.width = 0
      /\ h = 0 => h2.height = 0
  BY MadeHeader
<1>2. w \in Nat /\ h \in Int /\ (h < 0 => w = 0) /\ FileSize(w, h) < ULong32
  BY DEF Made, Writable
<1>3. 54 < ULong32
  BY DEF ULong32
<1> HIDE DEF h2
<1>4. CASE w > 0 /\ h > 0
  BY <1>1, <1>2, <1>4 DEF Fits, h2
<1>5. CASE ~ (w > 0 /\ h > 0)
  <2>1. h2.width = 0 \/ h2.height = 0
    BY <1>1, <1>2, <1>5
  <2>2. FileSize(h2.width, h2.height) = 54
    BY <1>1, <2>1, EmptyFits
  <2> QED BY <1>3, <2>2 DEF Fits, h2
<1> QED BY <1>4, <1>5

LEMMA FileFits ==
  ASSUME bmp_byte_swap, ImagesFit, NEW name, Exists(name),
         \A n \in DOMAIN written : \E w, h, pixel : Made(written[n], w, h, pixel)
  PROVE  Fits(File(name))
BY MadeFits DEF ImagesFit, File, Exists

LEMMA SourceUnchanged ==
  ASSUME SourceInv, UNCHANGED <<args, inNum, written, input>>
  PROVE  SourceInv'
BY DEF SourceInv, File, Exists

\* The file that is written has the size of the image at hand.
LEMMA SavedMade ==
  ASSUME bmp_byte_swap, ImagesFit, TypeInv, FilterInv, MadeInv, pc = "write",
         ColorBytes >= 0, NEW junk \in JunkBytes
  PROVE  \E pixel :
            /\ Made(Saved(junk), input.width, input.height, pixel)
            /\ \A cell \in Rows(input.height) \X (0 .. input.width - 1) :
                  pixel[cell] = [k \in Colors |-> Resolve(output.color[cell][k], junk)]
<1> DEFINE w == input.width
           h == input.height
           S == Rows(h) \X (0 .. w - 1)
           pixel == [cell \in S |-> [k \in Colors |-> Resolve(output.color[cell][k], junk)]]
<1>1. SizeInv /\ LoopInv /\ Painted /\ SourceInv
  BY DEF FilterInv, TypeInv, MadeInv
<1>2. /\ output.width = w /\ output.height = h /\ w \in Nat /\ h \in Int
      /\ output.color \in [S -> [Colors -> Byte \cup {Junk}]]
  BY <1>1 DEF LoopInv, SizeInv, Painted
<1>3. Writable(w, h)
  <2>1. \A m \in Nat, n \in Int : m * n >= 0 /\ n < 0 => m = 0
    <3> SUFFICES ASSUME NEW m \in Nat, NEW n \in Int, n < 0, m # 0 PROVE m * n < 0
      OBVIOUS
    <3> QED OBVIOUS
  <2>2. w * h >= 0
    BY <1>2 DEF ColorBytes
  <2> QED BY <1>2, <2>1, <2>2 DEF Writable
<1>4. FileSize(w, h) < ULong32
  <2>1. Fits(File(args[inNum])) /\ ~ bmp_read(File(args[inNum])).error
    BY <1>1, FileFits DEF SourceInv, MadeInv
  <2> QED BY <1>1, <2>1 DEF Fits, SizeInv
<1>5. pixel \in [S -> [Colors -> Byte]]
  <2>1. \A b \in Byte \cup {Junk} : Resolve(b, junk) \in Byte
    <3>1. junk \in Byte
      BY FilterAssumption
    <3> QED BY <3>1 DEF Resolve
  <2> HIDE DEF S
  <2> QED BY <1>2, <2>1
<1>6. Saved(junk) = bmp_24_write(w, h, pixel)
  <2>1. DOMAIN output.color = S
    BY <1>2
  <2> HIDE DEF S
  <2> QED BY <1>2, <2>1 DEF Saved
<1> HIDE DEF pixel
<1>7. Made(Saved(junk), w, h, pixel)
  BY <1>3, <1>4, <1>5, <1>6 DEF Made
<1>8. \A cell \in S : pixel[cell] = [k \in Colors |-> Resolve(output.color[cell][k], junk)]
  BY DEF pixel
<1> QED BY <1>7, <1>8

LEMMA NextMadeInv ==
  ASSUME bmp_byte_swap, ImagesFit, TypeInv, FilterInv, MadeInv, [Next]_vars
  PROVE  MadeInv'
<1>1. ASSUME written' = written, pc' \notin {"apply", "write"}
      PROVE  MadeInv'
  BY <1>1 DEF MadeInv
<1>2. ASSUME UNCHANGED <<args, inNum, written, input>>, pc \in {"apply", "write"}
      PROVE  MadeInv'
  BY <1>2, SourceUnchanged DEF MadeInv
<1>3. CASE ReadFails
  BY <1>1, <1>3 DEF ReadFails, NextImage
<1>4. CASE cs1300bmp_readfile
  <2>1. /\ written' = written /\ SourceInv'
    BY <1>4 DEF cs1300bmp_readfile, SourceInv, File, Exists, DeletedTwice
  <2> QED BY <2>1 DEF MadeInv
<1>5. CASE ReadAborts \/ DivideByZero \/ WriteAborts
  BY <1>1, <1>5 DEF ReadAborts, DivideByZero, WriteAborts, Abort
<1>6. CASE FilterPair
  BY <1>2, <1>6 DEF FilterPair
<1>7. CASE NextRow
  BY <1>2, <1>7 DEF NextRow
<1>8. CASE Filtered
  BY <1>2, <1>8 DEF Filtered
<1>9. CASE cs1300bmp_writefile
  <2> DEFINE name == OutputName(args[inNum])
  <2>1. PICK junk \in JunkBytes :
          written' = [n \in DOMAIN written \cup {name} |->
                        IF n = name THEN Saved(junk) ELSE written[n]]
    BY <1>9 DEF cs1300bmp_writefile
  <2>2. pc = "write" /\ ColorBytes >= 0 /\ pc' = "next"
    BY <1>9 DEF cs1300bmp_writefile, NextImage
  <2>3. \E w, h, pixel : Made(Saved(junk), w, h, pixel)
    BY <2>2, SavedMade
  <2> HIDE DEF name
  <2> DEFINE Some(f) == \E w, h, pixel : Made(f, w, h, pixel)
  <2>4. Some(Saved(junk)) /\ \A n \in DOMAIN written : Some(written[n])
    BY <2>3 DEF MadeInv
  <2> HIDE DEF Some
  <2>5. \A n \in DOMAIN written' : Some(written'[n])
    BY <2>1, <2>4
  <2> QED BY <2>2, <2>5 DEF MadeInv, Some
<1>10. CASE WriteFails
  BY <1>1, <1>10 DEF WriteFails, NextImage
<1>11. CASE Return
  BY <1>1, <1>11 DEF Return
<1>12. CASE UNCHANGED vars
  BY <1>12, SourceUnchanged DEF vars, MadeInv
<1> QED
  BY <1>3, <1>4, <1>5, <1>6, <1>7, <1>8, <1>9, <1>10, <1>11, <1>12 DEF Next

LEMMA MadeInvariant ==
  ASSUME bmp_byte_swap, ImagesFit
  PROVE  Spec => []MadeInv
<1>1. Init => MadeInv
  BY DEF Init, MadeInv
<1>2. TypeInv /\ FilterInv /\ MadeInv /\ [Next]_vars => MadeInv'
  BY NextMadeInv
<1> QED BY <1>1, <1>2, TypeInvariant, FilterInvariant, PTL DEF Spec

\* Images of every size: every file written is a whole BMP file with its length in
\* its header, and the program reads it as the format says.
THEOREM WrittenFilesAreWhole ==
  ASSUME bmp_byte_swap, ImagesFit
  PROVE  Spec => []WrittenWellFormed
<1>1. MadeInv => WrittenWellFormed
  BY MadeWellFormed DEF MadeInv, WrittenWellFormed
<1> QED BY <1>1, MadeInvariant, PTL

-----------------------------------------------------------------------------
(* From file to file.  The int and the unsigned long that the program reads, *)
(* and the number that the format means.                                     *)

LEMMA ULongsHuge ==
  ASSUME NEW n \in Int, n >= -(65536 * 32768)
  PROVE  n + ULongs >= IntMax
<1> DEFINE a == 65536
           b == a * a
           c == b * a
           d == c * a
<1>1. a \in Nat /\ a > 1
  OBVIOUS
<1>2. b \in Nat /\ b >= 2 * IntMax
  BY DEF IntMax
<1> HIDE DEF a, b
<1>3. c \in Nat /\ c >= b
  BY <1>1, <1>2, Grows
<1> HIDE DEF c
<1>4. d \in Nat /\ d >= c
  BY <1>1, <1>3, Grows
<1>5. ULongs = d
  BY DEF ULongs, a, b, c
<1> HIDE DEF d
<1>6. n >= -IntMax /\ IntMax \in Nat
  BY DEF IntMax
<1> HIDE DEF IntMax
<1> QED BY <1>2, <1>3, <1>4, <1>5, <1>6

LEMMA NumbersAgree ==
  ASSUME bmp_byte_swap, NEW f, NEW p \in Nat, f[p + 1] \in Byte, f[p + 2] \in Byte,
         f[p + 3] \in Byte, f[p + 4] \in Byte
  PROVE  /\ long_int_read(f, p) < IntMax
         /\ long_int_read(f, p) >= 0 => Little(f, p) = long_int_read(f, p)
         /\ u_long_int_read(f, p) < IntMax => Little(f, p) = u_long_int_read(f, p)
<1> DEFINE b1 == f[p + 1]
           b2 == f[p + 2]
           b3 == f[p + 3]
           b4 == f[p + 4]
           hi == b4 * 256 + b3
           lo == b2 * 256 + b1
           n == long_int_read(f, p)
<1>1. /\ Halves(f, p) = <<hi, lo>>
      /\ Little(f, p) = b1 + 256 * b2 + 65536 * b3 + 16777216 * b4
  <2>1. (p + 2) + 1 = p + 3 /\ (p + 2) + 2 = p + 4
    OBVIOUS
  <2> QED BY <2>1 DEF Halves, u_short_int_read, Little
<1>2. n = (IF hi < 32768 THEN hi ELSE hi - 65536) * 65536 + lo
  BY <1>1 DEF long_int_read
<1>3. b1 \in Byte /\ b2 \in Byte /\ b3 \in Byte /\ b4 \in Byte
  OBVIOUS
<1>4. n \in Int /\ n >= -(65536 * 32768)
  BY LongRead
<1>5. u_long_int_read(f, p) = IF n < 0 THEN n + ULongs ELSE n
  BY DEF u_long_int_read
<1> HIDE DEF b1, b2, b3, b4, n
<1>6. /\ hi \in Nat /\ hi <= 65535 /\ lo \in Nat /\ lo <= 65535
      /\ Little(f, p) = hi * 65536 + lo
  BY <1>1, <1>3 DEF Byte
<1> HIDE DEF hi, lo
<1>7. n < IntMax /\ (n >= 0 => Little(f, p) = n)
  BY <1>2, <1>6 DEF IntMax
<1>8. n + ULongs >= IntMax
  BY <1>4, ULongsHuge
<1>9. u_long_int_read(f, p) < IntMax => n >= 0 /\ u_long_int_read(f, p) = n
  <2>1. CASE n >= 0
    BY <1>4, <1>5, <2>1
  <2>2. CASE ~ (n >= 0)
    <3>1. u_long_int_read(f, p) = n + ULongs
      BY <1>4, <1>5, <2>2
    <3>2. n + ULongs \in Nat /\ IntMax \in Nat
      BY <1>4, ULongsLarge DEF IntMax
    <3> DEFINE u == n + ULongs
    <3> HIDE DEF u, IntMax
    <3> QED BY <1>8, <3>1, <3>2 DEF u
  <2> QED BY <2>1, <2>2
<1> QED BY <1>7, <1>9 DEF n

LEMMA Sizes ==
  ASSUME NEW n \in Nat
  PROVE  /\ n \div 65536 < 32768 <=> n < IntMax
         /\ n \div 65536 < 65536 <=> n < ULong32
BY DEF IntMax, ULong32

\* An ordinary image, with the limits in the words of these lemmas.
Limits(f) ==
  LET h2 == bmp_header2_read(f)
  IN  /\ h2.width < IntMax
      /\ h2.height >= 0 \/ h2.width > 0
      /\ FileSize(h2.width, h2.height) < ULong32
      /\ Little(f, 10) = PaletteEnd(h2.colorsused)

LEMMA OrdinarySizes ==
  ASSUME NEW f \in Seq(Byte), ~ bmp_read(f).error
  PROVE  Ordinary(f) <=> Limits(f)
<1> DEFINE h2 == bmp_header2_read(f)
<1>1. h2.width \in Nat /\ h2.height \in Int
  BY BytesRead, HeaderRead
<1> HIDE DEF h2
<1>2. h2.width \div 65536 < 32768 <=> h2.width < IntMax
  BY <1>1, Sizes
<1>3. FileSize(h2.width, h2.height) \in Nat
  BY <1>1, FileSizeType
<1>4. FileSize(h2.width, h2.height) \div 65536 < 65536
        <=> FileSize(h2.width, h2.height) < ULong32
  BY <1>3, Sizes
<1>5. ~ bmp_read(f).error
  OBVIOUS
<1> DEFINE e == bmp_read(f).error
           x == h2.width \div 65536 < 32768
           y == h2.height >= 0 \/ h2.width > 0
           z == FileSize(h2.width, h2.height) \div 65536 < 65536
           u == Little(f, 10) = PaletteEnd(h2.colorsused)
<1>6. Ordinary(f) <=> (~ e => x /\ y /\ z /\ u)
  BY DEF Ordinary, h2
<1>7. Limits(f) <=> (x /\ y /\ z /\ u)
  BY <1>2, <1>4 DEF Limits, h2
<1> HIDE DEF e, x, y, z, u
<1>8. ~ e
  BY <1>5 DEF e
<1> QED BY <1>6, <1>7, <1>8

LEMMA OrdinaryFit ==
  ASSUME OrdinaryImages
  PROVE  ImagesFit
<1> SUFFICES ASSUME NEW name \in DOMAIN Images PROVE Fits(Images[name])
  BY DEF ImagesFit
<1>1. Images[name] \in Seq(Byte)
  BY FilterAssumption
<1>2. Ordinary(Images[name])
  BY DEF OrdinaryImages
<1> QED BY <1>1, <1>2, OrdinarySizes DEF Fits, Limits

\* Reader and format agree about the header of such an image.
LEMMA OrdinaryHeader ==
  ASSUME bmp_byte_swap, NEW f \in Seq(Byte), ~ bmp_read(f).error, ~ bmp_read(f).shared,
         Ordinary(f), bmp_header2_read(f).height >= 0
  PROVE  LET h2 == bmp_header2_read(f)
         IN  /\ h2.width \in Nat /\ h2.width < IntMax
             /\ h2.height \in Nat /\ h2.height < IntMax
             /\ Little(f, 18) = h2.width /\ Little(f, 22) = h2.height
             /\ Little(f, 10) = PaletteEnd(h2.colorsused)
             /\ PaletteEnd(h2.colorsused) \in Nat
<1> DEFINE h2 == bmp_header2_read(f)
<1>1. h2.width \in Nat /\ h2.height \in Int /\ h2.colorsused \in Nat
  BY PixelsRead
<1>2. h2.width = u_long_int_read(f, 18) /\ h2.height = long_int_read(f, 22)
  <2>1. Header1Size + 4 = 18 /\ Header1Size + 8 = 22
    BY DEF Header1Size
  <2> QED BY <2>1 DEF bmp_header2_read
<1>3. \A n \in 1 .. 54 : f[n] \in Byte
  <2>1. Len(f) >= 54
    <3>1. ~ Len(f) < Header1Size + Header2Size
      BY DEF bmp_read, Failed
    <3>2. Header1Size + Header2Size = 54
      BY DEF Header1Size, Header2Size
    <3> QED BY <3>1, <3>2, BytesRead
  <2> QED BY <2>1, BytesRead DEF HeaderBytes
<1>4. /\ f[18 + 1] \in Byte /\ f[18 + 2] \in Byte /\ f[18 + 3] \in Byte /\ f[18 + 4] \in Byte
      /\ f[22 + 1] \in Byte /\ f[22 + 2] \in Byte /\ f[22 + 3] \in Byte /\ f[22 + 4] \in Byte
  BY <1>3
<1>5. h2.width < IntMax => Little(f, 18) = h2.width
  BY <1>2, <1>4, NumbersAgree
<1>6. h2.height < IntMax /\ (h2.height >= 0 => Little(f, 22) = h2.height)
  BY <1>2, <1>4, NumbersAgree
<1>7. h2.width < IntMax /\ Little(f, 10) = PaletteEnd(h2.colorsused)
  BY OrdinarySizes DEF Limits
<1>8. h2.height >= 0
  OBVIOUS
<1> HIDE DEF h2
<1>9. PaletteEnd(h2.colorsused) \in Nat
  BY <1>1 DEF PaletteEnd, Header1Size, Header2Size
<1>10. h2.height \in Nat
  BY <1>1, <1>8
<1> QED BY <1>1, <1>5, <1>6, <1>7, <1>8, <1>9, <1>10 DEF h2

\* The pixels of a whole file are bytes.
LEMMA ImageBytes ==
  ASSUME NEW f \in Seq(Byte), NEW w \in Nat, NEW h \in Nat, NEW p \in Nat,
         Little(f, 10) = p, Little(f, 18) = w, Little(f, 22) = h, Whole(f),
         NEW cell \in (0 .. h - 1) \X (0 .. w - 1)
  PROVE  ImageOf(f)[cell] \in [Colors -> Byte]
<1> DEFINE line == LineBytes(3 * w)
           at(k) == p + cell[1] * line + 3 * cell[2] + k + 1
<1>1. Stride(f) = line
  BY StrideIsLine DEF Stride
<1>2. line \in Nat
  BY LineSize
<1>3. /\ cell[1] \in Nat /\ cell[1] < h /\ cell[2] \in Nat /\ cell[2] < w
  OBVIOUS
<1>4. Len(f) >= p + (h - 1) * line + 3 * w /\ Len(f) \in Nat
  BY <1>1, BytesRead DEF Whole
<1>5. ASSUME NEW k \in 0 .. 2 PROVE f[at(k)] \in Byte
  <2> DEFINE n == at(k)
  <2>1. n <= Len(f)
    <3> HIDE DEF line
    <3> QED BY <1>2, <1>3, <1>4, CellInFile
  <2>2. n \in Nat \ {0}
    <3>1. k \in Nat
      OBVIOUS
    <3> QED BY <1>3, <3>1, PlaceType
  <2> HIDE DEF n
  <2>3. f[n] \in Byte
    BY <1>4, <2>1, <2>2, BytesRead
  <2> QED BY <2>3 DEF n
<1>6. ImageOf(f)[cell] = [k \in Colors |-> f[at(Plane[k])]]
  BY <1>1, Zenon DEF ImageOf
<1>7. \A k \in Colors : Plane[k] \in 0 .. 2
  BY DEF Plane, Colors
<1> HIDE DEF at
<1> QED BY <1>5, <1>6, <1>7

\* The image in memory is the image of the file, if all of it is there.
LEMMA CopiedIsImage ==
  ASSUME bmp_byte_swap, NEW f \in Seq(Byte), ~ bmp_read(f).error, ~ bmp_read(f).shared,
         Ordinary(f), bmp_header2_read(f).height >= 0, Whole(f), NEW junk,
         NEW cell \in (0 .. Little(f, 22) - 1) \X (0 .. Little(f, 18) - 1)
  PROVE  Copied(bmp_read(f), junk).color[cell] = ImageOf(f)[cell]
<1> DEFINE h2 == bmp_header2_read(f)
           w == h2.width
           h == h2.height
           p == PaletteEnd(h2.colorsused)
           image == bmp_read(f)
<1>1. /\ w \in Nat /\ h \in Nat /\ p \in Nat
      /\ Little(f, 18) = w /\ Little(f, 22) = h /\ Little(f, 10) = p
  BY OrdinaryHeader
<1>2. /\ image.width = w /\ image.height = h
      /\ image.pixel = bmp_24_data_read(f, p, w, h).pixel
  BY PixelsRead
<1> HIDE DEF image, w, h, p
<1>3. cell \in (0 .. h - 1) \X (0 .. w - 1) /\ Len(f) \in Nat
  BY <1>1, BytesRead
<1>4. image.pixel[cell] = ImageOf(f)[cell]
  BY <1>1, <1>2, <1>3, PixelsAgree
<1>5. ImageOf(f)[cell] \in [Colors -> Byte]
  BY <1>1, <1>3, ImageBytes
<1>6. Copied(image, junk).color[cell] = [k \in Colors |-> Resolve(image.pixel[cell][k], junk)]
  <2>1. cell \in Rows(image.height) \X (0 .. image.width - 1)
    BY <1>2, <1>3 DEF Rows
  <2> QED BY <2>1, Zenon DEF Copied
<1>7. Junk \notin Byte
  <2>1. \A b \in Byte : b \in Int
    BY DEF Byte
  <2> QED BY <2>1, BmpAssumption
<1> DEFINE v == ImageOf(f)[cell]
<1> HIDE DEF v
<1>8. v \in [Colors -> Byte] /\ image.pixel[cell] = v
  BY <1>4, <1>5 DEF v
<1>9. [k \in Colors |-> Resolve(v[k], junk)] = v
  BY <1>7, <1>8 DEF Resolve
<1> QED BY <1>6, <1>8, <1>9 DEF v, image

\* Quotient and remainder are the only numbers of their kind.
LEMMA QuotientIs ==
  ASSUME NEW line \in Nat, NEW q \in Nat, NEW r \in Nat, r < line
  PROVE  (line * q + r) \div line = q /\ (line * q + r) % line = r
<1> DEFINE a == line * q + r
           x == a \div line
           y == a % line
<1>1. a \in Nat /\ line \in Nat \ {0}
  BY SMT
<1>2. x \in Nat /\ y \in 0 .. line - 1 /\ a = line * x + y
  <2> HIDE DEF a
  <2> QED BY <1>1, Divided
<1> HIDE DEF x, y
<1>3. line * q + r = line * x + y /\ y \in Nat /\ y < line
  BY <1>1, <1>2
<1>4. ASSUME NEW d \in Nat, x = q + 1 + d PROVE FALSE
  <2>1. line * x = line * q + line + line * d /\ line * d \in Nat /\ line * q \in Nat
    BY <1>4
  <2> QED BY <1>3, <2>1
<1>5. ASSUME NEW d \in Nat, q = x + 1 + d PROVE FALSE
  <2>1. line * q = line * x + line + line * d /\ line * d \in Nat /\ line * x \in Nat
    BY <1>2, <1>5
  <2> QED BY <1>3, <2>1
<1>6. x = q
  <2>1. x > q => x - q - 1 \in Nat /\ x = q + 1 + (x - q - 1)
    BY <1>2
  <2>2. x < q => q - x - 1 \in Nat /\ q = x + 1 + (q - x - 1)
    BY <1>2
  <2> QED BY <1>2, <1>4, <1>5, <2>1, <2>2
<1>7. y = r
  <2>1. line * q \in Nat /\ line * x = line * q
    BY <1>6
  <2> QED BY <1>3, <2>1
<1> QED BY <1>6, <1>7 DEF x, y

\* Where the writer puts colour k of a cell.
LEMMA DataCell ==
  ASSUME NEW w \in Nat, NEW h \in Nat, NEW pixel,
         NEW r \in Nat, r < h, NEW c \in Nat, c < w, NEW k \in 0 .. 2
  PROVE  LET n == r * LineBytes(3 * w) + 3 * c + k + 1
             p == pixel[<<r, c>>]
         IN  /\ n \in 1 .. h * LineBytes(3 * w)
             /\ bmp_24_data_write(w, h, pixel)[n]
                  = IF k = 0 THEN p.blue ELSE IF k = 1 THEN p.green ELSE p.red
<1> DEFINE line == LineBytes(3 * w)
           i == 3 * c + k
           n == r * line + 3 * c + k + 1
           p == pixel[<<r, c>>]
<1>1. line \in Nat /\ line >= 3 * w /\ AbsVal(h) = h
  BY LineSize DEF AbsVal
<1>2. i \in Nat /\ i < 3 * w /\ i \div 3 = c /\ i % 3 = k
  <2>1. i \in Nat /\ i < 3 * w
    OBVIOUS
  <2>2. i \div 3 = c /\ i % 3 = k
    OBVIOUS
  <2> QED BY <2>1, <2>2
<1>3. bmp_24_data_write(w, h, pixel)
        = [m \in 1 .. h * line |->
             IF (m - 1) % line >= 3 * w THEN Zero
             ELSE IF ((m - 1) % line) % 3 = 0
                  THEN pixel[<<(m - 1) \div line, ((m - 1) % line) \div 3>>].blue
             ELSE IF ((m - 1) % line) % 3 = 1
                  THEN pixel[<<(m - 1) \div line, ((m - 1) % line) \div 3>>].green
                  ELSE pixel[<<(m - 1) \div line, ((m - 1) % line) \div 3>>].red]
  BY <1>1, Zenon DEF bmp_24_data_write
<1> HIDE DEF line
<1>4. r * line \in Nat /\ line * r = r * line
  BY <1>1
<1>5. n \in Nat /\ n >= 1 /\ n - 1 = line * r + i
  <2> DEFINE m == r * line
  <2>1. m \in Nat /\ line * r = m
    BY <1>4
  <2> HIDE DEF m
  <2>2. n = m + 3 * c + k + 1
    BY DEF m
  <2> HIDE DEF n
  <2>3. k \in Nat
    OBVIOUS
  <2> QED BY <2>1, <2>2, <2>3
<1>6. n <= h * line
  <2>1. PICK d \in Nat : h = r + 1 + d
    <3>1. h - r - 1 \in Nat /\ h = r + 1 + (h - r - 1)
      OBVIOUS
    <3> QED BY <3>1
  <2>2. h * line = r * line + line + d * line /\ d * line \in Nat
    BY <1>1, <2>1
  <2>3. i < line
    BY <1>1, <1>2
  <2> HIDE DEF n, i
  <2> QED BY <1>1, <1>2, <1>4, <1>5, <2>2, <2>3
<1>7. (n - 1) \div line = r /\ (n - 1) % line = i
  <2>1. i \in Nat /\ i < line
    BY <1>1, <1>2
  <2> HIDE DEF n, i
  <2>2. (line * r + i) \div line = r /\ (line * r + i) % line = i
    BY <1>1, <2>1, QuotientIs
  <2> QED BY <1>5, <2>2
<1>8. n \in 1 .. h * line
  <2>1. h * line \in Nat
    BY <1>1
  <2> HIDE DEF n
  <2> QED BY <1>5, <1>6, <2>1
<1>9. ~ (i >= 3 * w)
  BY <1>2
<1> HIDE DEF n, i
<1>10. bmp_24_data_write(w, h, pixel)[n]
         = IF k = 0 THEN p.blue ELSE IF k = 1 THEN p.green ELSE p.red
  BY <1>2, <1>3, <1>7, <1>8, <1>9, Zenon
<1> QED BY <1>8, <1>10 DEF n, line

\* The header of a file that the program writes for an image with ints for sides.
LEMMA MadeSides ==
  ASSUME bmp_byte_swap, NEW f, NEW w, NEW h, NEW pixel, Made(f, w, h, pixel),
         w < IntMax, h >= 0, h < IntMax
  PROVE  LET h2 == bmp_header2_read(f)
         IN  /\ Little(f, 18) = w /\ Little(f, 22) = h /\ h2.width = w /\ h2.height = h
             /\ w \in Nat /\ h \in Nat
<1>1. /\ w \in Nat /\ h \in Int /\ f = bmp_24_write(w, h, pixel) /\ Writable(w, h)
      /\ pixel \in [Rows(h) \X (0 .. w - 1) -> [Colors -> Byte]]
  BY DEF Made, Writable
<1>2. h \in Nat
  BY <1>1
<1>3. w < ULong32 /\ h < ULong32
  BY <1>1, <1>2 DEF ULong32, IntMax
<1>4. Holds(f, 18, u_long_int_write(w)) /\ Holds(f, 22, long_int_write(h))
  BY <1>1, FileFields
<1>5. Holds(f, 22, u_long_int_write(h))
  BY <1>2, <1>3, <1>4, LongAsULong
<1>6. /\ bmp_header2_read(f).width = u_long_int_read(f, 18)
      /\ bmp_header2_read(f).height = long_int_read(f, 22)
  <2>1. Header1Size + 4 = 18 /\ Header1Size + 8 = 22
    BY DEF Header1Size
  <2> QED BY <2>1 DEF bmp_header2_read
<1>7. 18 \in Nat /\ 22 \in Nat
  OBVIOUS
<1>8. Little(f, 18) = w /\ u_long_int_read(f, 18) = w
  BY <1>1, <1>3, <1>4, <1>7, ULongBack
<1>9. Little(f, 22) = h /\ long_int_read(f, 22) = h
  BY <1>2, <1>3, <1>5, <1>7, ULongBack
<1> QED BY <1>1, <1>2, <1>6, <1>8, <1>9

\* What is written is ordinary again.
LEMMA MadeOrdinary ==
  ASSUME bmp_byte_swap, NEW f, NEW w, NEW h, NEW pixel, Made(f, w, h, pixel),
         w < IntMax, h >= 0, h < IntMax
  PROVE  Ordinary(f)
<1> DEFINE h2 == bmp_header2_read(f)
<1>1. h2.width = w /\ h2.height = h /\ FileSize(w, h) < ULong32
  BY MadeSides DEF Made
<1>2. Little(f, 10) = 54 /\ h2.colorsused = 0
  BY MadeHeader
<1>3. PaletteEnd(0) = 54
  BY DEF PaletteEnd, Header1Size, Header2Size
<1> HIDE DEF h2
<1>4. /\ h2.width < IntMax /\ h2.height >= 0 /\ FileSize(h2.width, h2.height) < ULong32
      /\ Little(f, 10) = PaletteEnd(h2.colorsused)
  BY <1>1, <1>2, <1>3
<1>5. f \in Seq(Byte)
  BY MadeHeader
<1> QED BY <1>4, <1>5, OrdinarySizes DEF h2, Limits, Ordinary

\* A file that is written holds, by the format, the image it was written for.
LEMMA MadeImage ==
  ASSUME bmp_byte_swap, NEW f, NEW w, NEW h, NEW pixel, Made(f, w, h, pixel),
         w < IntMax, h >= 0, h < IntMax,
         NEW cell \in (0 .. h - 1) \X (0 .. w - 1)
  PROVE  ImageOf(f)[cell] = pixel[cell]
<1> DEFINE h2 == bmp_header2_read(f)
           data == bmp_24_data_write(w, h, pixel)
           line == LineBytes(3 * w)
<1>1. /\ Little(f, 18) = w /\ Little(f, 22) = h /\ h2.width = w /\ h2.height = h
      /\ w \in Nat /\ h \in Nat
  BY MadeSides
<1>2. /\ Writable(w, h) /\ f = bmp_24_write(w, h, pixel)
      /\ pixel \in [Rows(h) \X (0 .. w - 1) -> [Colors -> Byte]]
  BY DEF Made
<1>3. f \in Seq(Byte) /\ Holds(f, 54, data)
  BY <1>2, FileFields
<1>4. Len(data) = h * line
  <2>1. Len(data) = AbsVal(h) * line
    BY <1>2, DataWritten
  <2> QED BY <1>1, <2>1 DEF AbsVal
<1>5. bmp_read(f).pixel[cell] = ImageOf(f)[cell]
  <2>1. cell \in DOMAIN ImageOf(f)
    BY <1>1 DEF ImageOf
  <2>2. WellFormed(f)
    BY MadeWellFormed
  <2> QED BY <2>1, <2>2 DEF WellFormed
<1>6. bmp_read(f).pixel = bmp_24_data_read(f, 54, w, h).pixel
  <2>1. h2.colorsused = 0 /\ PaletteEnd(0) = 54
    BY MadeHeader DEF PaletteEnd, Header1Size, Header2Size
  <2>2. ~ bmp_read(f).error /\ ~ bmp_read(f).shared
    BY MadeRead
  <2> QED BY <1>1, <1>3, <2>1, <2>2, PixelsRead
<1> PICK r \in Nat, c \in Nat : cell = <<r, c>> /\ r < h /\ c < w
  BY <1>1
<1> DEFINE p == pixel[<<r, c>>]
<1> HIDE DEF data, h2
<1>7. ASSUME NEW k \in 0 .. 2
      PROVE  ByteAt(f, 54, w, cell, k)
               = IF k = 0 THEN p.blue ELSE IF k = 1 THEN p.green ELSE p.red
  <2> DEFINE n == r * line + 3 * c + k + 1
             at == 54 + r * line + 3 * c + k + 1
  <2>1. /\ n \in 1 .. h * line
        /\ data[n] = IF k = 0 THEN p.blue ELSE IF k = 1 THEN p.green ELSE p.red
    BY <1>1, DataCell DEF data
  <2>2. at = 54 + n
    <3> DEFINE m == r * line
    <3>1. m \in Nat
      <4>1. line \in Nat
        BY <1>1, LineSize
      <4> HIDE DEF line
      <4> QED BY <4>1
    <3> HIDE DEF m
    <3>2. n = m + 3 * c + k + 1 /\ at = 54 + m + 3 * c + k + 1
      BY DEF m
    <3> HIDE DEF n, at
    <3> QED BY <3>1, <3>2
  <2>3. ByteAt(f, 54, w, cell, k) = IF at <= Len(f) THEN f[at] ELSE Junk
    BY DEF ByteAt
  <2> HIDE DEF n, at, line, p
  <2>4. n \in 1 .. Len(data) /\ Len(f) \in Nat
    BY <1>3, <1>4, <2>1, BytesRead
  <2>5. at <= Len(f) /\ f[at] = data[n]
    <3>1. 54 + Len(data) <= Len(f) /\ f[54 + n] = data[n]
      BY <1>3, <2>4 DEF Holds
    <3>2. Len(data) \in Nat
      BY <1>2, DataWritten DEF data
    <3> QED BY <2>2, <2>4, <3>1, <3>2
  <2> QED BY <2>1, <2>3, <2>5
<1>8. bmp_24_data_read(f, 54, w, h).pixel[cell]
        = [blue |-> p.blue, green |-> p.green, red |-> p.red]
  <2>1. cell \in Rows(h) \X (0 .. w - 1) /\ h \in Int
    BY <1>1 DEF Rows
  <2>2. bmp_24_data_read(f, 54, w, h).pixel[cell]
          = [blue  |-> ByteAt(f, 54, w, cell, 0),
             green |-> ByteAt(f, 54, w, cell, 1),
             red   |-> ByteAt(f, 54, w, cell, 2)]
    BY <1>1, <2>1, CellRead
  <2>3. 0 \in 0 .. 2 /\ 1 \in 0 .. 2 /\ 2 \in 0 .. 2
    OBVIOUS
  <2> HIDE DEF p
  <2> QED BY <1>7, <2>2, <2>3
<1>9. pixel[cell] = [blue |-> p.blue, green |-> p.green, red |-> p.red]
  <2>1. p \in [Colors -> Byte]
    <3>1. r \in Rows(h) /\ c \in 0 .. w - 1
      BY <1>1 DEF Rows
    <3> QED BY <1>2, <3>1
  <2>2. pixel[cell] = p
    OBVIOUS
  <2> HIDE DEF p
  <2>3. [blue |-> p.blue, green |-> p.green, red |-> p.red]
          = [k \in Colors |-> IF k = "blue" THEN p.blue
                              ELSE IF k = "green" THEN p.green ELSE p.red]
    BY PixelRecord
  <2>4. p = [k \in Colors |-> p[k]]
    BY <2>1
  <2>5. [k \in Colors |-> p[k]]
          = [k \in Colors |-> IF k = "blue" THEN p.blue
                              ELSE IF k = "green" THEN p.green ELSE p.red]
    <3>1. \A k \in Colors : p[k] = IF k = "blue" THEN p.blue
                                   ELSE IF k = "green" THEN p.green ELSE p.red
      BY DEF Colors
    <3> QED BY <3>1, Zenon
  <2> QED BY <2>2, <2>3, <2>4, <2>5
<1> QED BY <1>5, <1>6, <1>8, <1>9

-----------------------------------------------------------------------------
(* The program, from file to file *)

\* The taps around a cell of the interior lie inside the image.
LEMMA TapsAround ==
  ASSUME NEW h \in Int, NEW w \in Nat, NEW r \in 1 .. h - 2, NEW c \in 1 .. w - 2,
         filter.size \in Nat, filter.size <= 3
  PROVE  \A t \in Taps :
            <<r + t[1] - 1, c + t[2] - 1>> \in (0 .. h - 1) \X (0 .. w - 1)
<1> SUFFICES ASSUME NEW i \in 0 .. filter.size - 1, NEW j \in 0 .. filter.size - 1
             PROVE  <<r + i - 1, c + j - 1>> \in (0 .. h - 1) \X (0 .. w - 1)
  BY DEF Taps
<1>1. r + i - 1 \in 0 .. h - 1 /\ c + j - 1 \in 0 .. w - 1
  OBVIOUS
<1> QED BY <1>1

\* What is inside the image has one filtered value, whatever is kept outside.
LEMMA SameReference ==
  ASSUME NEW h \in Int, NEW w \in Nat, NEW r \in 1 .. h - 2, NEW c \in 1 .. w - 2,
         filter.size \in Nat, filter.size <= 3, NEW a, NEW b,
         \A cell \in (0 .. h - 1) \X (0 .. w - 1) : a[cell] = b[cell]
  PROVE  Reference(a, r, c) = Reference(b, r, c)
<1>1. \A t \in Taps : <<r + t[1] - 1, c + t[2] - 1>> \in (0 .. h - 1) \X (0 .. w - 1)
  BY TapsAround
<1>2. \A t \in Taps : a[<<r + t[1] - 1, c + t[2] - 1>>] = b[<<r + t[1] - 1, c + t[2] - 1>>]
  BY <1>1
<1>3. \A k : [t \in Taps |-> a[<<r + t[1] - 1, c + t[2] - 1>>][k] * filter.data[t]]
               = [t \in Taps |-> b[<<r + t[1] - 1, c + t[2] - 1>>][k] * filter.data[t]]
  BY <1>2, Zenon
<1>4. \A k : Sum([t \in Taps |-> a[<<r + t[1] - 1, c + t[2] - 1>>][k] * filter.data[t]])
               = Sum([t \in Taps |-> b[<<r + t[1] - 1, c + t[2] - 1>>][k] * filter.data[t]])
  BY <1>3, Zenon
<1> QED BY <1>4, Zenon DEF Reference

\* The filtered values are bytes.
LEMMA ReferenceByte ==
  ASSUME filter \in readFilter, filter.divisor # 0, filter.size <= 3,
         NEW h \in Int, NEW w \in Nat, NEW r \in 1 .. h - 2, NEW c \in 1 .. w - 2,
         NEW a \in [(0 .. h - 1) \X (0 .. w - 1) -> [Colors -> Byte]]
  PROVE  Reference(a, r, c) \in [Colors -> Byte]
<1>1. filter.size \in Nat /\ filter.divisor \in Int /\ \A t \in Taps : filter.data[t] \in Int
  BY FilterNumbers
<1>2. \A t \in Taps : a[<<r + t[1] - 1, c + t[2] - 1>>] \in [Colors -> Byte]
  <2>1. \A t \in Taps : <<r + t[1] - 1, c + t[2] - 1>> \in (0 .. h - 1) \X (0 .. w - 1)
    BY <1>1, TapsAround
  <2> QED BY <2>1
<1>3. \A b \in Byte : b \in Int
  BY DEF Byte
<1>4. \A m, n \in Int : m * n \in Int
  OBVIOUS
<1> DEFINE g(k) == [t \in Taps |-> a[<<r + t[1] - 1, c + t[2] - 1>>][k] * filter.data[t]]
<1>5. ASSUME NEW k \in Colors PROVE Sum(g(k)) \in Int
  <2>1. DOMAIN g(k) = Taps /\ \A t \in Taps : g(k)[t] \in Int
    BY <1>1, <1>2, <1>3, <1>4
  <2> HIDE DEF g
  <2> QED BY <1>1, <2>1, TapsSum
<1>6. Reference(a, r, c) = [k \in Colors |-> Clamp(CDiv(Sum(g(k)), filter.divisor))]
  BY Zenon DEF Reference
<1>7. \A n \in Int : Clamp(CDiv(n, filter.divisor)) \in Byte
  BY <1>1, Quotient, Clamped
<1> HIDE DEF g
<1> QED BY <1>5, <1>6, <1>7

\* Files are ordinary, and a divisor that is 0 is met at the first cell.
PlainInv ==
  /\ \A name \in DOMAIN written : Ordinary(written[name])
  /\ (pc \in {"apply", "write"} /\ filter.divisor = 0) =>
        Interior = {} \/ (pc = "apply" /\ row = 1 /\ col = 1)

LEMMA FileOrdinary ==
  ASSUME OrdinaryImages, PlainInv, NEW name, Exists(name)
  PROVE  Ordinary(File(name))
BY DEF OrdinaryImages, PlainInv, File, Exists

\* The file that is written, the image at hand and the file it was read from.
LEMMA WrittenSides ==
  ASSUME bmp_byte_swap, OrdinaryImages, TypeInv, FilterInv, MadeInv, PlainInv,
         pc = "write", ColorBytes >= 0
  PROVE  LET f == File(args[inNum])
         IN  /\ f \in Seq(Byte) /\ ~ bmp_read(f).error /\ ~ bmp_read(f).shared
             /\ Ordinary(f) /\ bmp_header2_read(f).height >= 0
             /\ Little(f, 18) = input.width /\ Little(f, 22) = input.height
             /\ input.width \in Nat /\ input.width < IntMax
             /\ input.height \in Nat /\ input.height < IntMax
<1> DEFINE f == File(args[inNum])
           h2 == bmp_header2_read(f)
<1>1. SizeInv /\ LoopInv /\ SourceInv /\ TypeOK
  BY DEF FilterInv, TypeInv, MadeInv
<1>2. f \in Seq(Byte) /\ ~ bmp_read(f).error /\ ~ bmp_read(f).shared /\ Ordinary(f)
  BY <1>1, FileType, FileOrdinary DEF SourceInv
<1>3. /\ input.width = h2.width /\ input.height = h2.height
      /\ input.width \in Nat /\ input.height \in Int
  BY <1>1 DEF SizeInv
<1>4. h2.height >= 0
  <2>1. input.width * input.height >= 0
    <3>1. output.width = input.width /\ output.height = input.height
      BY <1>1 DEF LoopInv
    <3> QED BY <3>1 DEF ColorBytes
  <2>2. \A m \in Nat, n \in Int : m * n >= 0 /\ n < 0 => ~ (m > 0)
    <3> SUFFICES ASSUME NEW m \in Nat, NEW n \in Int, n < 0, m > 0 PROVE m * n < 0
      OBVIOUS
    <3> QED OBVIOUS
  <2>3. h2.height >= 0 \/ h2.width > 0
    BY <1>2, OrdinarySizes DEF Limits
  <2> HIDE DEF h2
  <2> QED BY <1>3, <2>1, <2>2, <2>3
<1>5. /\ h2.width \in Nat /\ h2.width < IntMax
      /\ h2.height \in Nat /\ h2.height < IntMax
      /\ Little(f, 18) = h2.width /\ Little(f, 22) = h2.height
  BY <1>2, <1>4, OrdinaryHeader
<1> HIDE DEF h2, f
<1> QED BY <1>2, <1>3, <1>4, <1>5 DEF h2, f

LEMMA NextPlainInv ==
  ASSUME bmp_byte_swap, OrdinaryImages, TypeInv, FilterInv, MadeInv, PlainInv, [Next]_vars
  PROVE  PlainInv'
<1>1. ASSUME written' = written, pc' \notin {"apply", "write"}
      PROVE  PlainInv'
  BY <1>1 DEF PlainInv
<1>2. ASSUME pc \in {"apply", "write"}
      PROVE  /\ input.width \in Nat /\ input.height \in Int
             /\ row \in Nat \ {0} /\ col \in Nat \ {0}
  BY <1>2 DEF FilterInv, SizeInv, LoopInv
<1>3. ASSUME UNCHANGED <<input, filter, written>> , pc \in {"apply", "write"},
             Interior = {} \/ filter.divisor # 0
      PROVE  PlainInv'
  <2>1. Interior' = Interior
    BY <1>3 DEF Interior
  <2> QED BY <1>3, <2>1 DEF PlainInv
<1>4. CASE ReadFails
  BY <1>1, <1>4 DEF ReadFails, NextImage
<1>5. CASE cs1300bmp_readfile
  <2>1. UNCHANGED <<written, row, col>> /\ pc' = "apply" /\ row = 1 /\ col = 1
    BY <1>5 DEF cs1300bmp_readfile, FilterInv, FilesInv
  <2> QED BY <2>1 DEF PlainInv
<1>6. CASE ReadAborts \/ DivideByZero \/ WriteAborts
  BY <1>1, <1>6 DEF ReadAborts, DivideByZero, WriteAborts, Abort
<1>7. CASE FilterPair
  BY <1>3, <1>7 DEF FilterPair
<1>8. CASE NextRow
  <2>1. /\ pc = "apply" /\ row < input.height - 1 /\ ~ (col < input.width - 1)
        /\ UNCHANGED <<input, filter, written>>
    BY <1>8 DEF NextRow, ColumnsLeft
  <2>2. Interior = {} \/ filter.divisor # 0
    <3>1. CASE row = 1 /\ col = 1
      <4>1. ~ (1 < input.width - 1) /\ input.width \in Nat
        BY <1>2, <2>1, <3>1
      <4>2. 1 .. input.width - 2 = {}
        BY <4>1
      <4> QED BY <4>2 DEF Interior
    <3> QED BY <2>1, <3>1 DEF PlainInv
  <2> QED BY <1>3, <2>1, <2>2
<1>9. CASE Filtered
  <2>1. /\ pc = "apply" /\ ~ (row < input.height - 1)
        /\ UNCHANGED <<input, filter, written>>
    BY <1>9 DEF Filtered
  <2>2. Interior = {} \/ filter.divisor # 0
    <3>1. CASE row = 1 /\ col = 1
      <4>1. ~ (1 < input.height - 1) /\ input.height \in Int
        BY <1>2, <2>1, <3>1
      <4>2. 1 .. input.height - 2 = {}
        BY <4>1
      <4> QED BY <4>2 DEF Interior
    <3> QED BY <2>1, <3>1 DEF PlainInv
  <2> QED BY <1>3, <2>1, <2>2
<1>10. CASE cs1300bmp_writefile
  <2> DEFINE name == OutputName(args[inNum])
  <2>1. PICK junk \in JunkBytes :
          written' = [n \in DOMAIN written \cup {name} |->
                        IF n = name THEN Saved(junk) ELSE written[n]]
    BY <1>10 DEF cs1300bmp_writefile
  <2>2. pc = "write" /\ ColorBytes >= 0 /\ pc' = "next"
    BY <1>10 DEF cs1300bmp_writefile, NextImage
  <2>3. Ordinary(Saved(junk))
    <3>1. PICK pixel : Made(Saved(junk), input.width, input.height, pixel)
      BY <2>2, SavedMade, OrdinaryFit
    <3>2. input.width < IntMax /\ input.height >= 0 /\ input.height < IntMax
      BY <2>2, WrittenSides
    <3> QED BY <3>1, <3>2, MadeOrdinary
  <2> HIDE DEF name
  <2>4. \A n \in DOMAIN written : Ordinary(written[n])
    BY DEF PlainInv
  <2>5. \A n \in DOMAIN written' : Ordinary(written'[n])
    BY <2>1, <2>3, <2>4
  <2> QED BY <2>2, <2>5 DEF PlainInv
<1>11. CASE WriteFails
  BY <1>1, <1>11 DEF WriteFails, NextImage
<1>12. CASE Return
  BY <1>1, <1>12 DEF Return
<1>13. CASE UNCHANGED vars
  BY <1>13 DEF vars, PlainInv, Interior
<1> QED
  BY <1>4, <1>5, <1>6, <1>7, <1>8, <1>9, <1>10, <1>11, <1>12, <1>13 DEF Next

LEMMA PlainInvariant ==
  ASSUME bmp_byte_swap, OrdinaryImages
  PROVE  Spec => []PlainInv
<1>1. Init => PlainInv
  BY DEF Init, PlainInv
<1>2. TypeInv /\ FilterInv /\ MadeInv /\ PlainInv /\ [Next]_vars => PlainInv'
  BY NextPlainInv
<1>3. Spec => []MadeInv
  BY OrdinaryFit, MadeInvariant
<1> QED BY <1>1, <1>2, <1>3, TypeInvariant, FilterInvariant, PTL DEF Spec

\* One write: the interior of the image in the file is the filtered interior.
LEMMA WriteIsFiltered ==
  ASSUME bmp_byte_swap, OrdinaryImages, SmallFilters,
         TypeInv, FilterInv, MadeInv, PlainInv, cs1300bmp_writefile
  PROVE  LET f == File(args[inNum])
             g == written'[OutputName(args[inNum])]
         IN  /\ Little(g, 18) = Little(f, 18)
             /\ Little(g, 22) = Little(f, 22)
             /\ Whole(f) => \A cell \in Interior :
                  ImageOf(g)[cell] = Reference(ImageOf(f), cell[1], cell[2])
<1> DEFINE f == File(args[inNum])
           name == OutputName(args[inNum])
           w == input.width
           h == input.height
<1>1. PICK junk \in JunkBytes :
        written' = [n \in DOMAIN written \cup {name} |->
                      IF n = name THEN Saved(junk) ELSE written[n]]
  BY DEF cs1300bmp_writefile
<1>2. pc = "write" /\ ColorBytes >= 0
  BY DEF cs1300bmp_writefile
<1>3. written'[name] = Saved(junk)
  BY <1>1
<1> DEFINE g == Saved(junk)
<1>4. /\ f \in Seq(Byte) /\ ~ bmp_read(f).error /\ ~ bmp_read(f).shared
      /\ Ordinary(f) /\ bmp_header2_read(f).height >= 0
      /\ Little(f, 18) = w /\ Little(f, 22) = h
      /\ w \in Nat /\ w < IntMax /\ h \in Nat /\ h < IntMax
  BY <1>2, WrittenSides
<1>5. PICK pixel :
        /\ Made(g, w, h, pixel)
        /\ \A cell \in Rows(h) \X (0 .. w - 1) :
              pixel[cell] = [k \in Colors |-> Resolve(output.color[cell][k], junk)]
  BY <1>2, SavedMade, OrdinaryFit
<1>6. h >= 0
  BY <1>4
<1> HIDE DEF f, name, g
<1>7. Little(g, 18) = w /\ Little(g, 22) = h
  BY <1>4, <1>5, <1>6, MadeSides
<1>8. /\ SizeInv /\ LoopInv /\ PassedInv /\ Painted /\ SourceInv
      /\ filter \in readFilter
  BY <1>2 DEF FilterInv, FilesInv, TypeInv, MadeInv
<1>9. PICK junk2 : input = Copied(bmp_read(f), junk2)
  BY <1>8 DEF SourceInv, f
<1>10. filter.size \in Nat /\ filter.size <= 3
  BY <1>8, FilterFacts DEF readFilter, SmallFilters
<1>11. ASSUME Whole(f), NEW cell \in Interior
       PROVE  ImageOf(g)[cell] = Reference(ImageOf(f), cell[1], cell[2])
  <2> PICK r \in 1 .. h - 2, c \in 1 .. w - 2 : cell = <<r, c>>
    BY DEF Interior
  <2>1. filter.divisor # 0
    BY <1>2, <1>11 DEF PlainInv
  <2>2. output.color[cell] = Reference(input.color, r, c)
    <3>1. Passed(r, c)
      BY <1>2, <1>4, <1>8 DEF LoopInv, Passed
    <3> QED BY <1>8, <1>10, <2>1, <3>1 DEF PassedInv
  <2>3. Reference(input.color, r, c) \in [Colors -> Byte]
    <3> DEFINE a == input.color
    <3>1. a \in [(0 .. h - 1) \X (0 .. w - 1) -> [Colors -> Byte]]
      BY <1>4, <1>8 DEF Painted, Rows
    <3>2. h \in Int /\ w \in Nat /\ r \in 1 .. h - 2 /\ c \in 1 .. w - 2
      BY <1>4
    <3> HIDE DEF a, w, h
    <3>3. Reference(a, r, c) \in [Colors -> Byte]
      BY <1>8, <1>10, <2>1, <3>1, <3>2, ReferenceByte
    <3> QED BY <3>3 DEF a
  <2>4. cell \in (0 .. h - 1) \X (0 .. w - 1) /\ cell \in Rows(h) \X (0 .. w - 1)
    BY <1>4 DEF Rows
  <2>5. ImageOf(g)[cell] = pixel[cell]
    BY <1>4, <1>5, <1>6, <2>4, MadeImage
  <2>6. pixel[cell] = output.color[cell]
    <3>1. Junk \notin Byte
      <4>1. \A b \in Byte : b \in Int
        BY DEF Byte
      <4> QED BY <4>1, BmpAssumption
    <3> DEFINE v == output.color[cell]
    <3>2. v \in [Colors -> Byte]
      BY <2>2, <2>3
    <3>3. pixel[cell] = [k \in Colors |-> Resolve(v[k], junk)]
      BY <1>5, <2>4
    <3> HIDE DEF v
    <3>4. [k \in Colors |-> Resolve(v[k], junk)] = v
      BY <3>1, <3>2 DEF Resolve
    <3> QED BY <3>3, <3>4 DEF v
  <2>7. Reference(input.color, r, c) = Reference(ImageOf(f), r, c)
    <3>1. \A x \in (0 .. h - 1) \X (0 .. w - 1) : input.color[x] = ImageOf(f)[x]
      <4> SUFFICES ASSUME NEW x \in (0 .. h - 1) \X (0 .. w - 1)
                   PROVE  input.color[x] = ImageOf(f)[x]
        OBVIOUS
      <4>1. x \in (0 .. Little(f, 22) - 1) \X (0 .. Little(f, 18) - 1)
        BY <1>4
      <4>2. Copied(bmp_read(f), junk2).color[x] = ImageOf(f)[x]
        BY <1>4, <1>11, <4>1, CopiedIsImage
      <4> QED BY <1>9, <4>2
    <3>2. h \in Int
      BY <1>4
    <3>3. r \in 1 .. h - 2 /\ c \in 1 .. w - 2
      OBVIOUS
    <3> DEFINE a == input.color
               b == ImageOf(f)
    <3> HIDE DEF w, h, a, b
    <3>4. \A x \in (0 .. h - 1) \X (0 .. w - 1) : a[x] = b[x]
      BY <3>1 DEF a, b
    <3>5. w \in Nat /\ filter.size \in Nat /\ filter.size <= 3
      BY <1>4, <1>10
    <3>6. Reference(a, r, c) = Reference(b, r, c)
      BY ONLY <3>2, <3>3, <3>4, <3>5, SameReference
    <3> QED BY <3>6 DEF a, b
  <2> QED BY <2>2, <2>5, <2>6, <2>7
<1> QED BY <1>3, <1>4, <1>7, <1>11 DEF f, name, g

\* From file to file, for images and filters of every size: the file that is written
\* has the sides of the file that is named, and its interior, read by the format, is
\* the filtered interior of that file, colour by colour.
THEOREM WrittenFilesAreFiltered ==
  ASSUME bmp_byte_swap, OrdinaryImages, SmallFilters
  PROVE  Spec => WrittenIsFiltered
<1> DEFINE Step ==
      written' # written =>
        LET f == File(args[inNum])
            g == written'[OutputName(args[inNum])]
        IN  /\ Little(g, 18) = Little(f, 18)
            /\ Little(g, 22) = Little(f, 22)
            /\ Whole(f) => \A cell \in Interior :
                 ImageOf(g)[cell] = Reference(ImageOf(f), cell[1], cell[2])
<1>1. TypeInv /\ FilterInv /\ MadeInv /\ PlainInv /\ [Next]_vars => Step
  <2> SUFFICES ASSUME TypeInv, FilterInv, MadeInv, PlainInv, [Next]_vars,
                      written' # written
               PROVE  Step
    OBVIOUS
  <2>1. cs1300bmp_writefile
    BY DEF Next, vars, ReadFails, cs1300bmp_readfile, ReadAborts, FilterPair, DivideByZero,
           NextRow, Filtered, WriteFails, WriteAborts, Return, Abort
  <2> QED BY <2>1, WriteIsFiltered, Zenon
<1>2. Spec => []MadeInv /\ []PlainInv
  BY OrdinaryFit, MadeInvariant, PlainInvariant
<1>3. WrittenIsFiltered <=> [][Step]_vars
  BY DEF WrittenIsFiltered
<1> HIDE DEF Step
<1> QED BY <1>1, <1>2, <1>3, TypeInvariant, FilterInvariant, PTL DEF Spec

=============================================================================
