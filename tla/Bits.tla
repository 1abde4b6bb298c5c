-------------------------------- MODULE Bits --------------------------------
(***************************************************************************)
(* The puzzles of lab 1 as bits.c solves them, and the functions of        *)
(* tests.c that say what they should return.  ilog2 is not among them: its *)
(* solution returns a variable that is not declared.                       *)
(***************************************************************************)
EXTENDS Words

(* bits.c *)

bitNor(x, y) == Not(x) \cap Not(y)

fitsShort(x) == Bang(Xor(Shr(Shl(x, 16), 16), x))

\* 0x49 is 0100 1001.
thirdBits ==
  LET x == {0, 3, 6}
      z == Add(x, Shl(x, 9))
  IN  Add(Shl(z, 18), z)

anyEvenBit(x) ==
  LET y == {0, 2, 4, 6} \cup Shl({0, 2, 4, 6}, 8)
      m == y \cup Shl(y, 16)
  IN  Bang(Bang(x \cap m))

copyLSB(x) == Shr(Shl(x, 31), 31)

implication(x, y) == Xor(x, Bang(y)) \cup y

\* The bits are given by number.
bitMask(highbit, lowbit) ==
  LET l == Shl(Not({}), lowbit)
      h == Not(Shl(Shl(Not({}), highbit), 1))
  IN  h \cap l

\* Seeded fault for OnlyStubsFail: negative products are rounded down.
ezThreeFourths_Down(x) == Shr(Times3(x), 2)

ezThreeFourths(x) ==
  LET z   == Times3(x)
      neg == Bang(Bang(Shr(z, 31)))
      o   == Times3(neg)
  IN  Shr(Add(z, o), 2)

satMul3(x) ==
  LET xSignMask == Shr(x, 31)
      xSign     == xSignMask \cap {0}
      mul2      == Add(x, x)
      mul2Sign  == Shr(mul2, 31) \cap {0}
      mul3      == Add(mul2, x)
      mul3Sign  == Shr(mul3, 31) \cap {0}
      overflow  == Xor(xSign, mul2Sign) \cup Xor(mul2Sign, mul3Sign)
      overflowMask      == Shr(Shl(overflow, 31), 31)
      overflowCandidate == Xor(Not(xSignMask), Shl({0}, 31))
  IN  (overflowMask \cap overflowCandidate) \cup (Not(overflowMask) \cap mul3)

Folded(x, k) == Xor(x, Shr(x, k))
bitParity(x) == Folded(Folded(Folded(Folded(Folded(x, 16), 8), 4), 2), 1) \cap {0}

trueThreeFourths(x) ==
  LET s  == Shr(x, 31)
      r  == x \cap {0, 1}
      x1 == Shr(x, 2)
      x2 == Add(x1, Shl(x1, 1))
      r3 == Add(Add(r, Shl(r, 1)), s \cap {0, 1})
  IN  Add(x2, Shr(r3, 2))

\* Stubs.
float_neg(uf)   == Word(2)
float_i2f(x)    == Word(2)
float_twice(uf) == Word(2)

-----------------------------------------------------------------------------
(* tests.c *)

test_bitNor(x, y) == Not(x \cup y)

\* The short is the low half, its sign copied when it is compared.
test_fitsShort(x) ==
  LET sx == (x \cap 0 .. 15) \cup (IF 15 \in x THEN 16 .. 31 ELSE {})
  IN  Truth(x = sx)

test_thirdBits == {i \in Bit : i % 3 = 0}

test_anyEvenBit(x) == Truth(\E i \in Bit : i % 2 = 0 /\ i \in x)

test_copyLSB(x) == IF 0 \in x THEN Bit ELSE {}

test_implication(x, y) == Bang(x \cap Bang(y))

test_bitMask(highbit, lowbit) == lowbit .. highbit

\* A number of the given positions, the highest its sign, divided by four: the
\* quotient of / is rounded towards zero.
Quarter(positions, sign, x) ==
  LET minus(a) == Sum(positions, positions \ a, {0})
      down(a)  == {i \in positions : i + 2 \in a}
  IN  IF sign \in x THEN minus(down(minus(x))) ELSE down(x)

test_ezThreeFourths(x) == Quarter(Bit, Sign, Times3(x))

\* A long long has room for three times an int; three more positions are enough.
Long == 0 .. 34
test_trueThreeFourths(x) ==
  LET wide == x \cup (IF Negative(x) THEN 32 .. 34 ELSE {})
  IN  Quarter(Long, 34, Sum(Long, Sum(Long, wide, wide), wide)) \cap Bit

\* (x+x+x)/3 != x, had the multiplication wrapped around: the product is not
\* three times x.
Overflows(x) ==
  LET wide == x \cup (IF Negative(x) THEN 32 .. 34 ELSE {})
  IN  Sum(Long, Sum(Long, wide, wide), wide) \cap 31 .. 34 \notin {{}, 31 .. 34}

\* Overflow of an int is undefined: a compiler may take the quotient for x, as gcc
\* does, and drop the test.
test_satMul3(x, dropped) ==
  IF ~dropped /\ Overflows(x) THEN IF Negative(x) THEN TMin ELSE TMax
                              ELSE Times3(x)

\* An odd number of ones.
test_bitParity(x) ==
  LET odd[i \in 0 .. 32] == IF i = 0 THEN FALSE ELSE odd[i - 1] # (i - 1 \in x)
  IN  Truth(odd[32])

Exponent == 23 .. 30
Fraction == 0 .. 22
isnan(u) == Exponent \subseteq u /\ u \cap Fraction # {}

test_float_neg(uf) == IF isnan(uf) THEN uf ELSE Xor(uf, {Sign})

\* Twice a number: a denormal is shifted, a normal one gets the next exponent, and
\* the largest exponent stands for infinity.
test_float_twice(uf) ==
  IF Exponent \subseteq uf THEN uf
  ELSE IF uf \cap Exponent = {}
       THEN Shl(uf, 1) \cup (uf \cap {Sign})
  ELSE LET twice == Add(uf, {23})
       IN  IF Exponent \subseteq twice THEN twice \ Fraction ELSE twice

\* An int as a float: the leading one is left out, and what does not fit is rounded
\* to the nearest, ties to even.
test_float_i2f(x) ==
  LET m    == IF Negative(x) THEN Minus(x) ELSE x
      top  == CHOOSE i \in m : \A k \in m : k <= i
      q    == {i \in 0 .. 22 : i + top - 23 \in m}
      rest == {i \in m : i < top - 23}
      half == top - 24
      up   == half \in rest /\ (rest # {half} \/ 0 \in q)
      f    == {i + 23 : i \in Word(top + 127)} \cup q
  IN  IF x = {} THEN {} ELSE Add(f, Truth(up)) \cup (x \cap {Sign})

=============================================================================
