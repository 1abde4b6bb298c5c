----------------------------- MODULE BtestProofs -----------------------------
(***************************************************************************)
(* Proofs that puzzles of lab 1 return what their references return, for   *)
(* every word: the runs try the values that btest generates.  Then, of the *)
(* tester, for any calls, test sets and values drawn: its alarms end the   *)
(* tests they are set for, its arrays hold the values it generates, and    *)
(* no puzzle fails but the stubs.                                          *)
(***************************************************************************)
EXTENDS Btest, WellFoundedInduction, TLAPS

\* bits.c:142 against tests.c:64.
THEOREM bitNorAgrees ==
  ASSUME NEW x \in SUBSET Bit, NEW y \in SUBSET Bit
  PROVE  bitNor(x, y) = test_bitNor(x, y)
  BY DEF bitNor, test_bitNor, Not

\* bits.c:212 against tests.c:91: the arguments are 0 or 1, as the table says.
THEOREM implicationAgrees ==
  ASSUME NEW p \in BOOLEAN, NEW q \in BOOLEAN
  PROVE  implication(Truth(p), Truth(q)) = test_implication(Truth(p), Truth(q))
  BY DEF implication, test_implication, Xor, Bang, Truth

\* Shifting left and right again copies the bit that was the leftmost.
LEMMA SignExtended ==
  ASSUME NEW x \in SUBSET Bit, NEW n \in 0 .. 31
  PROVE  Shr(Shl(x, n), n) = {b \in Bit : IF b + n <= 31 THEN b \in x ELSE 31 - n \in x}
<1>1. ASSUME NEW b \in Bit
      PROVE  b \in Shr(Shl(x, n), n) <=> IF b + n <= 31 THEN b \in x ELSE 31 - n \in x
  BY DEF Shr, Shl, Sign, Bit
<1>2. Shr(Shl(x, n), n) \subseteq Bit
  BY DEF Shr
<1> QED
  BY <1>1, <1>2

\* bits.c:153 against tests.c:68.
THEOREM fitsShortAgrees ==
  ASSUME NEW x \in SUBSET Bit
  PROVE  fitsShort(x) = test_fitsShort(x)
<1> DEFINE sx == (x \cap 0 .. 15) \cup (IF 15 \in x THEN 16 .. 31 ELSE {})
<1>1. Shr(Shl(x, 16), 16) = sx
  <2>1. Shr(Shl(x, 16), 16) = {b \in Bit : IF b + 16 <= 31 THEN b \in x ELSE 31 - 16 \in x}
    BY SignExtended
  <2>2. 31 - 16 = 15
    OBVIOUS
  <2>3. ASSUME NEW b \in Bit
        PROVE  b \in sx <=> IF b + 16 <= 31 THEN b \in x ELSE 15 \in x
    BY DEF Bit
  <2>4. sx \subseteq Bit
    BY DEF Bit
  <2> QED
    BY <2>1, <2>2, <2>3, <2>4
<1> HIDE DEF sx
<1>2. Xor(sx, x) = {} <=> x = sx
  BY DEF Xor
<1> QED
  BY <1>1, <1>2 DEF fitsShort, test_fitsShort, Bang, sx

\* bits.c:198 against tests.c:87.
THEOREM copyLSBAgrees ==
  ASSUME NEW x \in SUBSET Bit
  PROVE  copyLSB(x) = test_copyLSB(x)
<1>1. copyLSB(x) = {b \in Bit : IF b + 31 <= 31 THEN b \in x ELSE 31 - 31 \in x}
  BY SignExtended DEF copyLSB
<1>2. ASSUME NEW b \in Bit
      PROVE  (IF b + 31 <= 31 THEN b \in x ELSE 31 - 31 \in x) <=> 0 \in x
  BY DEF Bit
<1> QED
  BY <1>1, <1>2 DEF test_copyLSB

\* bits.c:226 against tests.c:95, the highest and the lowest bit by number, also when
\* they are the wrong way round.
THEOREM bitMaskAgrees ==
  ASSUME NEW highbit \in 0 .. 31, NEW lowbit \in 0 .. 31
  PROVE  bitMask(highbit, lowbit) = test_bitMask(highbit, lowbit)
<1>1. ASSUME NEW b \in Bit
      PROVE  b \in Shl(Not({}), lowbit) <=> lowbit <= b
  BY DEF Shl, Not, Bit
<1>2. ASSUME NEW b \in Bit
      PROVE  b \in Shl(Shl(Not({}), highbit), 1) <=> highbit < b
  BY DEF Shl, Not, Bit
<1>3. ASSUME NEW b \in Bit
      PROVE  b \in bitMask(highbit, lowbit) <=> b \in lowbit .. highbit
  BY <1>1, <1>2 DEF bitMask, Not, Bit
<1>4. bitMask(highbit, lowbit) \subseteq Bit /\ lowbit .. highbit \subseteq Bit
  BY DEF bitMask, Not, Bit
<1> QED
  BY <1>3, <1>4 DEF test_bitMask

-----------------------------------------------------------------------------
(* The rounding of ezThreeFourths *)

LEMMA Smallest ==
  ASSUME NEW S, S \subseteq Nat, S # {}
  PROVE  \E m \in S : \A k \in S : m <= k
<1>1. PICK m \in S : \A k \in S : ~ (<<k, m>> \in OpToRel(<, Nat))
  BY NatLessThanWellFounded, WFMin, Zenon
<1>2. \A k \in S : <<k, m>> \in OpToRel(<, Nat) <=> k < m
  BY DEF OpToRel
<1>3. \A k \in S : ~ (k < m)
  BY <1>1, <1>2, Zenon
<1> QED
  BY <1>3

\* A digit of a sum is inverted by the carry into its position.
LEMMA SumBits ==
  ASSUME NEW x, NEW y, NEW b \in Bit
  PROVE  b \in Add(x, y) <=> IF Carry(x, y, b) THEN b \in x <=> b \in y
                                              ELSE ~ (b \in x <=> b \in y)
<1>1. Carry(x, y, b) \in BOOLEAN
  BY DEF Carry
<1>2. b \in Add(x, y) <=> (((b \in x) # (b \in y)) # Carry(x, y, b))
  BY DEF Add, Sum
<1> QED
  BY <1>1, <1>2

\* The lowest one of a word stays where it is when the word is negated, the positions
\* above it are inverted.
LEMMA MinusBits ==
  ASSUME NEW x \in SUBSET Bit, NEW b \in Bit
  PROVE  b \in Minus(x) <=> IF \E k \in 0 .. b - 1 : k \in x THEN b \notin x ELSE b \in x
<1>1. Carry(Not(x), {0}, b) <=> (b > 0 /\ ~ \E k \in 0 .. b - 1 : k \in x)
  BY DEF Carry, Not, Bit
<1>2. b \in Minus(x) <=> IF Carry(Not(x), {0}, b) THEN b \in Not(x) <=> b \in {0}
                                                  ELSE ~ (b \in Not(x) <=> b \in {0})
  BY SumBits DEF Minus
<1>3. b \in Not(x) <=> b \notin x
  BY DEF Not
<1>4. b \in {0} <=> b = 0
  OBVIOUS
<1>5. b = 0 => ~ \E k \in 0 .. b - 1 : k \in x
  OBVIOUS
<1>6. b = 0 \/ b > 0
  BY DEF Bit
<1> HIDE DEF Bit
<1> QED
  BY <1>1, <1>2, <1>3, <1>4, <1>5, <1>6

\* Three is added to a word by carries that start in its two lowest positions.
LEMMA PlusThreeBits ==
  ASSUME NEW x \in SUBSET Bit, NEW b \in Bit, b >= 2
  PROVE  b \in Add(x, {0, 1}) <=>
           IF (0 \in x \/ 1 \in x) /\ \A k \in 2 .. b - 1 : k \in x
           THEN b \notin x ELSE b \in x
<1>1. Carry(x, {0, 1}, b) <=> ((0 \in x \/ 1 \in x) /\ \A k \in 2 .. b - 1 : k \in x)
  BY DEF Carry, Bit
<1>2. b \notin {0, 1}
  OBVIOUS
<1> QED
  BY <1>1, <1>2, SumBits

\* The quotient by four that the reference takes of a negative word: negated, shifted
\* to the right, and negated again.
Fourth(z) == {b \in Bit : b + 2 \in z}

\* The lowest one of a fourth of -z is where z has its lowest one above position 1,
\* when z is divisible by four.
LEMMA FourthExact ==
  ASSUME NEW z \in SUBSET Bit, 0 \notin z, 1 \notin z, NEW b \in 0 .. 32
  PROVE  (\E k \in 0 .. b - 1 : k \in Fourth(Minus(z))) <=> (\E k \in 0 .. b - 1 : k + 2 \in z)
<1> DEFINE d == Fourth(Minus(z))
<1>1. ASSUME NEW k \in Bit
      PROVE  k \in d <=> /\ k + 2 \in Bit
                         /\ IF \E j \in 0 .. k + 1 : j \in z THEN k + 2 \notin z
                                                             ELSE k + 2 \in z
  <2>1. k \in d <=> k + 2 \in Minus(z)
    BY DEF Fourth
  <2>2. k + 2 \in Minus(z) => k + 2 \in Bit
    BY DEF Minus, Add, Sum
  <2>3. (k + 2) - 1 = k + 1
    BY DEF Bit
  <2> QED
    BY <2>1, <2>2, <2>3, MinusBits
<1>2. ASSUME NEW k \in 0 .. b - 1, k \in d
      PROVE  \E j \in 0 .. b - 1 : j + 2 \in z
  <2>1. k \in Bit
    BY <1>2 DEF Fourth
  <2>2. CASE k + 2 \in z
    BY <2>2
  <2>3. CASE k + 2 \notin z
    <3>1. PICK j \in 0 .. k + 1 : j \in z
      BY <1>1, <1>2, <2>1, <2>3
    <3>2. j - 2 \in 0 .. b - 1 /\ (j - 2) + 2 \in z
      BY <3>1, <2>1 DEF Bit
    <3> QED
      BY <3>2
  <2> QED
    BY <2>2, <2>3
<1>3. ASSUME NEW k \in 0 .. b - 1, k + 2 \in z
      PROVE  \E j \in 0 .. b - 1 : j \in d
  <2> DEFINE S == {j \in 0 .. b - 1 : j + 2 \in z}
  <2>1. S \subseteq Nat /\ k \in S
    BY <1>3
  <2>2. PICK m \in S : \A j \in S : m <= j
    BY <2>1, Smallest
  <2>3. m \in 0 .. b - 1 /\ m + 2 \in z /\ m \in Bit /\ m + 2 \in Bit
    BY DEF Bit
  <2>4. ASSUME NEW j \in 0 .. m + 1, j \in z
        PROVE  FALSE
    <3>1. j - 2 \in S /\ j - 2 < m
      BY <2>3, <2>4
    <3>2. m \in Int /\ j - 2 \in Int
      BY <2>3
    <3> HIDE DEF S
    <3> QED
      BY <3>1, <3>2, <2>2
  <2>5. m \in d
    BY <1>1, <2>3, <2>4
  <2> QED
    BY <2>3, <2>5
<1> QED
  BY <1>2, <1>3

\* For a negative word, adding three and shifting rounds towards zero as / does.
LEMMA RoundsUp ==
  ASSUME NEW z \in SUBSET Bit, Sign \in z
  PROVE  Shr(Add(z, {0, 1}), 2) = Minus(Fourth(Minus(z)))
<1> DEFINE d == Fourth(Minus(z))
<1>1. ASSUME NEW b \in Bit
      PROVE  b \in d <=> /\ b <= 29
                         /\ IF \E j \in 0 .. b + 1 : j \in z THEN b + 2 \notin z
                                                             ELSE b + 2 \in z
  <2>1. b \in d <=> b + 2 \in Minus(z)
    BY DEF Fourth
  <2>2. b + 2 \in Minus(z) => b + 2 \in Bit
    BY DEF Minus, Add, Sum
  <2>3. (b + 2) - 1 = b + 1 /\ (b + 2 \in Bit <=> b <= 29)
    BY DEF Bit
  <2> QED
    BY <2>1, <2>2, <2>3, MinusBits
<1>2. ASSUME NEW b \in Bit
      PROVE  b \in Minus(d) <=> IF \E k \in 0 .. b - 1 : k \in d THEN b \notin d ELSE b \in d
  <2>1. d \in SUBSET Bit
    BY DEF Fourth
  <2> QED
    BY <2>1, MinusBits
<1>3. ASSUME NEW b \in Bit, b <= 29
      PROVE  b \in Shr(Add(z, {0, 1}), 2) <=>
               IF (0 \in z \/ 1 \in z) /\ \A k \in 2 .. b + 1 : k \in z
               THEN b + 2 \notin z ELSE b + 2 \in z
  <2>1. b + 2 \in Bit /\ b + 2 >= 2 /\ (b + 2) - 1 = b + 1 /\ b + 2 <= Sign
    BY <1>3 DEF Bit, Sign
  <2>2. b \in Shr(Add(z, {0, 1}), 2) <=> b + 2 \in Add(z, {0, 1})
    BY <2>1 DEF Shr
  <2> QED
    BY <2>1, <2>2, PlusThreeBits
<1>4. ASSUME NEW b \in Bit, b > 29
      PROVE  b \in Shr(Add(z, {0, 1}), 2) <=>
               ~ ((0 \in z \/ 1 \in z) /\ \A k \in 2 .. 30 : k \in z)
  <2>1. Sign \in Bit /\ Sign >= 2 /\ Sign - 1 = 30 /\ ~(b + 2 <= Sign)
    BY <1>4 DEF Bit, Sign
  <2>2. b \in Shr(Add(z, {0, 1}), 2) <=> Sign \in Add(z, {0, 1})
    BY <2>1 DEF Shr
  <2> QED
    BY <2>1, <2>2, PlusThreeBits
<1>5. CASE 0 \in z \/ 1 \in z
  <2>1. ASSUME NEW b \in Bit
        PROVE  b \in d <=> b <= 29 /\ b + 2 \notin z
    <3>1. \E j \in 0 .. b + 1 : j \in z
      BY <1>5 DEF Bit
    <3> QED
      BY <1>1, <3>1
  <2>2. ASSUME NEW b \in Bit, b <= 29
        PROVE  (\E k \in 0 .. b - 1 : k \in d) <=> ~ \A k \in 2 .. b + 1 : k \in z
    <3>1. ASSUME NEW k \in 0 .. b - 1, k \in d
          PROVE  k + 2 \in 2 .. b + 1 /\ k + 2 \notin z
      <4>1. k \in Bit
        BY DEF Bit
      <4> QED
        BY <2>1, <3>1, <4>1 DEF Bit
    <3>2. ASSUME NEW k \in 2 .. b + 1, k \notin z
          PROVE  k - 2 \in 0 .. b - 1 /\ k - 2 \in d
      <4>1. k - 2 \in Bit /\ k - 2 <= 29 /\ (k - 2) + 2 = k /\ k - 2 \in 0 .. b - 1
        BY <2>2 DEF Bit
      <4> HIDE DEF d
      <4> QED
        BY <2>1, <3>2, <4>1
    <3> HIDE DEF d
    <3> QED
      BY <3>1, <3>2
  <2>3. ASSUME NEW b \in Bit, b > 29
        PROVE  (\E k \in 0 .. b - 1 : k \in d) <=> ~ \A k \in 2 .. 30 : k \in z
    <3>1. ASSUME NEW k \in 0 .. b - 1, k \in d
          PROVE  k + 2 \in 2 .. 30 /\ k + 2 \notin z
      <4>1. k \in Bit
        BY DEF Bit
      <4>2. k <= 29 /\ k + 2 \notin z
        BY <2>1, <3>1, <4>1
      <4>3. k # 29
        BY <4>2 DEF Sign
      <4> QED
        BY <4>2, <4>3
    <3>2. ASSUME NEW k \in 2 .. 30, k \notin z
          PROVE  k - 2 \in 0 .. b - 1 /\ k - 2 \in d
      <4>1. k - 2 \in Bit /\ k - 2 <= 29 /\ (k - 2) + 2 = k /\ k - 2 \in 0 .. b - 1
        BY <2>3 DEF Bit
      <4> HIDE DEF d
      <4> QED
        BY <2>1, <3>2, <4>1
    <3> HIDE DEF d
    <3> QED
      BY <3>1, <3>2
  <2>4. ASSUME NEW b \in Bit
        PROVE  b \in Shr(Add(z, {0, 1}), 2) <=> b \in Minus(d)
    <3> HIDE DEF d
    <3>1. CASE b <= 29
      BY <3>1, <1>2, <1>3, <1>5, <2>1, <2>2
    <3>2. CASE b > 29
      BY <3>2, <1>2, <1>4, <1>5, <2>1, <2>3 DEF Bit
    <3> QED
      BY <3>1, <3>2 DEF Bit
  <2> QED
    BY <2>4 DEF Shr, Minus, Add, Sum
<1>6. CASE 0 \notin z /\ 1 \notin z
  <2>1. ASSUME NEW b \in Bit
        PROVE  (\E k \in 0 .. b - 1 : k \in d) <=> \E k \in 0 .. b - 1 : k + 2 \in z
    <3>1. b \in 0 .. 32
      BY DEF Bit
    <3> QED
      BY <1>6, <3>1, FourthExact
  <2>2. ASSUME NEW b \in Bit, b <= 29
        PROVE  (\E j \in 0 .. b + 1 : j \in z) <=> \E k \in 0 .. b - 1 : k + 2 \in z
    <3>1. ASSUME NEW j \in 0 .. b + 1, j \in z
          PROVE  j - 2 \in 0 .. b - 1 /\ (j - 2) + 2 \in z
      BY <1>6, <3>1 DEF Bit
    <3>2. ASSUME NEW k \in 0 .. b - 1, k + 2 \in z
          PROVE  k + 2 \in 0 .. b + 1
      BY DEF Bit
    <3> QED
      BY <3>1, <3>2
  <2>3. ASSUME NEW b \in Bit, b <= 29
        PROVE  b \in Minus(d) <=> b + 2 \in z
    <3> HIDE DEF d
    <3> QED
      BY <1>1, <1>2, <2>1, <2>2, <2>3
  <2>4. ASSUME NEW b \in Bit, b > 29
        PROVE  b \in Minus(d)
    <3>1. 29 \in 0 .. b - 1 /\ 29 + 2 \in z
      BY <2>4 DEF Bit, Sign
    <3>2. b \notin d
      BY <1>1, <2>4 DEF Bit
    <3> HIDE DEF d
    <3> QED
      BY <1>2, <2>1, <3>1, <3>2
  <2>5. ASSUME NEW b \in Bit
        PROVE  b \in Shr(Add(z, {0, 1}), 2) <=> b \in Minus(d)
    <3> HIDE DEF d
    <3>1. CASE b <= 29
      BY <3>1, <1>3, <1>6, <2>3
    <3>2. CASE b > 29
      BY <3>2, <1>4, <1>6, <2>4
    <3> QED
      BY <3>1, <3>2 DEF Bit
  <2> QED
    BY <2>5 DEF Shr, Minus, Add, Sum
<1> QED
  BY <1>5, <1>6

LEMMA ZeroAdds ==
  ASSUME NEW x \in SUBSET Bit
  PROVE  Add(x, {}) = x
<1>1. ASSUME NEW b \in Bit
      PROVE  b \in Add(x, {}) <=> b \in x
  <2>1. ~ Carry(x, {}, b)
    BY DEF Carry
  <2> QED
    BY <2>1, SumBits
<1> QED
  BY <1>1 DEF Add, Sum

LEMMA ThreeTimesOne == Times3({0}) = {0, 1} /\ Times3({}) = {}
<1>1. Add({0}, {0}) = {1}
  <2>1. ASSUME NEW b \in Bit
        PROVE  b \in Add({0}, {0}) <=> b = 1
    <3>1. Carry({0}, {0}, b) <=> b = 1
      BY DEF Carry, Bit
    <3> QED
      BY <3>1, SumBits
  <2> QED
    BY <2>1 DEF Add, Sum, Bit
<1>2. Add({1}, {0}) = {0, 1}
  <2>1. ASSUME NEW b \in Bit
        PROVE  b \in Add({1}, {0}) <=> b = 0 \/ b = 1
    <3>1. ~ Carry({1}, {0}, b)
      BY DEF Carry, Bit
    <3> QED
      BY <3>1, SumBits
  <2> QED
    BY <2>1 DEF Add, Sum, Bit
<1>3. Add({}, {}) = {}
  BY ZeroAdds
<1> QED
  BY <1>1, <1>2, <1>3 DEF Times3

\* bits.c:243 against tests.c:103: with the wrapped product taken for z, adding the
\* three only when z is negative rounds as the quotient z / 4 does, at both ends of
\* the range too.
THEOREM ezThreeFourthsAgrees ==
  ASSUME NEW x \in SUBSET Bit
  PROVE  ezThreeFourths(x) = test_ezThreeFourths(x)
<1> DEFINE z == Times3(x)
           neg == Bang(Bang(Shr(z, 31)))
<1>1. z \in SUBSET Bit
  BY DEF Times3, Add, Sum
<1>2. Shr(z, 31) = {} <=> Sign \notin z
  <2>1. ASSUME NEW b \in Bit
        PROVE  b \in Shr(z, 31) <=> Sign \in z
    BY DEF Shr, Sign, Bit
  <2>2. 0 \in Bit /\ Shr(z, 31) \subseteq Bit
    BY DEF Bit, Shr
  <2> QED
    BY <2>1, <2>2
<1>3. neg = IF Sign \in z THEN {0} ELSE {}
  BY <1>2 DEF Bang, Truth
<1>4. ezThreeFourths(x) = Shr(Add(z, Times3(neg)), 2)
  BY DEF ezThreeFourths
<1>5. test_ezThreeFourths(x) = IF Sign \in z THEN Minus(Fourth(Minus(z))) ELSE Fourth(z)
  BY DEF test_ezThreeFourths, Quarter, Minus, Add, Not, Fourth
<1> HIDE DEF z, neg
<1>6. CASE Sign \in z
  BY <1>1, <1>3, <1>4, <1>5, <1>6, ThreeTimesOne, RoundsUp
<1>7. CASE Sign \notin z
  <2>1. ezThreeFourths(x) = Shr(z, 2)
    BY <1>1, <1>3, <1>4, <1>7, ThreeTimesOne, ZeroAdds
  <2>2. ASSUME NEW b \in Bit
        PROVE  b \in Shr(z, 2) <=> b \in Fourth(z)
    BY <1>1, <1>7 DEF Shr, Fourth, Sign, Bit
  <2> QED
    BY <1>5, <1>7, <2>1, <2>2 DEF Shr, Fourth
<1> QED
  BY <1>6, <1>7

\* bits.c:184 against tests.c:80.
THEOREM anyEvenBitAgrees ==
  ASSUME NEW x \in SUBSET Bit
  PROVE  anyEvenBit(x) = test_anyEvenBit(x)
<1> DEFINE y == {0, 2, 4, 6} \cup Shl({0, 2, 4, 6}, 8)
           m == y \cup Shl(y, 16)
<1>1. ASSUME NEW b \in Bit
      PROVE  b \in y <=> b % 2 = 0 /\ b < 16
  BY DEF Shl, Bit
<1>2. ASSUME NEW b \in Bit
      PROVE  b \in Shl(y, 16) <=> b % 2 = 0 /\ b >= 16
  BY DEF Shl, Bit
<1>3. ASSUME NEW b \in Bit
      PROVE  b \in m <=> b % 2 = 0
  BY <1>1, <1>2 DEF Bit
<1>4. x \cap m = {} <=> ~ \E b \in Bit : b % 2 = 0 /\ b \in x
  <2> HIDE DEF m
  <2> QED
    BY <1>3
<1>5. anyEvenBit(x) = Bang(Bang(x \cap m))
  BY DEF anyEvenBit
<1> HIDE DEF m
<1> QED
  BY <1>4, <1>5 DEF test_anyEvenBit, Bang, Truth

-----------------------------------------------------------------------------
(* Sums without carries, and the constant of thirdBits *)

LEMMA DisjointAdds ==
  ASSUME NEW x \in SUBSET Bit, NEW y \in SUBSET Bit, x \cap y = {}
  PROVE  Add(x, y) = x \cup y
<1>1. ASSUME NEW b \in Bit
      PROVE  b \in Add(x, y) <=> b \in x \/ b \in y
  <2>1. ~ Carry(x, y, b)
    BY DEF Carry
  <2> QED
    BY <2>1, SumBits
<1> QED
  BY <1>1 DEF Add, Sum

\* bits.c:164 against tests.c:73.
THEOREM thirdBitsAgrees == thirdBits = test_thirdBits
<1> DEFINE x == {0, 3, 6}
           z == {0, 3, 6, 9, 12, 15}
<1>1. Shl(x, 9) = {9, 12, 15}
  BY DEF Shl, Bit
<1>2. Add(x, {9, 12, 15}) = z
  <2>1. x \in SUBSET Bit /\ {9, 12, 15} \in SUBSET Bit /\ x \cap {9, 12, 15} = {}
    BY DEF Bit
  <2> QED
    BY <2>1, DisjointAdds
<1>3. Shl(z, 18) = {18, 21, 24, 27, 30}
  BY DEF Shl, Bit
<1>4. Add({18, 21, 24, 27, 30}, z) = {18, 21, 24, 27, 30} \cup z
  <2>1. /\ {18, 21, 24, 27, 30} \in SUBSET Bit /\ z \in SUBSET Bit
        /\ {18, 21, 24, 27, 30} \cap z = {}
    BY DEF Bit
  <2> QED
    BY <2>1, DisjointAdds
<1>5. thirdBits = {18, 21, 24, 27, 30} \cup z
  BY <1>1, <1>2, <1>3, <1>4 DEF thirdBits
<1>6. ASSUME NEW b \in Bit
      PROVE  b \in {18, 21, 24, 27, 30} \cup z <=> b % 3 = 0
  BY DEF Bit
<1>7. {18, 21, 24, 27, 30} \cup z \subseteq Bit
  BY DEF Bit
<1> HIDE DEF z
<1> QED
  BY <1>5, <1>6, <1>7 DEF test_thirdBits

-----------------------------------------------------------------------------
(* The overflow test of satMul3 *)

\* The carry into a position is the majority of the digits and the carry below it.
LEMMA CarryIsMajority ==
  ASSUME NEW x, NEW y, NEW b \in Nat
  PROVE  /\ ~ Carry(x, y, 0)
         /\ Carry(x, y, b + 1) <=> \/ b \in x /\ b \in y
                                   \/ (b \in x \/ b \in y) /\ Carry(x, y, b)
  BY DEF Carry

\* A digit of a sum, in the 32 positions of an int or the 35 of the reference.
LEMMA DigitOfSum ==
  ASSUME NEW positions, NEW x, NEW y, NEW b \in positions
  PROVE  b \in Sum(positions, x, y) <=> IF Carry(x, y, b) THEN b \in x <=> b \in y
                                                          ELSE ~ (b \in x <=> b \in y)
<1>1. Carry(x, y, b) \in BOOLEAN
  BY DEF Carry
<1>2. b \in Sum(positions, x, y) <=> (((b \in x) # (b \in y)) # Carry(x, y, b))
  BY DEF Sum
<1> QED
  BY <1>1, <1>2

\* The carry depends on the digits below it only.
LEMMA CarryBelow ==
  ASSUME NEW x, NEW y, NEW u, NEW v, NEW b \in Nat,
         \A k \in 0 .. b - 1 : (k \in x <=> k \in u) /\ (k \in y <=> k \in v)
  PROVE  Carry(x, y, b) <=> Carry(u, v, b)
  BY DEF Carry

\* Twice a word is the word shifted by one.
LEMMA DigitOfDouble ==
  ASSUME NEW positions, NEW x, NEW b \in positions, b \in Nat \ {0}
  PROVE  b \in Sum(positions, x, x) <=> b - 1 \in x
<1>1. (b - 1) + 1 = b /\ b - 1 \in Nat
  OBVIOUS
<1>2. Carry(x, x, b) <=> b - 1 \in x
  <2>1. Carry(x, x, (b - 1) + 1) <=> b - 1 \in x
    BY <1>1, CarryIsMajority
  <2> QED
    BY <1>1, <2>1
<1> QED
  BY <1>2, DigitOfSum

\* The signs of x, 2x and 3x, as 32 bits have them, are equal unless 3x is out of range.
LEMMA SignsTell ==
  ASSUME NEW x \in SUBSET Bit
  PROVE  Overflows(x) <=> ~ /\ Sign \in x <=> Sign \in Add(x, x)
                            /\ Sign \in Add(x, x) <=> Sign \in Times3(x)
<1> DEFINE wide == x \cup (IF Negative(x) THEN 32 .. 34 ELSE {})
           D == Sum(Long, wide, wide)
           T == Sum(Long, D, wide)
           a == Sign \in x
           below == 30 \in x
           c(b) == Carry(D, wide, b)
<1>0. Bit \subseteq Long /\ 32 .. 34 \subseteq Long /\ Long \subseteq Nat /\ Sign = 31
  BY DEF Bit, Long, Sign
<1>1. /\ \A k \in Bit : k \in wide <=> k \in x
      /\ \A k \in 32 .. 34 : k \in wide <=> a
  BY DEF Negative, Bit
<1>2. /\ \A k \in 0 .. 30 : k + 1 \in D <=> k \in x
      /\ 31 \in D <=> below
      /\ 32 \in D <=> a
      /\ 33 \in D <=> a
      /\ 34 \in D <=> a
  <2>1. \A k \in Long \ {0} : k \in D <=> k - 1 \in wide
    BY <1>0, DigitOfDouble
  <2>2. ASSUME NEW k \in 0 .. 30
        PROVE  k + 1 \in D <=> k \in x
    <3>1. k + 1 \in Long \ {0} /\ (k + 1) - 1 = k /\ k \in Bit
      BY DEF Long, Bit
    <3> HIDE DEF wide, D
    <3> QED
      BY <1>1, <2>1, <3>1
  <2>3. /\ 31 \in Long \ {0} /\ 32 \in Long \ {0} /\ 33 \in Long \ {0} /\ 34 \in Long \ {0}
        /\ 31 - 1 = 30 /\ 32 - 1 = 31 /\ 33 - 1 = 32 /\ 34 - 1 = 33
        /\ 30 \in Bit /\ 31 \in Bit /\ 32 \in 32 .. 34 /\ 33 \in 32 .. 34
    BY DEF Long, Bit
  <2> HIDE DEF wide, D
  <2> QED
    BY <1>0, <1>1, <2>1, <2>2, <2>3
<1>3. ASSUME NEW k \in Bit
      PROVE  k \in D <=> k \in Add(x, x)
  <2>1. k \in Nat /\ k \in Long /\ \A j \in 0 .. k - 1 : j \in Bit
    BY DEF Bit, Long
  <2> HIDE DEF wide
  <2>2. Carry(wide, wide, k) <=> Carry(x, x, k)
    BY <1>1, <2>1, CarryBelow
  <2> QED
    BY <1>1, <2>1, <2>2, DigitOfSum DEF Add
<1>4. 31 \in T <=> Sign \in Times3(x)
  <2>1. 31 \in Bit /\ 31 \in Long /\ 31 \in Nat /\ \A j \in 0 .. 31 - 1 : j \in Bit
    BY DEF Bit, Long
  <2> HIDE DEF wide, D
  <2>2. Carry(D, wide, 31) <=> Carry(Add(x, x), x, 31)
    BY <1>1, <1>3, <2>1, CarryBelow
  <2>3. 31 \in T <=> IF Carry(D, wide, 31) THEN 31 \in D <=> 31 \in wide
                                           ELSE ~ (31 \in D <=> 31 \in wide)
    BY <2>1, DigitOfSum
  <2>4. 31 \in Times3(x) <=> IF Carry(Add(x, x), x, 31)
                             THEN 31 \in Add(x, x) <=> 31 \in x
                             ELSE ~ (31 \in Add(x, x) <=> 31 \in x)
    BY <2>1, SumBits DEF Times3
  <2> QED
    BY <1>0, <1>1, <1>3, <2>1, <2>2, <2>3, <2>4
<1>5. Sign \in Add(x, x) <=> below
  <2>1. Sign \in Bit
    BY DEF Sign, Bit
  <2> HIDE DEF D
  <2> QED
    BY <1>0, <1>2, <1>3, <2>1
<1>6. /\ c(32) <=> (below /\ a) \/ ((below \/ a) /\ c(31))
      /\ c(33) <=> (a /\ a) \/ ((a \/ a) /\ c(32))
      /\ c(34) <=> (a /\ a) \/ ((a \/ a) /\ c(33))
  <2>1. /\ 31 \in Nat /\ 32 \in Nat /\ 33 \in Nat
        /\ 31 + 1 = 32 /\ 32 + 1 = 33 /\ 33 + 1 = 34
        /\ 31 \in Bit /\ 32 \in 32 .. 34 /\ 33 \in 32 .. 34
    BY DEF Bit
  <2> HIDE DEF wide, D
  <2>2. /\ c(31 + 1) <=> \/ 31 \in D /\ 31 \in wide
                         \/ (31 \in D \/ 31 \in wide) /\ c(31)
        /\ c(32 + 1) <=> \/ 32 \in D /\ 32 \in wide
                         \/ (32 \in D \/ 32 \in wide) /\ c(32)
        /\ c(33 + 1) <=> \/ 33 \in D /\ 33 \in wide
                         \/ (33 \in D \/ 33 \in wide) /\ c(33)
    BY <2>1, CarryIsMajority
  <2> QED
    BY <1>0, <1>1, <1>2, <2>1, <2>2
<1>7. /\ 31 \in T <=> IF c(31) THEN below <=> a ELSE ~(below <=> a)
      /\ 32 \in T <=> c(32)
      /\ 33 \in T <=> c(33)
      /\ 34 \in T <=> c(34)
  <2>1. /\ 31 \in Long /\ 32 \in Long /\ 33 \in Long /\ 34 \in Long
        /\ 31 \in Bit /\ 32 \in 32 .. 34 /\ 33 \in 32 .. 34 /\ 34 \in 32 .. 34
    BY DEF Long, Bit
  <2> HIDE DEF wide, D
  <2>2. \A k \in Long : k \in T <=> IF c(k) THEN k \in D <=> k \in wide
                                            ELSE ~ (k \in D <=> k \in wide)
    BY DigitOfSum
  <2> QED
    BY <1>0, <1>1, <1>2, <2>1, <2>2
<1>8. Overflows(x) <=> ~ /\ 31 \in T <=> 32 \in T
                         /\ 32 \in T <=> 33 \in T
                         /\ 33 \in T <=> 34 \in T
  <2>1. Overflows(x) <=> T \cap 31 .. 34 \notin {{}, 31 .. 34}
    BY DEF Overflows
  <2> HIDE DEF T
  <2>2. \A k : k \in 31 .. 34 <=> k = 31 \/ k = 32 \/ k = 33 \/ k = 34
    OBVIOUS
  <2>3. T \cap 31 .. 34 = {} <=> 31 \notin T /\ 32 \notin T /\ 33 \notin T /\ 34 \notin T
    BY <2>2
  <2>4. T \cap 31 .. 34 = 31 .. 34 <=> 31 \in T /\ 32 \in T /\ 33 \in T /\ 34 \in T
    BY <2>2
  <2> QED
    BY <2>1, <2>3, <2>4
<1> HIDE DEF T, c, a, below
<1>9. a \in BOOLEAN /\ below \in BOOLEAN /\ c(31) \in BOOLEAN
  BY DEF a, below, c, Carry
<1>10. Overflows(x) <=> ~ /\ a <=> below
                          /\ below <=> 31 \in T
  BY <1>6, <1>7, <1>8, <1>9
<1> QED
  BY <1>4, <1>5, <1>10 DEF a

\* bits.c:261 against tests.c:107, where the reference is compiled as it was meant.
THEOREM satMul3Agrees ==
  ASSUME NEW x \in SUBSET Bit
  PROVE  satMul3(x) = test_satMul3(x, FALSE)
<1> DEFINE sign(y) == Shr(y, 31) \cap {0}
           overflow == Xor(sign(x), sign(Add(x, x)))
                         \cup Xor(sign(Add(x, x)), sign(Times3(x)))
           mask == Shr(Shl(overflow, 31), 31)
           candidate == Xor(Not(Shr(x, 31)), Shl({0}, 31))
<1>1. ASSUME NEW y
      PROVE  Shr(y, 31) = IF Sign \in y THEN Bit ELSE {}
  BY DEF Shr, Sign, Bit
<1>2. ASSUME NEW y
      PROVE  sign(y) = IF Sign \in y THEN {0} ELSE {}
  BY <1>1 DEF Bit
<1>3. overflow = IF Overflows(x) THEN {0} ELSE {}
  <2> HIDE DEF sign
  <2> QED
    BY <1>2, SignsTell DEF Xor
<1>4. mask = IF Overflows(x) THEN Bit ELSE {}
  <2>1. overflow \in SUBSET Bit
    BY <1>3 DEF Bit
  <2> HIDE DEF overflow
  <2>2. mask = test_copyLSB(overflow)
    BY <2>1, copyLSBAgrees DEF copyLSB
  <2> QED
    BY <1>3, <2>2 DEF test_copyLSB
<1>5. candidate = IF Negative(x) THEN TMin ELSE TMax
  <2>1. Shl({0}, 31) = {Sign}
    BY DEF Shl, Sign, Bit
  <2>2. Sign \in Bit
    BY DEF Sign, Bit
  <2> QED
    BY <1>1, <2>1, <2>2 DEF Xor, Not, Negative, TMin, TMax
<1>6. satMul3(x) = (mask \cap candidate) \cup (Not(mask) \cap Times3(x))
  BY DEF satMul3, Times3
<1>7. Times3(x) \subseteq Bit /\ TMin \subseteq Bit /\ TMax \subseteq Bit
  BY DEF Times3, Add, Sum, TMin, TMax, Sign, Bit
<1> HIDE DEF mask, candidate
<1> QED
  BY <1>4, <1>5, <1>6, <1>7 DEF Not, test_satMul3

-----------------------------------------------------------------------------
(* Loops over an index *)

\* The values of a loop of n turns, each computed from the one before.
Looped(f, n, first, step) ==
  f[0] = first /\ \A k \in 1 .. n : f[k] = step[k][f[k - 1]]
Stepping(V, n, step) == step \in [1 .. n -> [V -> V]]
Values(V, n) == [0 .. n -> V]

\* Every loop has its values.
LEMMA Turns ==
  ASSUME NEW V, NEW n \in Nat, NEW first \in V, NEW step, Stepping(V, n, step)
  PROVE  \E f \in Values(V, n) : Looped(f, n, first, step)
<1> USE DEF Looped, Stepping, Values
<1> DEFINE Upto(m, f) == f[0] = first /\ \A k \in 1 .. m : f[k] = step[k][f[k - 1]]
           S == {m \in 0 .. n : ~ \E f \in [0 .. m -> V] : Upto(m, f)}
<1>1. SUFFICES ASSUME ~ \E f \in [0 .. n -> V] : Upto(n, f)
               PROVE  FALSE
  OBVIOUS
<1>2. PICK m \in S : \A k \in S : m <= k
  <2>1. S \subseteq Nat /\ n \in S
    BY <1>1
  <2> HIDE DEF S
  <2> QED
    BY <2>1, Smallest
<1>3. CASE m = 0
  <2> DEFINE f == [k \in 0 .. 0 |-> first]
  <2>1. f \in [0 .. 0 -> V] /\ Upto(0, f)
    OBVIOUS
  <2> QED
    BY <1>2, <1>3, <2>1
<1>4. CASE m # 0
  <2>1. m \in 1 .. n /\ m - 1 \in 0 .. n /\ m - 1 \notin S
    BY <1>2, <1>4
  <2>2. PICK f \in [0 .. m - 1 -> V] : Upto(m - 1, f)
    BY <2>1
  <2> DEFINE g == [k \in 0 .. m |-> IF k = m THEN step[m][f[m - 1]] ELSE f[k]]
  <2>3. g \in [0 .. m -> V]
    <3>1. step[m][f[m - 1]] \in V
      BY <2>1
    <3> QED
      BY <3>1
  <2>4. Upto(m, g)
    <3>1. g[0] = first
      BY <2>1, <2>2
    <3>2. ASSUME NEW k \in 1 .. m
          PROVE  g[k] = step[k][g[k - 1]]
      <4>1. g[k - 1] = f[k - 1]
        BY <2>1
      <4> QED
        BY <2>1, <2>2, <4>1
    <3> QED
      BY <3>1, <3>2
  <2> QED
    BY <1>2, <2>3, <2>4
<1> QED
  BY <1>3, <1>4

-----------------------------------------------------------------------------
(* The parity *)

\* Whether an odd number of the n lowest bits are ones, as the reference counts them.
Parity(x) ==
  CHOOSE odd : odd = [k \in 0 .. 32 |-> IF k = 0 THEN FALSE ELSE odd[k - 1] # (k - 1 \in x)]

LEMMA ParityCounts ==
  ASSUME NEW x \in SUBSET Bit
  PROVE  /\ Parity(x) \in [0 .. 32 -> BOOLEAN]
         /\ Parity(x)[0] = FALSE
         /\ \A k \in Bit : Parity(x)[k + 1] <=> ~ (Parity(x)[k] <=> k \in x)
<1> DEFINE step == [k \in 1 .. 32 |-> [v \in BOOLEAN |-> v # (k - 1 \in x)]]
           Body(f) == [k \in 0 .. 32 |-> IF k = 0 THEN FALSE ELSE f[k - 1] # (k - 1 \in x)]
<1>1. PICK f \in [0 .. 32 -> BOOLEAN] :
         f[0] = FALSE /\ \A k \in 1 .. 32 : f[k] = step[k][f[k - 1]]
  <2>1. step \in [1 .. 32 -> [BOOLEAN -> BOOLEAN]]
    OBVIOUS
  <2>2. 32 \in Nat
    OBVIOUS
  <2>3. PICK v \in BOOLEAN : v = FALSE
    OBVIOUS
  <2> DEFINE V == BOOLEAN
             n == 32
             s == step
  <2>4. v \in V /\ n \in Nat /\ Stepping(V, n, s)
    BY <2>1 DEF Stepping
  <2> HIDE DEF V, n, s
  <2>5. \E f \in Values(V, n) : Looped(f, n, v, s)
    BY <2>4, Turns, Zenon
  <2> QED
    BY <2>3, <2>5 DEF V, n, s, Looped, Values
<1>2. f = Body(f)
  <2>1. ASSUME NEW k \in 1 .. 32
        PROVE  f[k] = (f[k - 1] # (k - 1 \in x))
    <3>1. f[k - 1] \in BOOLEAN
      OBVIOUS
    <3> QED
      BY <1>1, <3>1
  <2>2. ASSUME NEW k \in 0 .. 32
        PROVE  f[k] = Body(f)[k]
    BY <1>1, <2>1, k = 0 \/ k \in 1 .. 32
  <2> HIDE DEF Body
  <2>3. Body(f) = [k \in 0 .. 32 |-> Body(f)[k]]
    BY DEF Body
  <2> QED
    BY <2>2, <2>3
<1> DEFINE p == Parity(x)
<1>3. p = Body(p)
  BY <1>2, Zenon DEF Parity
<1> HIDE DEF p
<1>4. p \in [0 .. 32 -> BOOLEAN]
  <2>1. \A k \in 0 .. 32 : Body(p)[k] \in BOOLEAN
    OBVIOUS
  <2> QED
    BY <1>3, <2>1
<1>5. p[0] = FALSE
  BY <1>3
<1>6. ASSUME NEW k \in Bit
      PROVE  p[k + 1] <=> ~ (p[k] <=> k \in x)
  <2>1. k + 1 \in 0 .. 32 /\ k \in 0 .. 32 /\ (k + 1) - 1 = k /\ k + 1 # 0
    BY DEF Bit
  <2>2. p[k + 1] = (p[k] # (k \in x))
    BY <1>3, <2>1
  <2> QED
    BY <1>4, <2>1, <2>2
<1> QED
  BY <1>4, <1>5, <1>6 DEF p

\* Folding the upper half of 2k bits onto the lower one keeps the parity.
LEMMA FoldKeepsParity ==
  ASSUME NEW x \in SUBSET Bit, NEW k \in 1 .. 16
  PROVE  Parity(Folded(x, k))[k] <=> Parity(x)[k + k]
<1> DEFINE h == Folded(x, k)
           p == Parity(x)
           q == Parity(h)
           Agree(n) == q[n] <=> (p[n] <=> (p[k + n] <=> p[k]))
           S == {n \in 0 .. k : ~ Agree(n)}
<1>1. ASSUME NEW b \in 0 .. k - 1
      PROVE  b \in h <=> ~ (b \in x <=> k + b \in x)
  BY DEF Folded, Xor, Shr, Bit, Sign
<1>2. h \in SUBSET Bit
  BY DEF Folded, Xor, Shr
<1>3. /\ p \in [0 .. 32 -> BOOLEAN] /\ p[0] = FALSE
      /\ \A b \in Bit : p[b + 1] <=> ~ (p[b] <=> b \in x)
  BY ParityCounts
<1>4. /\ q \in [0 .. 32 -> BOOLEAN] /\ q[0] = FALSE
      /\ \A b \in Bit : q[b + 1] <=> ~ (q[b] <=> b \in h)
  BY <1>2, ParityCounts
<1> HIDE DEF h, p, q
<1>5. S = {}
  <2>1. SUFFICES ASSUME S # {} PROVE FALSE
    OBVIOUS
  <2>2. PICK n \in S : \A m \in S : n <= m
    <3>1. S \subseteq Nat
      OBVIOUS
    <3> HIDE DEF S
    <3> QED
      BY <2>1, <3>1, Smallest
  <2>3. CASE n = 0
    <3>1. ~ q[0] /\ ~ p[0] /\ p[k] \in BOOLEAN /\ k + 0 = k
      BY <1>3, <1>4
    <3>2. Agree(0)
      BY <3>1
    <3> QED
      BY <2>2, <2>3, <3>2
  <2>4. CASE n # 0
    <3> DEFINE m == n - 1
    <3>1. /\ m \in 0 .. k /\ m < n /\ m \in 0 .. k - 1 /\ m \in Bit /\ k + m \in Bit
          /\ m + 1 = n /\ (k + m) + 1 = k + n /\ n \in 0 .. 32 /\ k + n \in 0 .. 32
          /\ k \in 0 .. 32 /\ m \in 0 .. 32 /\ k + m \in 0 .. 32
      BY <2>2, <2>4 DEF Bit
    <3> HIDE DEF m
    <3>2. Agree(m)
      BY <2>2, <3>1
    <3>3. /\ q[n] <=> ~ (q[m] <=> m \in h)
          /\ p[n] <=> ~ (p[m] <=> m \in x)
          /\ p[k + n] <=> ~ (p[k + m] <=> k + m \in x)
      BY <1>3, <1>4, <3>1
    <3>4. m \in h <=> ~ (m \in x <=> k + m \in x)
      BY <1>1, <3>1
    <3>5. p[n] \in BOOLEAN /\ p[m] \in BOOLEAN /\ p[k + n] \in BOOLEAN
          /\ p[k + m] \in BOOLEAN /\ p[k] \in BOOLEAN /\ q[n] \in BOOLEAN /\ q[m] \in BOOLEAN
      BY <1>3, <1>4, <3>1
    <3>6. Agree(n)
      BY <3>2, <3>3, <3>4, <3>5
    <3> QED
      BY <2>2, <3>6
  <2> QED
    BY <2>3, <2>4
<1>6. Agree(k)
  BY <1>5
<1>7. q[k] \in BOOLEAN /\ p[k] \in BOOLEAN /\ p[k + k] \in BOOLEAN
  BY <1>3, <1>4
<1> QED
  BY <1>6, <1>7 DEF p, q, h

\* bits.c:283 against tests.c:114: five folds leave the parity in the lowest bit.
THEOREM bitParityAgrees ==
  ASSUME NEW x \in SUBSET Bit
  PROVE  bitParity(x) = test_bitParity(x)
<1> DEFINE x1 == Folded(x, 16)
           x2 == Folded(x1, 8)
           x3 == Folded(x2, 4)
           x4 == Folded(x3, 2)
           x5 == Folded(x4, 1)
<1>1. ASSUME NEW y, NEW k
      PROVE  y \in SUBSET Bit => Folded(y, k) \in SUBSET Bit
  BY DEF Folded, Xor, Shr
<1>2. x1 \in SUBSET Bit /\ x2 \in SUBSET Bit /\ x3 \in SUBSET Bit /\ x4 \in SUBSET Bit
      /\ x5 \in SUBSET Bit
  BY <1>1
<1>3. /\ Parity(x1)[16] <=> Parity(x)[32]
      /\ Parity(x2)[8] <=> Parity(x1)[16]
      /\ Parity(x3)[4] <=> Parity(x2)[8]
      /\ Parity(x4)[2] <=> Parity(x3)[4]
      /\ Parity(x5)[1] <=> Parity(x4)[2]
  <2>1. /\ 16 + 16 = 32 /\ 8 + 8 = 16 /\ 4 + 4 = 8 /\ 2 + 2 = 4 /\ 1 + 1 = 2
        /\ 16 \in 1 .. 16 /\ 8 \in 1 .. 16 /\ 4 \in 1 .. 16 /\ 2 \in 1 .. 16 /\ 1 \in 1 .. 16
    OBVIOUS
  <2>2. /\ Parity(x1)[16] <=> Parity(x)[16 + 16]
        /\ Parity(x2)[8] <=> Parity(x1)[8 + 8]
        /\ Parity(x3)[4] <=> Parity(x2)[4 + 4]
        /\ Parity(x4)[2] <=> Parity(x3)[2 + 2]
        /\ Parity(x5)[1] <=> Parity(x4)[1 + 1]
    <3> HIDE DEF x1, x2, x3, x4, x5
    <3>1. Parity(x1)[16] <=> Parity(x)[16 + 16]
      BY <2>1, FoldKeepsParity DEF x1
    <3>2. Parity(x2)[8] <=> Parity(x1)[8 + 8]
      BY <1>2, <2>1, FoldKeepsParity DEF x2
    <3>3. Parity(x3)[4] <=> Parity(x2)[4 + 4]
      BY <1>2, <2>1, FoldKeepsParity DEF x3
    <3>4. Parity(x4)[2] <=> Parity(x3)[2 + 2]
      BY <1>2, <2>1, FoldKeepsParity DEF x4
    <3>5. Parity(x5)[1] <=> Parity(x4)[1 + 1]
      BY <1>2, <2>1, FoldKeepsParity DEF x5
    <3> QED
      BY <3>1, <3>2, <3>3, <3>4, <3>5
  <2> QED
    BY <2>1, <2>2
<1> HIDE DEF x5
<1>4. Parity(x5)[1] <=> 0 \in x5
  <2>1. /\ Parity(x5) \in [0 .. 32 -> BOOLEAN] /\ Parity(x5)[0] = FALSE
        /\ \A k \in Bit : Parity(x5)[k + 1] <=> ~ (Parity(x5)[k] <=> k \in x5)
    BY <1>2, ParityCounts
  <2>2. 0 \in Bit /\ 0 + 1 = 1
    BY DEF Bit
  <2> QED
    BY <2>1, <2>2
<1>5. Parity(x)[32] \in BOOLEAN
  <2>1. Parity(x) \in [0 .. 32 -> BOOLEAN]
    BY ParityCounts
  <2>2. 32 \in 0 .. 32
    OBVIOUS
  <2> QED
    BY <2>1, <2>2
<1>6. bitParity(x) = x5 \cap {0}
  BY DEF bitParity, x5
<1>7. test_bitParity(x) = Truth(Parity(x)[32])
  BY DEF test_bitParity, Parity
<1> QED
  BY <1>3, <1>4, <1>5, <1>6, <1>7 DEF Truth

-----------------------------------------------------------------------------
(* The rounding of trueThreeFourths *)

Negated(x)  == Sum(Long, Long \ x, {0})
LongFourth(x) == {b \in Long : b + 2 \in x}

LEMMA NegatedBits ==
  ASSUME NEW x \in SUBSET Long, NEW b \in Long
  PROVE  b \in Negated(x) <=> IF \E k \in 0 .. b - 1 : k \in x THEN b \notin x ELSE b \in x
<1>1. Carry(Long \ x, {0}, b) <=> (b > 0 /\ ~ \E k \in 0 .. b - 1 : k \in x)
  BY DEF Carry, Long
<1>2. b \in Negated(x) <=> IF Carry(Long \ x, {0}, b) THEN b \in Long \ x <=> b \in {0}
                                                      ELSE ~ (b \in Long \ x <=> b \in {0})
  BY DigitOfSum DEF Negated
<1>3. b \in {0} <=> b = 0
  OBVIOUS
<1>4. b = 0 => ~ \E k \in 0 .. b - 1 : k \in x
  OBVIOUS
<1>5. b = 0 \/ b > 0
  BY DEF Long
<1> HIDE DEF Long
<1> QED
  BY <1>1, <1>2, <1>3, <1>4, <1>5

LEMMA PlusThreeDigits ==
  ASSUME NEW x \in SUBSET Long, NEW b \in Long, b >= 2
  PROVE  b \in Sum(Long, x, {0, 1}) <=>
           IF (0 \in x \/ 1 \in x) /\ \A k \in 2 .. b - 1 : k \in x
           THEN b \notin x ELSE b \in x
<1>1. Carry(x, {0, 1}, b) <=> ((0 \in x \/ 1 \in x) /\ \A k \in 2 .. b - 1 : k \in x)
  BY DEF Carry, Long
<1>2. b \notin {0, 1}
  OBVIOUS
<1> QED
  BY <1>1, <1>2, DigitOfSum

\* The lowest 32 digits of a negative number's quotient by four are those of the number
\* and three, shifted.
LEMMA QuarterRoundsUp ==
  ASSUME NEW z \in SUBSET Long, NEW b \in Bit
  PROVE  b \in Negated(LongFourth(Negated(z))) <=> b + 2 \in Sum(Long, z, {0, 1})
<1> DEFINE d == LongFourth(Negated(z))
<1>0. /\ b \in Long /\ b + 2 \in Long /\ b + 2 >= 2 /\ (b + 2) - 1 = b + 1 /\ b \in 0 .. 31
      /\ \A k \in 0 .. b : k \in Long /\ k + 2 \in Long /\ (k + 2) - 1 = k + 1
  BY DEF Bit, Long
<1>1. ASSUME NEW k \in 0 .. b
      PROVE  k \in d <=> IF \E j \in 0 .. k + 1 : j \in z THEN k + 2 \notin z
                                                          ELSE k + 2 \in z
  <2>1. k \in d <=> k + 2 \in Negated(z)
    BY <1>0 DEF LongFourth
  <2> QED
    BY <1>0, <2>1, NegatedBits
<1>2. b \in Negated(d) <=> IF \E k \in 0 .. b - 1 : k \in d THEN b \notin d ELSE b \in d
  <2>1. d \in SUBSET Long
    BY DEF LongFourth
  <2> HIDE DEF d
  <2> QED
    BY <1>0, <2>1, NegatedBits
<1>3. b + 2 \in Sum(Long, z, {0, 1}) <=>
        IF (0 \in z \/ 1 \in z) /\ \A k \in 2 .. b + 1 : k \in z
        THEN b + 2 \notin z ELSE b + 2 \in z
  BY <1>0, PlusThreeDigits
<1> HIDE DEF d
<1>4. CASE 0 \in z \/ 1 \in z
  <2>1. ASSUME NEW k \in 0 .. b
        PROVE  k \in d <=> k + 2 \notin z
    <3>1. \E j \in 0 .. k + 1 : j \in z
      BY <1>4
    <3> QED
      BY <1>1, <3>1
  <2>2. (\E k \in 0 .. b - 1 : k \in d) <=> ~ \A k \in 2 .. b + 1 : k \in z
    <3>1. ASSUME NEW k \in 0 .. b - 1, k \in d
          PROVE  k + 2 \in 2 .. b + 1 /\ k + 2 \notin z
      BY <1>0, <2>1, <3>1
    <3>2. ASSUME NEW k \in 2 .. b + 1, k \notin z
          PROVE  k - 2 \in 0 .. b - 1 /\ k - 2 \in d
      <4>1. k - 2 \in 0 .. b /\ (k - 2) + 2 = k /\ k - 2 \in 0 .. b - 1
        BY <1>0
      <4> QED
        BY <2>1, <3>2, <4>1
    <3> QED
      BY <3>1, <3>2
  <2>3. b \in d <=> b + 2 \notin z
    BY <1>0, <2>1
  <2>4. CASE \A k \in 2 .. b + 1 : k \in z
    <3>1. b + 2 \in Sum(Long, z, {0, 1}) <=> b + 2 \notin z
      BY <1>3, <1>4, <2>4
    <3> QED
      BY <1>2, <2>2, <2>3, <2>4, <3>1 DEF d
  <2>5. CASE ~ \A k \in 2 .. b + 1 : k \in z
    <3>1. b + 2 \in Sum(Long, z, {0, 1}) <=> b + 2 \in z
      BY <1>3, <2>5
    <3>2. b \in Negated(d) <=> b \notin d
      BY <1>2, <2>2, <2>5
    <3> QED
      BY <2>3, <3>1, <3>2 DEF d
  <2> QED
    BY <2>4, <2>5
<1>5. CASE 0 \notin z /\ 1 \notin z
  <2>1. (\E j \in 0 .. b + 1 : j \in z) <=> \E k \in 0 .. b - 1 : k + 2 \in z
    <3>1. ASSUME NEW j \in 0 .. b + 1, j \in z
          PROVE  j - 2 \in 0 .. b - 1 /\ (j - 2) + 2 \in z
      BY <1>0, <1>5, <3>1
    <3>2. ASSUME NEW k \in 0 .. b - 1, k + 2 \in z
          PROVE  k + 2 \in 0 .. b + 1
      BY <1>0
    <3> QED
      BY <3>1, <3>2
  <2>2. (\E k \in 0 .. b - 1 : k \in d) <=> \E k \in 0 .. b - 1 : k + 2 \in z
    <3>1. ASSUME NEW k \in 0 .. b - 1, k \in d
          PROVE  \E j \in 0 .. b - 1 : j + 2 \in z
      <4>1. CASE k + 2 \in z
        BY <4>1
      <4>2. CASE k + 2 \notin z
        <5>1. PICK j \in 0 .. k + 1 : j \in z
          BY <1>0, <1>1, <3>1, <4>2
        <5>2. j - 2 \in 0 .. b - 1 /\ (j - 2) + 2 \in z
          BY <1>0, <1>5, <5>1
        <5> QED
          BY <5>2
      <4> QED
        BY <4>1, <4>2
    <3>2. ASSUME NEW k \in 0 .. b - 1, k + 2 \in z
          PROVE  \E j \in 0 .. b - 1 : j \in d
      <4> DEFINE S == {j \in 0 .. b - 1 : j + 2 \in z}
      <4>1. S \subseteq Nat /\ k \in S
        BY <3>2
      <4>2. PICK m \in S : \A j \in S : m <= j
        BY <4>1, Smallest
      <4>3. m \in 0 .. b - 1 /\ m + 2 \in z /\ m \in 0 .. b
        BY <1>0
      <4>4. ASSUME NEW j \in 0 .. m + 1, j \in z
            PROVE  FALSE
        <5>1. j - 2 \in S /\ j - 2 < m
          BY <1>0, <1>5, <4>3, <4>4
        <5>2. m \in Int /\ j - 2 \in Int
          BY <1>0, <4>3
        <5> HIDE DEF S
        <5> QED
          BY <5>1, <5>2, <4>2
      <4>5. m \in d
        BY <1>1, <4>3, <4>4
      <4> QED
        BY <4>3, <4>5
    <3> QED
      BY <3>1, <3>2
  <2>3. b \in d <=> IF \E j \in 0 .. b + 1 : j \in z THEN b + 2 \notin z ELSE b + 2 \in z
    BY <1>0, <1>1
  <2>4. b + 2 \in Sum(Long, z, {0, 1}) <=> b + 2 \in z
    BY <1>3, <1>5
  <2>5. b \in Negated(d) <=> b + 2 \in z
    BY <1>2, <2>1, <2>2, <2>3
  <2> QED
    BY <2>4, <2>5 DEF d
<1> QED
  BY <1>4, <1>5 DEF d

\* An int as a long, three times it, and what is added to a negative product before it
\* is shifted.
Wide(x)   == x \cup (IF Negative(x) THEN 32 .. 34 ELSE {})
Triple(x) == Sum(Long, Sum(Long, Wide(x), Wide(x)), Wide(x))
Extra(x)  == IF Negative(x) THEN {0, 1} ELSE {}

\* The sum of two numbers digit by digit, at a position below 35.
Sums(x, y, z, b) ==
  /\ b \in z <=> IF Carry(x, y, b) THEN b \in x <=> b \in y ELSE ~ (b \in x <=> b \in y)
  /\ Carry(x, y, b + 1) <=> (b \in x /\ b \in y) \/ ((b \in x \/ b \in y) /\ Carry(x, y, b))

LEMMA LongSums ==
  ASSUME NEW x, NEW y, NEW b \in Long
  PROVE  Sums(x, y, Sum(Long, x, y), b)
<1>1. b \in Nat
  BY DEF Long
<1> QED
  BY <1>1, DigitOfSum, CarryIsMajority DEF Sums

LEMMA IntSums ==
  ASSUME NEW x, NEW y, NEW b \in Bit
  PROVE  Sums(x, y, Add(x, y), b)
<1>1. b \in Nat
  BY DEF Bit
<1> QED
  BY <1>1, SumBits, CarryIsMajority DEF Sums

\* The digits of a long.
LEMMA WideBits ==
  ASSUME NEW x \in SUBSET Bit
  PROVE  /\ Wide(x) \in SUBSET Long
         /\ \A k \in Bit : k \in Wide(x) <=> k \in x
         /\ \A k \in 31 .. 34 : k \in Wide(x) <=> Sign \in x
         /\ 0 \notin Sum(Long, Wide(x), Wide(x))
         /\ \A k \in 1 .. 34 : k \in Sum(Long, Wide(x), Wide(x)) <=> k - 1 \in Wide(x)
<1>1. \A k \in Bit : k \in Wide(x) <=> k \in x
  BY DEF Wide, Bit
<1>2. \A k \in 31 .. 34 : k \in Wide(x) <=> Sign \in x
  BY DEF Wide, Bit, Negative, Sign
<1>3. Wide(x) \in SUBSET Long
  BY DEF Wide, Bit, Long
<1>4. ASSUME NEW k \in 1 .. 34
      PROVE  k \in Sum(Long, Wide(x), Wide(x)) <=> k - 1 \in Wide(x)
  <2>1. k \in Long /\ k \in Nat \ {0}
    BY DEF Long
  <2> QED
    BY <2>1, DigitOfDouble
<1>5. 0 \notin Sum(Long, Wide(x), Wide(x))
  <2>1. 0 \in Long /\ 0 \in Nat
    BY DEF Long
  <2>2. ~ Carry(Wide(x), Wide(x), 0)
    BY <2>1, CarryIsMajority
  <2> QED
    BY <2>1, <2>2, LongSums DEF Sums
<1> QED
  BY <1>1, <1>2, <1>3, <1>4, <1>5

\* Three times a long has the sign of the int.
LEMMA TripleSign ==
  ASSUME NEW x \in SUBSET Bit
  PROVE  34 \in Triple(x) <=> Negative(x)
<1> DEFINE W == Wide(x)
           D == Sum(Long, W, W)
           z == Sum(Long, D, W)
<1>1. /\ 33 \in D <=> Negative(x)
      /\ 34 \in D <=> Negative(x)
      /\ 33 \in W <=> Negative(x)
      /\ 34 \in W <=> Negative(x)
  <2>1. /\ 33 \in 31 .. 34 /\ 34 \in 31 .. 34 /\ 32 \in 31 .. 34 /\ 33 \in 1 .. 34 /\ 34 \in 1 .. 34
        /\ 33 - 1 = 32 /\ 34 - 1 = 33
    OBVIOUS
  <2> QED
    BY <2>1, WideBits DEF Negative
<1> HIDE DEF W, D
<1>2. Sums(D, W, z, 33) /\ Sums(D, W, z, 34)
  BY LongSums, 33 \in Long, 34 \in Long DEF Long
<1>3. Carry(D, W, 34) <=> Negative(x)
  <2>1. 33 + 1 = 34
    OBVIOUS
  <2> QED
    BY <1>1, <1>2, <2>1 DEF Sums
<1>4. 34 \in z <=> Negative(x)
  BY <1>1, <1>2, <1>3 DEF Sums
<1> QED
  BY <1>4 DEF z, D, W, Triple

\* What the solution adds for the two lowest bits and the sign: three times the
\* remainder, and three if negative, divided by four.
Rest(x) ==
  LET r == x \cap {0, 1}
  IN  Shr(Add(Add(r, Shl(r, 1)), Shr(x, 31) \cap {0, 1}), 2)

LEMMA RestBits ==
  ASSUME NEW x \in SUBSET Bit
  PROVE  /\ 0 \in Rest(x) <=> \/ 0 \in x /\ Sign \in x
                              \/ 1 \in x /\ 0 \notin x /\ Sign \notin x
         /\ 1 \in Rest(x) <=> 1 \in x /\ (0 \in x \/ Sign \in x)
         /\ \A k \in Bit : k >= 2 => k \notin Rest(x)
<1> DEFINE r == x \cap {0, 1}
           r2 == Shl(r, 1)
           A == Add(r, r2)
           s == Shr(x, 31) \cap {0, 1}
           B == Add(A, s)
<1>0. 0 \in Bit /\ 1 \in Bit /\ 2 \in Bit /\ 3 \in Bit /\ 31 \in Bit /\ Sign = 31
      /\ 0 + 1 = 1 /\ 1 + 1 = 2 /\ 2 + 1 = 3 /\ 3 + 1 = 4
  BY DEF Bit, Sign
<1>1. /\ 0 \in r <=> 0 \in x
      /\ 1 \in r <=> 1 \in x
      /\ \A k : k \in r => k = 0 \/ k = 1
  OBVIOUS
<1>2. /\ 0 \notin r2
      /\ 1 \in r2 <=> 0 \in x
      /\ 2 \in r2 <=> 1 \in x
      /\ \A k \in Bit : k >= 3 => k \notin r2
  BY DEF Shl, Bit
<1>3. /\ 0 \in s <=> Sign \in x
      /\ 1 \in s <=> Sign \in x
      /\ \A k : k \in s => k = 0 \/ k = 1
  BY DEF Shr, Bit, Sign
<1>4. Rest(x) = Shr(B, 2)
  BY DEF Rest
<1>5. A \subseteq Bit /\ B \subseteq Bit
  BY DEF Add, Sum
<1> HIDE DEF r, r2, s
<1>6. /\ 0 \in A <=> 0 \in x
      /\ 1 \in A <=> ~ (1 \in x <=> 0 \in x)
      /\ 2 \in A <=> 1 \in x /\ 0 \notin x
      /\ 3 \in A <=> 0 \in x /\ 1 \in x
  <2>1. ~ Carry(r, r2, 0)
    BY <1>0, CarryIsMajority
  <2>2. Sums(r, r2, A, 0) /\ Sums(r, r2, A, 1) /\ Sums(r, r2, A, 2) /\ Sums(r, r2, A, 3)
    BY <1>0, IntSums
  <2>3. 2 \notin r /\ 3 \notin r /\ 3 \notin r2
    BY <1>0, <1>1, <1>2
  <2> HIDE DEF A
  <2>4. Carry(r, r2, 1) <=> FALSE
    BY <1>0, <1>1, <1>2, <2>1, <2>2 DEF Sums
  <2>5. Carry(r, r2, 2) <=> 0 \in x /\ 1 \in x
    BY <1>0, <1>1, <1>2, <2>2, <2>4 DEF Sums
  <2>6. Carry(r, r2, 3) <=> 0 \in x /\ 1 \in x
    BY <1>0, <1>1, <1>2, <2>2, <2>3, <2>5 DEF Sums
  <2> QED
    BY <1>1, <1>2, <2>1, <2>2, <2>3, <2>4, <2>5, <2>6 DEF Sums
<1>7. \A k \in Bit : k >= 4 => k \notin A
  <2> SUFFICES ASSUME NEW k \in Bit, k >= 4
               PROVE  k \notin A
    OBVIOUS
  <2>0. k \in 4 .. 31
    BY DEF Bit
  <2>1. ASSUME NEW j \in 0 .. k - 1, j \in r, j \in r2,
               \A m \in j + 1 .. k - 1 : m \in r \/ m \in r2
        PROVE  FALSE
    <3>1. j = 1 /\ 3 \in j + 1 .. k - 1 /\ 3 \notin r /\ 3 \notin r2
      BY <1>0, <1>1, <1>2, <2>0, <2>1
    <3> QED
      BY <2>1, <3>1
  <2>2. ~ Carry(r, r2, k)
    BY <2>1 DEF Carry
  <2>3. k \notin r /\ k \notin r2
    BY <1>1, <1>2, <2>0
  <2> QED
    BY <2>2, <2>3, IntSums DEF Sums
<1> HIDE DEF A
<1>8. /\ 2 \in B <=> \/ 0 \in x /\ Sign \in x
                     \/ 1 \in x /\ 0 \notin x /\ Sign \notin x
      /\ 3 \in B <=> 1 \in x /\ (0 \in x \/ Sign \in x)
  <2>1. ~ Carry(A, s, 0)
    BY <1>0, CarryIsMajority
  <2>2. Sums(A, s, B, 0) /\ Sums(A, s, B, 1) /\ Sums(A, s, B, 2) /\ Sums(A, s, B, 3)
    BY <1>0, IntSums
  <2>3. 2 \notin s /\ 3 \notin s
    BY <1>0, <1>3
  <2> HIDE DEF B
  <2>4. Carry(A, s, 1) <=> 0 \in x /\ Sign \in x
    BY <1>0, <1>3, <1>6, <2>1, <2>2 DEF Sums
  <2>5. Carry(A, s, 2) <=> Sign \in x /\ (0 \in x \/ 1 \in x)
    BY <1>0, <1>3, <1>6, <2>2, <2>4 DEF Sums
  <2>6. Carry(A, s, 3) <=> Sign \in x /\ 1 \in x /\ 0 \notin x
    BY <1>0, <1>6, <2>2, <2>3, <2>5 DEF Sums
  <2> QED
    BY <1>6, <2>2, <2>3, <2>5, <2>6 DEF Sums
<1>9. \A k \in Bit : k >= 4 => k \notin B
  <2> SUFFICES ASSUME NEW k \in Bit, k >= 4
               PROVE  k \notin B
    OBVIOUS
  <2>0. k \in 4 .. 31
    BY DEF Bit
  <2>1. ASSUME NEW j \in 0 .. k - 1, j \in A, j \in s,
               \A m \in j + 1 .. k - 1 : m \in A \/ m \in s
        PROVE  FALSE
    <3>1. (j = 0 \/ j = 1) /\ 2 \in j + 1 .. k - 1 /\ 3 \in j + 1 .. k - 1
          /\ 2 \notin s /\ 3 \notin s
      BY <1>0, <1>3, <2>0, <2>1
    <3>2. 2 \in A /\ 3 \in A
      BY <2>1, <3>1
    <3> QED
      BY <1>6, <3>2
  <2>2. ~ Carry(A, s, k)
    BY <2>1 DEF Carry
  <2>3. k \notin A /\ k \notin s
    BY <1>0, <1>3, <1>7, <2>0
  <2> QED
    BY <2>2, <2>3, IntSums DEF Sums
<1> HIDE DEF B
<1>10. ASSUME NEW k \in Bit
       PROVE  k \in Shr(B, 2) <=> k + 2 \in B
  <2>1. Sign \notin B
    BY <1>0, <1>9
  <2>2. k + 2 > 31 => k + 2 \notin B
    BY <1>5 DEF Bit
  <2> QED
    BY <1>0, <2>1, <2>2 DEF Shr, Bit
<1>11. 0 + 2 = 2 /\ 1 + 2 = 3
  OBVIOUS
<1>12. ASSUME NEW k \in Bit, k >= 2
       PROVE  k \notin Shr(B, 2)
  <2>1. k + 2 \notin B
    BY <1>5, <1>9, <1>12 DEF Bit
  <2> QED
    BY <1>10, <2>1
<1> QED
  BY <1>0, <1>4, <1>8, <1>10, <1>11, <1>12

\* Three fourths of the upper bits and the rest have the digits of the long product,
\* two positions further down.  From position 2 on both add the same digits twice, and
\* so many carries come from below in one sum as in the other.
LEMMA SameDigits ==
  ASSUME NEW x \in SUBSET Bit, NEW b \in Bit
  PROVE  LET q == Shr(x, 2)
         IN  b \in Add(Add(q, Shl(q, 1)), Rest(x)) <=> b + 2 \in Sum(Long, Triple(x), Extra(x))
<1> DEFINE W == Wide(x)
           D == Sum(Long, W, W)
           z == Sum(Long, D, W)
           c == Extra(x)
           zc == Sum(Long, z, c)
           q == Shr(x, 2)
           q2 == Shl(q, 1)
           t3 == Add(q, q2)
           m == Rest(x)
           res == Add(t3, m)
           Same(k) == /\ (Carry(D, W, k + 2) <=> Carry(z, c, k + 2))
                           <=> (Carry(q, q2, k) <=> Carry(t3, m, k))
                      /\ Carry(D, W, k + 2) /\ Carry(z, c, k + 2)
                           <=> Carry(q, q2, k) /\ Carry(t3, m, k)
           S == {k \in 2 .. 31 : ~ Same(k)}
<1>1. /\ 0 \notin D
      /\ \A k \in 0 .. 33 : k + 1 \in D <=> k \in W
  <2>1. \A k \in 0 .. 33 : k + 1 \in 1 .. 34 /\ (k + 1) - 1 = k
    OBVIOUS
  <2> QED
    BY <2>1, WideBits
<1>2. /\ \A k \in Bit : k \in q <=> k + 2 \in W
      /\ 0 \notin q2
      /\ \A k \in 0 .. 30 : k + 1 \in q2 <=> k + 2 \in W
  <2>1. ASSUME NEW k \in Bit
        PROVE  k \in q <=> k + 2 \in W
    <3>1. CASE k + 2 <= 31
      BY <3>1, WideBits DEF Shr, Bit, Sign
    <3>2. CASE k + 2 > 31
      <4>1. k + 2 \in 31 .. 34
        BY <3>2 DEF Bit
      <4>2. k + 2 \in W <=> Sign \in x
        BY <4>1, WideBits
      <4>3. k \in q <=> Sign \in x
        BY <3>2 DEF Shr, Bit, Sign
      <4> QED
        BY <4>2, <4>3
    <3> QED
      BY <3>1, <3>2 DEF Bit
  <2>2. ASSUME NEW k \in 0 .. 30
        PROVE  k + 1 \in q2 <=> k \in q
    <3>1. k + 1 \in Bit /\ (k + 1) - 1 = k
      BY DEF Bit
    <3> QED
      BY <3>1 DEF Shl
  <2>3. 0 \notin q2
    <3>1. 0 - 1 \notin q
      BY DEF Shr, Bit
    <3> QED
      BY <3>1 DEF Shl
  <2>4. \A k \in 0 .. 30 : k \in Bit
    BY DEF Bit
  <2> HIDE DEF q2, q, W
  <2> QED
    BY <2>1, <2>2, <2>3, <2>4
<1>3. /\ 0 \in W <=> 0 \in x
      /\ 1 \in W <=> 1 \in x
      /\ 0 \in m <=> \/ 0 \in x /\ Sign \in x
                     \/ 1 \in x /\ 0 \notin x /\ Sign \notin x
      /\ 1 \in m <=> 1 \in x /\ (0 \in x \/ Sign \in x)
      /\ \A k \in 2 .. 31 : k \notin m
  BY WideBits, RestBits, 0 \in Bit, 1 \in Bit, \A k \in 2 .. 31 : k \in Bit /\ k >= 2 DEF Bit
<1>4. /\ 0 \in c <=> Sign \in x
      /\ 1 \in c <=> Sign \in x
      /\ \A k \in 2 .. 34 : k \notin c
  BY DEF Extra, Negative
<1>5. \A k \in 0 .. 34 : Sums(D, W, z, k) /\ Sums(z, c, zc, k)
  BY LongSums, \A k \in 0 .. 34 : k \in Long DEF Long
<1>6. \A k \in 0 .. 31 : Sums(q, q2, t3, k) /\ Sums(t3, m, res, k)
  BY IntSums, \A k \in 0 .. 31 : k \in Bit DEF Bit
<1>7. /\ ~ Carry(D, W, 0) /\ ~ Carry(z, c, 0) /\ ~ Carry(q, q2, 0) /\ ~ Carry(t3, m, 0)
  BY CarryIsMajority, 0 \in Nat
<1>8. 0 + 1 = 1 /\ 1 + 1 = 2 /\ 2 + 1 = 3 /\ 3 + 1 = 4 /\ 0 + 2 = 2 /\ 1 + 2 = 3 /\ 2 + 2 = 4
  OBVIOUS
<1>9. /\ 0 \in 0 .. 34 /\ 1 \in 0 .. 34 /\ 2 \in 0 .. 34 /\ 3 \in 0 .. 34
      /\ 0 \in 0 .. 31 /\ 1 \in 0 .. 31 /\ 0 \in 0 .. 30 /\ 0 \in 0 .. 33 /\ 1 \in 0 .. 33
      /\ 2 \in 0 .. 33 /\ 0 \in Bit /\ 1 \in Bit /\ 2 \in 2 .. 34 /\ 3 \in 2 .. 34
  BY DEF Bit
<1> HIDE DEF W, D, z, c, zc, q, q2, t3, m, res
<1>10. /\ 1 \in D <=> 0 \in W
       /\ 2 \in D <=> 1 \in W
       /\ 3 \in D <=> 2 \in W
       /\ 0 \in q <=> 2 \in W
       /\ 1 \in q <=> 3 \in W
       /\ 1 \in q2 <=> 2 \in W
  BY <1>1, <1>2, <1>8, <1>9
<1>11. /\ ~ Carry(D, W, 1)
       /\ Carry(D, W, 2) <=> 0 \in W /\ 1 \in W
       /\ 0 \in z <=> 0 \in W
       /\ 1 \in z <=> ~ (0 \in W <=> 1 \in W)
       /\ 2 \in z <=> IF Carry(D, W, 2) THEN 1 \in W <=> 2 \in W ELSE ~ (1 \in W <=> 2 \in W)
       /\ Carry(D, W, 3) <=> (1 \in W /\ 2 \in W) \/ ((1 \in W \/ 2 \in W) /\ Carry(D, W, 2))
       /\ 3 \in z <=> IF Carry(D, W, 3) THEN 2 \in W <=> 3 \in W ELSE ~ (2 \in W <=> 3 \in W)
       /\ Carry(D, W, 4) <=> (2 \in W /\ 3 \in W) \/ ((2 \in W \/ 3 \in W) /\ Carry(D, W, 3))
  <2>1. Sums(D, W, z, 0) /\ Sums(D, W, z, 1) /\ Sums(D, W, z, 2) /\ Sums(D, W, z, 3)
    BY <1>5, <1>9
  <2> QED
    BY <1>1, <1>7, <1>8, <1>10, <2>1 DEF Sums
<1>12. /\ Carry(z, c, 1) <=> 0 \in z /\ 0 \in c
       /\ Carry(z, c, 2) <=> (1 \in z /\ 1 \in c) \/ ((1 \in z \/ 1 \in c) /\ Carry(z, c, 1))
       /\ 2 \in zc <=> ~ (2 \in z <=> Carry(z, c, 2))
       /\ Carry(z, c, 3) <=> 2 \in z /\ Carry(z, c, 2)
       /\ 3 \in zc <=> ~ (3 \in z <=> Carry(z, c, 3))
       /\ Carry(z, c, 4) <=> 3 \in z /\ Carry(z, c, 3)
  <2>1. Sums(z, c, zc, 0) /\ Sums(z, c, zc, 1) /\ Sums(z, c, zc, 2) /\ Sums(z, c, zc, 3)
    BY <1>5, <1>9
  <2>2. Carry(z, c, 2) \in BOOLEAN /\ Carry(z, c, 3) \in BOOLEAN
    BY DEF Carry
  <2> QED
    BY <1>4, <1>7, <1>8, <1>9, <2>1, <2>2 DEF Sums
<1>13. /\ ~ Carry(q, q2, 1)
       /\ Carry(q, q2, 2) <=> 2 \in W /\ 3 \in W
       /\ 0 \in t3 <=> 2 \in W
       /\ 1 \in t3 <=> ~ (2 \in W <=> 3 \in W)
       /\ Carry(t3, m, 1) <=> 0 \in t3 /\ 0 \in m
       /\ Carry(t3, m, 2) <=> (1 \in t3 /\ 1 \in m) \/ ((1 \in t3 \/ 1 \in m) /\ Carry(t3, m, 1))
       /\ 0 \in res <=> ~ (0 \in t3 <=> 0 \in m)
       /\ 1 \in res <=> IF Carry(t3, m, 1) THEN 1 \in t3 <=> 1 \in m
                                           ELSE ~ (1 \in t3 <=> 1 \in m)
  <2>1. Sums(q, q2, t3, 0) /\ Sums(q, q2, t3, 1) /\ Sums(t3, m, res, 0) /\ Sums(t3, m, res, 1)
    BY <1>6, <1>9
  <2> QED
    BY <1>2, <1>7, <1>8, <1>10, <2>1 DEF Sums
<1>14. Same(2)
  BY <1>3, <1>4, <1>8, <1>11, <1>12, <1>13
<1>15. (0 \in res <=> 0 + 2 \in zc) /\ (1 \in res <=> 1 + 2 \in zc)
  BY <1>3, <1>4, <1>8, <1>11, <1>12, <1>13
<1>16. ASSUME NEW k \in 2 .. 31
       PROVE  LET A == k + 2 \in W
                  B == k + 1 \in W
                  C1 == Carry(D, W, k + 2)
                  C2 == Carry(z, c, k + 2)
                  K1 == Carry(q, q2, k)
                  K2 == Carry(t3, m, k)
              IN  /\ k + 2 \in z <=> IF C1 THEN A <=> B ELSE ~ (A <=> B)
                  /\ Carry(D, W, k + 3) <=> (A /\ B) \/ ((A \/ B) /\ C1)
                  /\ k + 2 \in zc <=> ~ (k + 2 \in z <=> C2)
                  /\ Carry(z, c, k + 3) <=> k + 2 \in z /\ C2
                  /\ k \in t3 <=> IF K1 THEN A <=> B ELSE ~ (A <=> B)
                  /\ Carry(q, q2, k + 1) <=> (A /\ B) \/ ((A \/ B) /\ K1)
                  /\ k \in res <=> ~ (k \in t3 <=> K2)
                  /\ Carry(t3, m, k + 1) <=> k \in t3 /\ K2
  <2>1. /\ k + 2 \in 0 .. 34 /\ k \in 0 .. 31 /\ k + 1 \in 0 .. 33 /\ (k + 1) + 1 = k + 2
        /\ k - 1 \in 0 .. 30 /\ (k - 1) + 1 = k /\ (k - 1) + 2 = k + 1 /\ k \in Bit
        /\ k + 2 \in 2 .. 34 /\ (k + 2) + 1 = k + 3
    BY DEF Bit
  <2>2. Sums(D, W, z, k + 2) /\ Sums(z, c, zc, k + 2) /\ Sums(q, q2, t3, k)
        /\ Sums(t3, m, res, k)
    BY <1>5, <1>6, <2>1
  <2>3. /\ k + 2 \in D <=> k + 1 \in W
        /\ k \in q <=> k + 2 \in W
        /\ k \in q2 <=> k + 1 \in W
        /\ k \notin m /\ k + 2 \notin c
    BY <1>1, <1>2, <1>3, <1>4, <2>1
  <2>4. Carry(z, c, k + 2) \in BOOLEAN /\ Carry(t3, m, k) \in BOOLEAN
    BY DEF Carry
  <2> QED
    BY <2>1, <2>2, <2>3, <2>4 DEF Sums
<1>17. S = {}
  <2>1. SUFFICES ASSUME S # {} PROVE FALSE
    OBVIOUS
  <2>2. PICK k \in S : \A j \in S : k <= j
    <3>1. S \subseteq Nat
      OBVIOUS
    <3> HIDE DEF S
    <3> QED
      BY <2>1, <3>1, Smallest
  <2>3. k # 2 /\ k \in 3 .. 31
    BY <1>14, <2>2
  <2> DEFINE j == k - 1
  <2>4. j \in 2 .. 31 /\ j < k /\ j + 1 = k /\ j + 3 = k + 2
    BY <2>3
  <2> HIDE DEF j
  <2>5. Same(j)
    BY <2>2, <2>3, <2>4
  <2>6. Same(k)
    BY <1>16, <2>4, <2>5
  <2> QED
    BY <2>2, <2>6
<1>18. ASSUME NEW k \in 2 .. 31
       PROVE  k \in res <=> k + 2 \in zc
  <2>1. Same(k)
    BY <1>17
  <2> QED
    BY <1>16, <2>1
<1>19. b = 0 \/ b = 1 \/ b \in 2 .. 31
  BY DEF Bit
<1>20. b \in res <=> b + 2 \in zc
  BY <1>15, <1>18, <1>19
<1> QED
  BY <1>20 DEF res, zc, t3, q2, q, m, z, c, D, W, Triple

\* bits.c:318 against tests.c:132: the long product divided by four is never needed.
THEOREM trueThreeFourthsAgrees ==
  ASSUME NEW x \in SUBSET Bit
  PROVE  trueThreeFourths(x) = test_trueThreeFourths(x)
<1> DEFINE z == Triple(x)
           q == Shr(x, 2)
           res == Add(Add(q, Shl(q, 1)), Rest(x))
           wanted == IF 34 \in z THEN Negated(LongFourth(Negated(z))) ELSE LongFourth(z)
<1>1. trueThreeFourths(x) = res
  BY DEF trueThreeFourths, Rest
<1>2. test_trueThreeFourths(x) = wanted \cap Bit
  BY DEF test_trueThreeFourths, Quarter, Triple, Wide, Negated, LongFourth
<1>3. z \in SUBSET Long
  BY DEF Triple, Sum
<1>4. res \subseteq Bit
  BY DEF Add, Sum
<1>5. ASSUME NEW b \in Bit
      PROVE  b \in res <=> b \in wanted
  <2> DEFINE zc == Sum(Long, z, Extra(x))
  <2>1. b \in res <=> b + 2 \in zc
    BY SameDigits
  <2>2. b \in Long /\ b + 2 \in Long
    BY DEF Bit, Long
  <2> HIDE DEF z, res
  <2>3. CASE Negative(x)
    <3>1. Extra(x) = {0, 1} /\ 34 \in z
      BY <2>3, TripleSign DEF Extra, z
    <3> QED
      BY <1>3, <2>1, <3>1, QuarterRoundsUp
  <2>4. CASE ~ Negative(x)
    <3>1. Extra(x) = {} /\ 34 \notin z
      BY <2>4, TripleSign DEF Extra, z
    <3>2. ~ Carry(z, {}, b + 2)
      BY DEF Carry
    <3>3. b + 2 \in zc <=> b + 2 \in z
      BY <2>2, <3>1, <3>2, DigitOfSum
    <3>4. b \in LongFourth(z) <=> b + 2 \in z
      BY <2>2 DEF LongFourth
    <3> QED
      BY <2>1, <3>1, <3>3, <3>4
  <2> QED
    BY <2>3, <2>4
<1> HIDE DEF res, wanted
<1> QED
  BY <1>1, <1>2, <1>4, <1>5

-----------------------------------------------------------------------------
(* The tester *)

\* Types, and where a test is at hand.
AtTest == {"gen_vals", "sigsetjmp", "alarm", "test", "passed", "failed", "timeout"}

TypeInv ==
  /\ pc \in AtTest \cup {"main", "next", "end", "exit", "undefined"}
  /\ call \in Calls /\ dropped \in BOOLEAN
  /\ argval \in [1 .. 3 -> {None} \cup SUBSET Bit]
  /\ i \in 1 .. Len(test_set) + 1
  /\ pc \in AtTest => i \in 1 .. Len(test_set)
  /\ pos \in Nat /\ errors \in {0, 1}
  /\ env \in [frame : 0 .. Len(test_set), masked : BOOLEAN]
  /\ alarm \in 0 .. Len(test_set) /\ fired \in 0 .. Len(test_set) /\ masked \in BOOLEAN
  /\ verdicts \in Seq(Verdict)
  /\ points \in Nat /\ max_points \in Nat /\ points <= max_points

\* Verdicts are given in the order of the tests.
VerdictsInOrder ==
  /\ \A n \in DOMAIN verdicts :
       /\ verdicts[n].test < i
       /\ \A m \in DOMAIN verdicts : m < n => verdicts[m].test < verdicts[n].test

\* The alarm of the test before, which came to its end in time.
Stale(test) ==
  LET n == Len(verdicts)
  IN  n > 0 /\ verdicts[n].test = test /\ verdicts[n].how # "timeout"

\* An alarm that is set is that of the frame in envbuf, but for the moment between
\* sigsetjmp and alarm, where it may be the one of the test before.
AlarmInv ==
  /\ ~ env.masked /\ (masked => pc = "undefined")
  /\ call.timeout = 0 => alarm = 0 /\ pc \notin {"sigsetjmp", "alarm"}
  /\ pc = "main" => alarm = 0
  /\ pc = "test" /\ call.timeout > 0 => env.frame = i /\ alarm = i
  /\ pc \in {"passed", "failed"} /\ alarm # 0 => env.frame = i /\ alarm = i
  /\ pc \in {"next", "gen_vals", "sigsetjmp"} /\ alarm # 0 => env.frame = alarm /\ Stale(alarm)
  /\ pc = "alarm" => env.frame = i /\ pos = 0 /\ (alarm # 0 => Stale(alarm))
  /\ pc = "timeout" => alarm = 0 /\ (fired = i \/ (pos = 0 /\ Stale(fired)))
  /\ pc = "undefined" => fired = env.frame /\ \A n \in DOMAIN verdicts :
                             verdicts[n].test = fired => verdicts[n].how # "timeout"
  /\ pc = "sigsetjmp" => pos = 0

\* The values of the arguments of the test at hand.
Proper(f, x) == f = "implication" => x \in {{}, {0}}
ValuesInv ==
  /\ \A k \in DOMAIN vals : vals[k] \in Seq(SUBSET Bit)
  /\ pc \in {"sigsetjmp", "alarm", "test"} =>
       /\ DOMAIN vals = 1 .. t.args
       /\ \A k \in 1 .. t.args : Len(vals[k]) > 0
       /\ pos < Combinations

\* They are of the puzzle's domain, and a comparison that fails is one of a stub.
ProperInv ==
  /\ call.fname \in {AllTests, "implication"} => \A k \in 1 .. 3 : argval[k] \in {None, {}, {0}}
  /\ pc \in AtTest => call.fname \in {AllTests, name}
  /\ pc \in {"sigsetjmp", "alarm", "test"} =>
       \A k \in 1 .. t.args : \A n \in DOMAIN vals[k] : Proper(name, vals[k][n])
  /\ pc = "failed" => name \in Stubs \/ (name = "satMul3" /\ dropped)

\* The values of an argument fit their array.
LenInv == \A k \in DOMAIN vals : Len(vals[k]) <= MAX_TEST_VALS


\* The tests of the table, as far as their types go.
Ranges == {All, FloatArgs, <<{}, {0}>>, <<{}, 0 .. 4>>}
WellFormed(test) ==
  /\ test.args \in 0 .. 2 /\ test.rating \in Nat
  /\ \A k \in 1 .. 2 : /\ test.arg_ranges[k] \in Ranges
                       /\ test.arg_ranges[k] = FloatArgs => test.args = 1

LEMMA TestTypes ==
  ASSUME NEW f \in DOMAIN Table
  PROVE  WellFormed(Table[f])
<1>1. All # FloatArgs /\ <<{}, {0}>> # FloatArgs /\ <<{}, 0 .. 4>> # FloatArgs
  <2>1. All[1] # FloatArgs[1] /\ <<{}, {0}>>[1] # FloatArgs[1] /\ <<{}, 0 .. 4>>[1] # FloatArgs[1]
    BY DEF All, FloatArgs, TMin, Sign
  <2> QED
    BY <2>1
<1>2. ASSUME NEW args \in 0 .. 2, NEW r \in Nat, NEW first \in Ranges, NEW second \in Ranges,
             args = 1 \/ (first # FloatArgs /\ second # FloatArgs)
      PROVE  WellFormed(Test(args, r, first, second))
  <2> DEFINE T == Test(args, r, first, second)
  <2>1. T.args = args /\ T.rating = r /\ T.arg_ranges[1] = first /\ T.arg_ranges[2] = second
    BY DEF Test
  <2> HIDE DEF T
  <2>2. WellFormed(T)
    BY <1>2, <2>1 DEF WellFormed
  <2> QED
    BY <2>2 DEF T
<1>3. All \in Ranges /\ FloatArgs \in Ranges /\ <<{}, {0}>> \in Ranges /\ <<{}, 0 .. 4>> \in Ranges
  BY DEF Ranges
<1> HIDE DEF WellFormed, Ranges, All, FloatArgs
<1>4. /\ \A args \in 0 .. 2 : \A r \in 1 .. 4 : WellFormed(Test(args, r, All, All))
      /\ \A r \in 1 .. 4 : WellFormed(Test(1, r, FloatArgs, FloatArgs))
  BY <1>1, <1>2, <1>3
<1>5. WellFormed(Test(2, 2, <<{}, {0}>>, <<{}, {0}>>))
  BY <1>1, <1>2, <1>3
<1>6. WellFormed(Test(2, 3, <<{}, 0 .. 4>>, <<{}, 0 .. 4>>))
  BY <1>1, <1>2, <1>3
<1> HIDE DEF Test
<1> QED
  BY <1>4, <1>5, <1>6 DEF Table

\* The options give each argument one of their values or leave it out.
LEMMA GivenFrom ==
  ASSUME NEW P, NEW args \in Seq(Option), \A k \in 1 .. Len(args) : args[k].val \in P
  PROVE  Given(args) = None \/ Given(args) \in [1 .. 3 -> {None} \cup P]
<1> DEFINE G == [1 .. 3 -> {None} \cup P]
           V == {None} \cup G
           none == <<None, None, None>>
           n == Len(args)
           Taken(v, a) == v # None /\ get_num_val(a, v[a.arg])
           Next1(v, a) == IF Taken(v, a) THEN [v EXCEPT ![a.arg] = a.val] ELSE None
           step == [k \in 1 .. n |-> [v \in V |-> Next1(v, args[k])]]
           Body(f) == [k \in 0 .. n |-> IF k = 0 THEN none ELSE Next1(f[k - 1], args[k])]
           given == CHOOSE f : f = Body(f)
<1>1. none \in V /\ n \in Nat
  OBVIOUS
<1>2. Stepping(V, n, step)
  <2>1. ASSUME NEW k \in 1 .. n, NEW v \in V
        PROVE  Next1(v, args[k]) \in V
    <3>1. args[k] \in Option
      OBVIOUS
    <3>2. CASE Taken(v, args[k])
      <4>1. v \in G /\ args[k].arg \in 1 .. 3 /\ args[k].val \in P
        BY <3>1, <3>2 DEF Option
      <4>2. [v EXCEPT ![args[k].arg] = args[k].val] \in G
        BY <4>1
      <4> QED
        BY <3>2, <4>2
    <3>3. CASE ~ Taken(v, args[k])
      BY <3>3
    <3> QED
      BY <3>2, <3>3
  <2> HIDE DEF V, Next1
  <2> QED
    BY <2>1 DEF Stepping
<1>3. PICK f \in Values(V, n) : Looped(f, n, none, step)
  <2> HIDE DEF V, n, none, step
  <2> QED
    BY <1>1, <1>2, Turns
<1>4. f = Body(f)
  <2> HIDE DEF V, none, Next1, n
  <2>1. ASSUME NEW k \in 1 .. n
        PROVE  f[k] = Next1(f[k - 1], args[k])
    <3>1. f[k - 1] \in V /\ f[k] = step[k][f[k - 1]]
      <4> HIDE DEF step
      <4> QED
        BY <1>1, <1>3 DEF Looped, Values
    <3> QED
      BY <3>1
  <2>2. ASSUME NEW k \in 0 .. n
        PROVE  f[k] = Body(f)[k]
    BY <1>3, <2>1, k = 0 \/ k \in 1 .. n DEF Looped
  <2>3. f = [k \in 0 .. n |-> f[k]]
    BY <1>3 DEF Values
  <2> QED
    BY <2>2, <2>3
<1>5. given = Body(given)
  BY <1>4, Zenon
<1>6. Given(args) = given[n]
  BY DEF Given
<1> HIDE DEF given
<1> DEFINE S == {k \in 0 .. n : given[k] \notin V}
<1>7. S = {}
  <2>1. SUFFICES ASSUME S # {} PROVE FALSE
    OBVIOUS
  <2>2. PICK k \in S : \A j \in S : k <= j
    <3>1. S \subseteq Nat
      BY <1>1
    <3> HIDE DEF S
    <3> QED
      BY <2>1, <3>1, Smallest
  <2> HIDE DEF V, none, Next1, n
  <2>3. \A j \in 0 .. n : given[j] = IF j = 0 THEN none ELSE Next1(given[j - 1], args[j])
    BY <1>5
  <2>4. k # 0
    BY <1>1, <2>2, <2>3
  <2>5. k - 1 \in 0 .. n /\ k - 1 < k /\ k \in 1 .. n
    BY <1>1, <2>2, <2>4
  <2>6. given[k - 1] \in V
    BY <1>1, <2>2, <2>5
  <2>7. Next1(given[k - 1], args[k]) \in V
    BY <1>2, <2>5, <2>6 DEF Stepping
  <2> QED
    BY <2>2, <2>3, <2>4, <2>7
<1> QED
  BY <1>1, <1>6, <1>7

LEMMA GivenType ==
  ASSUME NEW args \in Seq(Option)
  PROVE  Given(args) = None \/ Given(args) \in [1 .. 3 -> {None} \cup SUBSET Bit]
<1>1. \A k \in 1 .. Len(args) : args[k].val \in SUBSET Bit
  <2>1. \A a \in Option : a.val \in SUBSET Bit
    BY DEF Option
  <2>2. \A k \in 1 .. Len(args) : args[k] \in Option
    OBVIOUS
  <2> QED
    BY <2>1, <2>2
<1> QED
  BY <1>1, GivenFrom

LEMMA TestAtHand ==
  ASSUME call \in Calls, i \in 1 .. Len(test_set)
  PROVE  name \in DOMAIN Table /\ WellFormed(t) /\ rating \in Nat
<1>1. call.tests \in Seq(DOMAIN Table) /\ call.rating \in Nat
  BY BtestAssumption, CallsAssumption
<1>2. name \in DOMAIN Table
  BY <1>1 DEF name, test_set
<1>3. WellFormed(t)
  BY <1>2, TestTypes DEF t
<1> QED
  BY <1>1, <1>2, <1>3 DEF rating, WellFormed

LEMMA TypeInit == Init => TypeInv
<1> SUFFICES ASSUME Init PROVE TypeInv
  OBVIOUS
<1>1. call \in Calls /\ call.tests \in Seq(DOMAIN Table)
  BY CallsAssumption DEF Init
<1>2. Len(test_set) \in Nat
  BY <1>1 DEF test_set
<1>3. argval \in [1 .. 3 -> {None} \cup SUBSET Bit]
  <2>1. \A S : None \in S => <<None, None, None>> \in [1 .. 3 -> S]
    OBVIOUS
  <2> QED
    BY <2>1 DEF Init
<1>4. env \in [frame : 0 .. Len(test_set), masked : BOOLEAN]
  BY <1>2 DEF Init
<1>5. i \in 1 .. Len(test_set) + 1 /\ alarm \in 0 .. Len(test_set) /\ fired \in 0 .. Len(test_set)
  BY <1>2 DEF Init
<1>6. verdicts \in Seq(Verdict)
  BY DEF Init
<1>7. pc = "main" /\ dropped \in BOOLEAN /\ pos = 0 /\ errors = 0
      /\ points = 0 /\ max_points = 0
  BY DEF Init
<1>8. pc \in AtTest \cup {"main", "next", "end", "exit", "undefined"} /\ pc \notin AtTest
  BY <1>7 DEF AtTest
<1>9. pos \in Nat /\ errors \in {0, 1} /\ points \in Nat /\ max_points \in Nat
      /\ points <= max_points
  BY <1>7
<1>10. masked \in BOOLEAN
  BY DEF Init
<1> QED
  BY <1>1, <1>3, <1>4, <1>5, <1>6, <1>7, <1>8, <1>9, <1>10 DEF TypeInv

LEMMA TypeStep == TypeInv /\ [Next]_vars => TypeInv'
<1> SUFFICES ASSUME TypeInv, [Next]_vars PROVE TypeInv'
  OBVIOUS
<1> USE DEF TypeInv, AtTest
<1>1. call.tests \in Seq(DOMAIN Table) /\ Len(test_set) \in Nat
  BY CallsAssumption DEF test_set
<1>2. CASE UNCHANGED vars
  BY <1>2 DEF vars, settings, timer, score, test_set, Verdict
<1>3. CASE Main
  <2>1. argval' \in [1 .. 3 -> {None} \cup SUBSET Bit]
    <3>1. call.args \in Seq(Option)
      BY CallsAssumption
    <3> QED
      BY <1>3, <3>1, GivenType DEF Main
  <2> QED
    BY <1>3, <2>1 DEF Main, timer, score, test_set, Verdict
<1>4. CASE NextTest
  <2>1. i' \in 1 .. Len(test_set) + 1 /\ (pc' \in AtTest => i' \in 1 .. Len(test_set))
    BY <1>1, <1>4 DEF NextTest
  <2> QED
    BY <1>4, <2>1 DEF NextTest, settings, timer, score, test_set, Verdict
<1>5. CASE End
  BY <1>5 DEF End, settings, timer, score, test_set, Verdict
<1>6. CASE Score
  <2>0. pc \in {"passed", "failed", "timeout"} /\ i \in 1 .. Len(test_set)
    BY <1>6 DEF Score
  <2>1. verdicts' \in Seq(Verdict)
    <3> DEFINE v == [test |-> i, how |-> pc, errors |-> errors, cases |-> pos, by |-> fired]
    <3>1. v \in Verdict
      BY <2>0 DEF Verdict
    <3> HIDE DEF v
    <3> QED
      BY <1>6, <3>1 DEF Score, v
  <2>2. rating \in Nat
    BY <2>0, TestAtHand
  <2>3. points' \in Nat /\ max_points' \in Nat /\ points' <= max_points'
    BY <1>6, <2>2 DEF Score
  <2>4. i' \in 1 .. Len(test_set) + 1 /\ 0 \in 0 .. Len(test_set)
    BY <1>1, <1>6, <2>0 DEF Score
  <2> QED
    BY <1>6, <2>1, <2>3, <2>4 DEF Score, settings, test_set, Verdict
<1>7. CASE GenVals
  BY <1>7 DEF GenVals, settings, timer, score, test_set, Verdict
<1>8. CASE Sigsetjmp
  <2>1. env' \in [frame : 0 .. Len(test_set), masked : BOOLEAN]
    BY <1>1, <1>8 DEF Sigsetjmp
  <2> QED
    BY <1>8, <2>1 DEF Sigsetjmp, settings, timer, score, test_set, Verdict
<1>9. CASE Alarm
  BY <1>9 DEF Alarm, settings, score, test_set, Verdict
<1>10. CASE Compare
  BY <1>10 DEF Compare, settings, timer, score, test_set, Verdict
<1>11. CASE SIGALRM
  <2>0. 0 \in 0 .. Len(test_set)
    BY <1>1
  <2>1. CASE Live
    <3>1. pc' = "timeout" /\ errors' = 1 /\ masked' = env.masked /\ i \in 1 .. Len(test_set)
      BY <1>11, <2>1 DEF SIGALRM, Live
    <3> QED
      BY <1>11, <2>0, <3>1 DEF SIGALRM, settings, score, test_set, Verdict
  <2>2. CASE ~ Live
    <3>1. pc' = "undefined" /\ errors' = errors /\ masked' = TRUE
      BY <1>11, <2>2 DEF SIGALRM
    <3> QED
      BY <1>11, <2>0, <3>1 DEF SIGALRM, settings, score, test_set, Verdict
  <2> QED
    BY <2>1, <2>2
<1> QED
  BY <1>2, <1>3, <1>4, <1>5, <1>6, <1>7, <1>8, <1>9, <1>10, <1>11 DEF Next

-----------------------------------------------------------------------------
(* Alarms *)

LEMMA AlarmInit == Init => AlarmInv /\ VerdictsInOrder
<1> SUFFICES ASSUME Init PROVE AlarmInv /\ VerdictsInOrder
  OBVIOUS
<1>1. env.masked = FALSE /\ masked = FALSE /\ alarm = 0 /\ pc = "main" /\ verdicts = <<>>
  BY DEF Init
<1> QED
  BY <1>1 DEF AlarmInv, VerdictsInOrder

\* The verdicts and the history of a verdict that has just been given.
LEMMA VerdictsStep == TypeInv /\ VerdictsInOrder /\ [Next]_vars => VerdictsInOrder'
<1> SUFFICES ASSUME TypeInv, VerdictsInOrder, [Next]_vars PROVE VerdictsInOrder'
  OBVIOUS
<1>1. i \in Nat /\ verdicts \in Seq(Verdict) /\ \A n \in DOMAIN verdicts : verdicts[n].test \in Nat
  <2>1. i \in Nat /\ verdicts \in Seq(Verdict)
    BY DEF TypeInv
  <2>2. \A v \in Verdict : v.test \in Nat
    BY DEF Verdict
  <2> QED
    BY <2>1, <2>2
<1>2. CASE verdicts' = verdicts /\ i' \in Nat /\ i' >= i
  BY <1>1, <1>2 DEF VerdictsInOrder
<1>3. CASE Score
  <2> DEFINE v == [test |-> i, how |-> pc, errors |-> errors, cases |-> pos, by |-> fired]
             n == Len(verdicts)
  <2>1. /\ verdicts' = Append(verdicts, v) /\ i' = i + 1 /\ v.test = i
        /\ n \in Nat /\ DOMAIN verdicts = 1 .. n
    BY <1>1, <1>3 DEF Score
  <2> HIDE DEF v, n
  <2>2. /\ DOMAIN verdicts' = 1 .. n + 1 /\ verdicts'[n + 1] = v
        /\ \A k \in 1 .. n : verdicts'[k] = verdicts[k]
    BY <1>1, <2>1 DEF n
  <2>3. \A k \in 1 .. n : verdicts[k].test \in Nat /\ verdicts[k].test < i
    BY <1>1, <2>1 DEF VerdictsInOrder
  <2>4. ASSUME NEW k \in 1 .. n + 1
        PROVE  /\ verdicts'[k].test < i + 1
               /\ \A m \in 1 .. n + 1 : m < k => verdicts'[m].test < verdicts'[k].test
    <3>1. CASE k \in 1 .. n
      <4>1. verdicts[k].test < i + 1
        BY <1>1, <2>3, <3>1
      <4>2. ASSUME NEW m \in 1 .. n + 1, m < k
            PROVE  verdicts'[m].test < verdicts'[k].test
        <5>1. m \in 1 .. n
          BY <2>1, <3>1, <4>2
        <5> QED
          BY <2>1, <2>2, <3>1, <4>2, <5>1 DEF VerdictsInOrder
      <4> QED
        BY <2>2, <3>1, <4>1, <4>2
    <3>2. CASE k = n + 1
      <4>1. verdicts'[k].test = i /\ i < i + 1
        BY <1>1, <2>1, <2>2, <3>2
      <4>2. ASSUME NEW m \in 1 .. n + 1, m < k
            PROVE  verdicts'[m].test < i
        <5>1. m \in 1 .. n
          BY <2>1, <3>2, <4>2
        <5> QED
          BY <2>2, <2>3, <5>1
      <4> QED
        BY <4>1, <4>2
    <3> QED
      BY <2>1, <3>1, <3>2
  <2> QED
    BY <2>1, <2>2, <2>4 DEF VerdictsInOrder
<1>4. ASSUME Next, ~ Score
      PROVE  verdicts' = verdicts /\ i' \in Nat /\ i' >= i
  BY <1>1, <1>4 DEF Next, Main, NextTest, End, GenVals, Sigsetjmp, Alarm, Compare, SIGALRM, score
<1>5. CASE UNCHANGED vars
  BY <1>1, <1>2, <1>5 DEF vars, score
<1> QED
  BY <1>2, <1>3, <1>4, <1>5

LEMMA AlarmStep == TypeInv /\ AlarmInv /\ VerdictsInOrder /\ [Next]_vars => AlarmInv'
<1> SUFFICES ASSUME TypeInv, AlarmInv, VerdictsInOrder, [Next]_vars PROVE AlarmInv'
  OBVIOUS
<1>1. /\ i \in Nat /\ i # 0 /\ verdicts \in Seq(Verdict) /\ env.frame \in Nat /\ env.masked = FALSE
      /\ alarm \in Nat /\ fired \in Nat /\ pos \in Nat /\ call.timeout \in Nat
      /\ masked \in BOOLEAN
  <2>1. env.masked \in BOOLEAN
    BY DEF TypeInv
  <2> QED
    BY <2>1, BtestAssumption DEF TypeInv, AlarmInv
<1>2. CASE UNCHANGED vars
  BY <1>2 DEF vars, settings, timer, score, AlarmInv, Stale
<1>3. CASE Main
  BY <1>3 DEF Main, timer, score, AlarmInv, Stale
<1>4. CASE NextTest
  BY <1>4 DEF NextTest, settings, timer, score, AlarmInv, Stale
<1>5. CASE End
  BY <1>5 DEF End, settings, timer, score, AlarmInv, Stale
<1>6. CASE Score
  <2> DEFINE v == [test |-> i, how |-> pc, errors |-> errors, cases |-> pos, by |-> fired]
  <2>1. /\ verdicts' = Append(verdicts, v) /\ v.test = i /\ v.how = pc
        /\ pc \in {"passed", "failed", "timeout"} /\ pc' = "next"
        /\ call' = call /\ alarm' = alarm /\ env' = env /\ masked' = masked
    BY <1>6 DEF Score, settings
  <2> HIDE DEF v
  <2>2. Len(verdicts') > 0 /\ verdicts'[Len(verdicts')] = v
    BY <1>1, <2>1
  <2>3. alarm # 0 => env.frame = alarm /\ alarm = i /\ pc # "timeout"
    BY <2>1 DEF AlarmInv
  <2>4. alarm # 0 => Stale(alarm)'
    BY <2>1, <2>2, <2>3 DEF Stale
  <2> QED
    BY <2>1, <2>3, <2>4 DEF AlarmInv
<1>7. CASE GenVals
  BY <1>7 DEF GenVals, settings, timer, score, AlarmInv, Stale
<1>8. CASE Sigsetjmp
  BY <1>1, <1>8 DEF Sigsetjmp, settings, timer, score, AlarmInv, Stale
<1>9. CASE Alarm
  BY <1>1, <1>9 DEF Alarm, settings, score, AlarmInv, Stale
<1>10. CASE Compare
  <2>1. pc = "test" /\ pc' \in {"failed", "passed", "test"} /\ call' = call /\ i' = i /\ env' = env
        /\ alarm' = alarm /\ fired' = fired /\ masked' = masked
    BY <1>10 DEF Compare, settings, timer
  <2> QED
    BY <1>1, <2>1 DEF AlarmInv
<1>11. CASE SIGALRM
  <2>0. /\ alarm # 0 /\ fired' = alarm /\ alarm' = 0 /\ call' = call /\ i' = i /\ pos' = pos
        /\ env' = env /\ verdicts' = verdicts
        /\ pc \notin {"timeout", "end", "exit", "undefined"}
    BY <1>11 DEF SIGALRM, settings, score
  <2>1. CASE Live
    <3>1. pc' = "timeout" /\ masked' = env.masked /\ pc \in {"alarm", "test"}
      BY <1>11, <2>1 DEF SIGALRM, Live
    <3> QED
      BY <1>1, <2>0, <3>1 DEF AlarmInv, Stale
  <2>2. CASE ~ Live
    <3>1. pc' = "undefined"
      BY <1>11, <2>2 DEF SIGALRM
    <3>2. call.timeout > 0
      BY <1>1, <2>0 DEF AlarmInv
    <3>3. pc \in {"next", "gen_vals", "sigsetjmp", "passed", "failed"}
      <4>1. pc \notin {"main", "alarm", "test"}
        BY <2>0, <2>2, <3>2 DEF AlarmInv, Live
      <4> QED
        BY <2>0, <4>1 DEF TypeInv, AtTest
    <3>4. \A n \in DOMAIN verdicts : verdicts[n].test = alarm => verdicts[n].how # "timeout"
      <4>1. CASE pc \in {"passed", "failed"}
        <5>1. alarm = i
          BY <2>0, <4>1 DEF AlarmInv
        <5>2. \A n \in DOMAIN verdicts : verdicts[n].test < i
          BY DEF VerdictsInOrder
        <5> QED
          BY <1>1, <5>1, <5>2
      <4>2. CASE pc \in {"next", "gen_vals", "sigsetjmp"}
        <5> DEFINE m == Len(verdicts)
        <5>1. Stale(alarm) /\ m \in DOMAIN verdicts
          BY <1>1, <2>0, <4>2 DEF AlarmInv, Stale
        <5>2. ASSUME NEW n \in DOMAIN verdicts, n # m
              PROVE  verdicts[n].test # alarm
          <6>1. n < m
            BY <1>1, <5>2
          <6>2. verdicts[n].test < verdicts[m].test
            BY <5>1, <6>1 DEF VerdictsInOrder
          <6>3. verdicts[m].test = alarm
            BY <5>1 DEF Stale
          <6> QED
            BY <1>1, <6>2, <6>3
        <5> QED
          BY <5>1, <5>2 DEF Stale
      <4> QED
        BY <3>3, <4>1, <4>2
    <3>5. env.frame = alarm
      BY <1>1, <2>0, <3>3 DEF AlarmInv
    <3> QED
      BY <1>1, <2>0, <3>1, <3>2, <3>4, <3>5 DEF AlarmInv
  <2> QED
    BY <2>1, <2>2
<1> QED
  BY <1>2, <1>3, <1>4, <1>5, <1>6, <1>7, <1>8, <1>9, <1>10, <1>11 DEF Next

\* What a verdict says of the alarm that has ended its test.
Charged(v, n) ==
  v[n].how = "timeout" =>
    \/ v[n].by = v[n].test
    \/ n > 1 /\ v[n].cases = 0 /\ v[n].by = v[n - 1].test /\ v[n - 1].how # "timeout"
ChargedInv == \A n \in DOMAIN verdicts : Charged(verdicts, n)

LEMMA ChargedStep == TypeInv /\ AlarmInv /\ ChargedInv /\ [Next]_vars => ChargedInv'
<1> SUFFICES ASSUME TypeInv, AlarmInv, ChargedInv, [Next]_vars PROVE ChargedInv'
  OBVIOUS
<1>1. CASE verdicts' = verdicts
  BY <1>1 DEF ChargedInv, Charged
<1>2. CASE Score
  <2> DEFINE v == [test |-> i, how |-> pc, errors |-> errors, cases |-> pos, by |-> fired]
             n == Len(verdicts)
  <2>1. /\ verdicts \in Seq(Verdict) /\ verdicts' = Append(verdicts, v)
        /\ v.test = i /\ v.how = pc /\ v.cases = pos /\ v.by = fired
        /\ n \in Nat /\ DOMAIN verdicts = 1 .. n
    BY <1>2 DEF Score, TypeInv
  <2> HIDE DEF v
  <2>2. /\ DOMAIN verdicts' = 1 .. n + 1 /\ verdicts'[n + 1] = v
        /\ \A k \in 1 .. n : verdicts'[k] = verdicts[k]
    BY <2>1
  <2>3. pc = "timeout" => fired = i \/ (pos = 0 /\ Stale(fired))
    BY DEF AlarmInv
  <2>4. Charged(verdicts', n + 1)
    <3> SUFFICES ASSUME pc = "timeout", fired # i
                 PROVE  n + 1 > 1 /\ pos = 0 /\ fired = verdicts'[n].test
                        /\ verdicts'[n].how # "timeout" /\ (n + 1) - 1 = n
      BY <2>1, <2>2 DEF Charged
    <3>1. n > 0 /\ n \in 1 .. n
      BY <2>1, <2>3 DEF Stale
    <3> QED
      BY <2>1, <2>2, <2>3, <3>1 DEF Stale
  <2>5. ASSUME NEW k \in 1 .. n
        PROVE  Charged(verdicts', k)
    <3>1. Charged(verdicts, k)
      BY <2>1 DEF ChargedInv
    <3>2. k > 1 => verdicts'[k - 1] = verdicts[k - 1]
      BY <2>1, <2>2
    <3> QED
      BY <2>2, <3>1, <3>2 DEF Charged
  <2>6. \A k \in 1 .. n + 1 : k = n + 1 \/ k \in 1 .. n
    BY <2>1
  <2> QED
    BY <2>2, <2>4, <2>5, <2>6 DEF ChargedInv
<1>3. ASSUME Next, ~ Score
      PROVE  verdicts' = verdicts
  BY <1>3 DEF Next, Main, NextTest, End, GenVals, Sigsetjmp, Alarm, Compare, SIGALRM, score
<1>4. CASE UNCHANGED vars
  BY <1>1, <1>4 DEF vars, score
<1> QED
  BY <1>1, <1>2, <1>3, <1>4

OwnAlarms == TypeInv /\ AlarmInv /\ VerdictsInOrder /\ ChargedInv

LEMMA OwnAlarmsHold == Spec => []OwnAlarms
<1>1. Init => OwnAlarms
  <2>1. Init => ChargedInv
    BY DEF Init, ChargedInv
  <2> QED
    BY <2>1, TypeInit, AlarmInit DEF OwnAlarms
<1>2. OwnAlarms /\ [Next]_vars => OwnAlarms'
  BY TypeStep, AlarmStep, VerdictsStep, ChargedStep DEF OwnAlarms
<1> QED
  BY <1>1, <1>2, PTL DEF Spec

\* However the alarm of one test comes into another, for test sets and limits of every
\* size: it ends no other test than the next, and that before its first case; and a jump
\* into a frame that is gone is one to the test that had set it (btest.c:348-357).
THEOREM AlarmsEndTheirOwn == Spec => []AlarmsAreOwn
<1>1. OwnAlarms => AlarmsAreOwn
  BY DEF OwnAlarms, AlarmInv, ChargedInv, Charged, AlarmsAreOwn
<1> QED
  BY <1>1, OwnAlarmsHold, PTL

\* Under a limit no puzzle is called without an alarm of its own that can get through,
\* also after others were ended by a jump out of the handler (btest.c:103, 350).
THEOREM LimitsHold == Spec => []LimitHolds
<1>1. OwnAlarms => LimitHolds
  BY DEF OwnAlarms, TypeInv, AlarmInv, LimitHolds
<1> QED
  BY <1>1, OwnAlarmsHold, PTL
-----------------------------------------------------------------------------
(* Test values *)

\* The powers of two behind the positions of a word.
LEMMA Powers == 2^0 = 1 /\ \A k \in 1 .. 30 : 2^k \in Nat /\ 2^k > 1
<1> DEFINE P(k) == 2^k \in Nat /\ 2^k > 1
<1>1. P(1) /\ P(2) /\ P(3) /\ P(4) /\ P(5)
  BY 2^1 = 2, 2^2 = 4, 2^3 = 8, 2^4 = 16, 2^5 = 32
<1>2. P(6) /\ P(7) /\ P(8) /\ P(9) /\ P(10)
  BY 2^6 = 64, 2^7 = 128, 2^8 = 256, 2^9 = 512, 2^10 = 1024
<1>3. P(11) /\ P(12) /\ P(13) /\ P(14) /\ P(15)
  BY 2^11 = 2048, 2^12 = 4096, 2^13 = 8192, 2^14 = 16384, 2^15 = 32768
<1>4. P(16) /\ P(17) /\ P(18) /\ P(19) /\ P(20)
  BY 2^16 = 65536, 2^17 = 131072, 2^18 = 262144, 2^19 = 524288, 2^20 = 1048576
<1>5. P(21) /\ P(22) /\ P(23) /\ P(24) /\ P(25)
  BY 2^21 = 2097152, 2^22 = 4194304, 2^23 = 8388608, 2^24 = 16777216, 2^25 = 33554432
<1>6. P(26) /\ P(27) /\ P(28) /\ P(29) /\ P(30)
  BY 2^26 = 67108864, 2^27 = 134217728, 2^28 = 268435456, 2^29 = 536870912, 2^30 = 1073741824
<1> HIDE DEF P
<1>7. \A k \in 1 .. 30 : P(k)
  BY <1>1, <1>2, <1>3, <1>4, <1>5, <1>6
<1>8. \A k \in 1 .. 30 : 2^k \in Nat /\ 2^k > 1
  BY <1>7 DEF P
<1> QED
  BY <1>8, 2^0 = 1

LEMMA SmallWords == Word(0) = {} /\ Word(1) = {0}
<1>1. ASSUME NEW k \in 0 .. 30
      PROVE  ((0 \div 2^k) % 2 = 1 <=> FALSE) /\ ((1 \div 2^k) % 2 = 1 <=> k = 0)
  <2>1. CASE k = 0
    <3>1. 2^k = 1
      BY <2>1, Powers
    <3> HIDE <2>1
    <3>2. 0 \div 1 = 0 /\ 1 \div 1 = 1 /\ 0 % 2 = 0 /\ 1 % 2 = 1
      OBVIOUS
    <3> QED
      BY <2>1, <3>1, <3>2
  <2>2. CASE k # 0
    <3>1. k \in 1 .. 30
      BY <2>2
    <3> DEFINE p == 2^k
    <3>2. p \in Nat /\ p > 1
      BY <3>1, Powers
    <3> HIDE DEF p
    <3>3. 0 \div p = 0 /\ 1 \div p = 0
      BY <3>2
    <3>4. ((0 \div p) % 2 = 1 <=> FALSE) /\ ((1 \div p) % 2 = 1 <=> k = 0)
      BY <2>2, <3>3
    <3> QED
      BY <3>4 DEF p
  <2> QED
    BY <2>1, <2>2
<1> DEFINE digit(n, k) == (n \div 2^k) % 2 = 1
<1>2. \A n : Word(n) = {k \in 0 .. 30 : digit(n, k)} \cup (IF n < 0 THEN {Sign} ELSE {})
  BY DEF Word
<1>3. \A k \in 0 .. 30 : (digit(0, k) <=> FALSE) /\ (digit(1, k) <=> k = 0)
  BY <1>1
<1> HIDE DEF digit
<1>4. ~ (0 < 0) /\ ~ (1 < 0)
  OBVIOUS
<1> QED
  BY <1>2, <1>3, <1>4

LEMMA WordsAreWords ==
  ASSUME NEW x \in SUBSET Bit, NEW n
  PROVE  Word(n) \in SUBSET Bit /\ Plus(x, n) \in SUBSET Bit /\ Less1(x, n) \in SUBSET Bit
<1>1. \A y : Add(x, y) \in SUBSET Bit
  BY DEF Add, Sum
<1>2. Word(n) \in SUBSET Bit
  BY DEF Word, Bit, Sign
<1> QED
  BY <1>1, <1>2 DEF Plus, Less1

LEMMA CountIsShift == \A x : Count(x) \in Bit
  BY DEF Count, Bit

\* The test values of one argument.
Arrays == Seq(SUBSET Bit)

LEMMA ArrayOf ==
  ASSUME NEW n \in Nat, NEW f \in [1 .. n -> SUBSET Bit]
  PROVE  f \in Arrays /\ Len(f) = n
<1>1. f \in Seq(SUBSET Bit) /\ DOMAIN f = 1 .. n
  OBVIOUS
<1> QED
  BY <1>1 DEF Arrays

LEMMA ElementsOf ==
  ASSUME NEW v \in Arrays
  PROVE  /\ Len(v) \in Nat /\ DOMAIN v = 1 .. Len(v)
         /\ \A k \in 1 .. Len(v) : v[k] \in SUBSET Bit
  BY DEF Arrays

LEMMA OneValue ==
  ASSUME NEW x \in SUBSET Bit
  PROVE  <<x>> \in Arrays /\ Len(<<x>>) = 1
  BY DEF Arrays

LEMMA NoValue == <<>> \in Arrays /\ Len(<<>>) = 0
  BY DEF Arrays

LEMMA Joined ==
  ASSUME NEW u \in Arrays, NEW v \in Arrays
  PROVE  u \o v \in Arrays /\ Len(u \o v) = Len(u) + Len(v) /\ Len(u) \in Nat /\ Len(v) \in Nat
  BY DEF Arrays

LEMMA IntValsType ==
  ASSUME NEW range, range[1] \in SUBSET Bit, range[2] \in SUBSET Bit, NEW n,
         NEW random \in SUBSET Bit
  PROVE  IntVals(range, n, random) \in Arrays /\ Len(IntVals(range, n, random)) \in 3 .. 5
<1> DEFINE inside(x) == IF Within(x, range) THEN <<x>> ELSE <<>>
           ends == <<Plus(range[1], n), Less1(range[2], n)>>
           low == inside(Word(n))
           high == inside(Word(-n))
<1>1. ends \in Arrays /\ Len(ends) = 2
  BY WordsAreWords DEF Arrays
<1>2. ASSUME NEW x \in SUBSET Bit
      PROVE  inside(x) \in Arrays /\ (Len(inside(x)) = 0 \/ Len(inside(x)) = 1)
  BY OneValue, NoValue
<1>3. Word(n) \in SUBSET Bit /\ Word(-n) \in SUBSET Bit
  BY WordsAreWords, range[1] \in SUBSET Bit
<1>4. <<random>> \in Arrays /\ Len(<<random>>) = 1
  BY OneValue
<1>5. IntVals(range, n, random) = ((ends \o low) \o high) \o <<random>>
  BY DEF IntVals
<1>6. /\ low \in Arrays /\ (Len(low) = 0 \/ Len(low) = 1)
      /\ high \in Arrays /\ (Len(high) = 0 \/ Len(high) = 1)
  BY <1>2, <1>3
<1> HIDE DEF ends, low, high
<1>7. ends \o low \in Arrays /\ Len(ends \o low) = 2 + Len(low)
  BY <1>1, <1>6, Joined
<1>8. (ends \o low) \o high \in Arrays /\ Len((ends \o low) \o high) = 2 + Len(low) + Len(high)
  BY <1>6, <1>7, Joined
<1>9. /\ IntVals(range, n, random) \in Arrays
      /\ Len(IntVals(range, n, random)) = 2 + Len(low) + Len(high) + 1
  BY <1>4, <1>5, <1>8, Joined
<1>10. ASSUME NEW a \in 0 .. 1, NEW b \in 0 .. 1
       PROVE  2 + a + b + 1 \in 3 .. 5
  OBVIOUS
<1>11. Len(low) \in 0 .. 1 /\ Len(high) \in 0 .. 1
  BY <1>6
<1> QED
  BY <1>9, <1>10, <1>11

LEMMA SampledType ==
  ASSUME NEW range, range[1] \in SUBSET Bit, range[2] \in SUBSET Bit, NEW turns \in Nat,
         NEW random \in SUBSET Bit
  PROVE  /\ Sampled(range, turns, random) \in Arrays
         /\ Len(Sampled(range, turns, random)) \in turns .. 5 * turns
<1> DEFINE Of(n) == IntVals(range, n, random)
           step == [k \in 1 .. turns |-> [v \in Arrays |-> v \o Of(k - 1)]]
           Body(f) == [k \in 0 .. turns |-> IF k = 0 THEN <<>> ELSE f[k - 1] \o Of(k - 1)]
           after == CHOOSE f : f = Body(f)
<1>1. \A n : Of(n) \in Arrays /\ Len(Of(n)) \in 3 .. 5
  BY IntValsType
<1> HIDE DEF Of
<1>2. Stepping(Arrays, turns, step)
  <2>1. ASSUME NEW k \in 1 .. turns, NEW v \in Arrays
        PROVE  v \o Of(k - 1) \in Arrays
    <3>1. Of(k - 1) \in Arrays
      BY <1>1
    <3> QED
      BY <3>1 DEF Arrays
  <2> HIDE DEF Arrays
  <2> QED
    BY <2>1 DEF Stepping
<1>3. PICK f \in Values(Arrays, turns) : Looped(f, turns, <<>>, step)
  <2>1. <<>> \in Arrays
    BY DEF Arrays
  <2> HIDE DEF step
  <2> QED
    BY <1>2, <2>1, Turns
<1>4. f = Body(f)
  <2>1. ASSUME NEW k \in 1 .. turns
        PROVE  f[k] = f[k - 1] \o Of(k - 1)
    <3>1. f[k - 1] \in Arrays /\ f[k] = step[k][f[k - 1]]
      <4> HIDE DEF step, Arrays
      <4> QED
        BY <1>3 DEF Looped, Values
    <3> HIDE DEF Arrays
    <3> QED
      BY <3>1
  <2>2. ASSUME NEW k \in 0 .. turns
        PROVE  f[k] = Body(f)[k]
    BY <1>3, <2>1, k = 0 \/ k \in 1 .. turns DEF Looped
  <2>3. f = [k \in 0 .. turns |-> f[k]]
    BY <1>3 DEF Values
  <2> HIDE DEF Body
  <2>4. Body(f) = [k \in 0 .. turns |-> Body(f)[k]]
    BY DEF Body
  <2> QED
    BY <2>2, <2>3, <2>4
<1>5. after = Body(after)
  BY <1>4, Zenon
<1>6. Sampled(range, turns, random) = after[turns]
  BY DEF Sampled, Of
<1> HIDE DEF after
<1> DEFINE Good(k) == after[k] \in Arrays /\ Len(after[k]) \in k .. 5 * k
           S == {k \in 0 .. turns : ~ Good(k)}
<1>7. S = {}
  <2>1. SUFFICES ASSUME S # {} PROVE FALSE
    OBVIOUS
  <2>2. PICK k \in S : \A j \in S : k <= j
    <3>1. S \subseteq Nat
      OBVIOUS
    <3> HIDE DEF S
    <3> QED
      BY <2>1, <3>1, Smallest
  <2>3. \A j \in 0 .. turns : after[j] = IF j = 0 THEN <<>> ELSE after[j - 1] \o Of(j - 1)
    BY <1>5
  <2>4. CASE k = 0
    <3>1. after[0] = <<>>
      BY <2>3
    <3>2. after[k] \in Arrays /\ Len(after[k]) = 0
      BY <2>4, <3>1, NoValue
    <3> QED
      BY <2>2, <2>4, <3>2
  <2>5. CASE k # 0
    <3> DEFINE j == k - 1
    <3>1. j \in 0 .. turns /\ j < k /\ k = j + 1 /\ k \in 0 .. turns
      BY <2>2, <2>5
    <3> HIDE DEF j
    <3>2. Good(j)
      BY <2>2, <3>1
    <3>3. after[k] = after[j] \o Of(j)
      BY <2>3, <2>5, <3>1 DEF j
    <3>4. Len(after[k]) = Len(after[j]) + Len(Of(j)) /\ after[k] \in Arrays
      BY <1>1, <3>2, <3>3 DEF Arrays
    <3>5. Len(after[j]) \in j .. 5 * j /\ Len(Of(j)) \in 3 .. 5
      BY <1>1, <3>2
    <3>6. j \in Nat
      BY <3>1
    <3>7. ASSUME NEW a \in j .. 5 * j, NEW b \in 3 .. 5
          PROVE  a + b \in (j + 1) .. 5 * (j + 1)
      BY <3>6
    <3>8. Len(after[k]) \in k .. 5 * k
      BY <3>1, <3>4, <3>5, <3>7
    <3> QED
      BY <2>2, <3>4, <3>8
  <2> QED
    BY <2>4, <2>5
<1> QED
  BY <1>6, <1>7

\* A range as small as a logical value is tried whole, for arrays of every size.
LEMMA LogicalRange ==
  LET range == <<{}, {0}>>
  IN  /\ IsSmall(range)
      /\ Exhaustive(range) \in Arrays
      /\ Len(Exhaustive(range)) = 2
      /\ \A k \in 1 .. 2 : Exhaustive(range)[k] \in {{}, {0}}
<1> DEFINE range == <<{}, {0}>>
           M == -MAX_TEST_VALS
           least == Less1({0}, MAX_TEST_VALS)
<1>1. {} \in SUBSET Bit /\ {0} \in SUBSET Bit /\ 0 \in Bit /\ 31 \in Bit /\ Sign = 31
  BY DEF Bit, Sign
<1>2. M \in Int /\ M < 0
  BY BtestAssumption DEF MAX_TEST_VALS
<1>3. IsSmall(range)
  <2>1. least = Add({0}, Word(M))
    BY DEF Less1
  <2>2. Sign \in Word(M)
    BY <1>2 DEF Word
  <2>3. CASE Sign \in least
    <3>1. Less(least, {})
      BY <2>3 DEF Less, Negative
    <3> QED
      BY <3>1 DEF IsSmall, AtMost
  <2>4. CASE Sign \notin least
    <3>1. Carry({0}, Word(M), 31)
      <4>1. 31 \notin {0} /\ 31 \in Word(M)
        BY <1>1, <2>2
      <4> HIDE DEF M
      <4>2. 31 \in Add({0}, Word(M)) <=> IF Carry({0}, Word(M), 31)
                                      THEN 31 \in {0} <=> 31 \in Word(M)
                                      ELSE ~ (31 \in {0} <=> 31 \in Word(M))
        BY <1>1, DigitOfSum DEF Add
      <4> QED
        BY <1>1, <2>1, <2>4, <4>1, <4>2
    <3>2. \A k \in 0 .. 30 : k \in Word(M)
      <4> HIDE DEF M
      <4> QED
        BY <3>1 DEF Carry
    <3>3. ASSUME NEW b \in Bit
          PROVE  b \notin least
      <4>1. CASE b = 31
        BY <1>1, <2>4, <4>1
      <4>2. CASE b = 0
        <5>1. ~ Carry({0}, Word(M), 0) /\ 0 \in Word(M)
          BY <3>2 DEF Carry
        <5> HIDE DEF M
        <5>2. 0 \in Add({0}, Word(M)) <=> IF Carry({0}, Word(M), 0)
                                     THEN 0 \in {0} <=> 0 \in Word(M)
                                     ELSE ~ (0 \in {0} <=> 0 \in Word(M))
          BY <1>1, DigitOfSum DEF Add
        <5> QED
          BY <2>1, <4>2, <5>1, <5>2
      <4>3. CASE b \in 1 .. 30
        <5> HIDE DEF M
        <5>1. Carry({0}, Word(M), b)
          <6>1. \A k \in 1 .. b - 1 : k \in Word(M)
            BY <3>2, <4>3
          <6>2. 0 \in 0 .. b - 1 /\ 0 \in {0} /\ 0 \in Word(M)
            BY <3>2, <4>3
          <6> QED
            BY <6>1, <6>2 DEF Carry
        <5>2. b \notin {0} /\ b \in Word(M)
          BY <3>2, <4>3
        <5>3. b \in Add({0}, Word(M)) <=> IF Carry({0}, Word(M), b)
                                     THEN b \in {0} <=> b \in Word(M)
                                     ELSE ~ (b \in {0} <=> b \in Word(M))
          BY <1>1, DigitOfSum DEF Add
        <5> QED
          BY <2>1, <5>1, <5>2, <5>3
      <4> QED
        BY <4>1, <4>2, <4>3 DEF Bit
    <3>4. least \subseteq Bit
      BY DEF Less1, Add, Sum
    <3>5. least = {}
      BY <3>3, <3>4
    <3> QED
      BY <3>5 DEF IsSmall, AtMost
  <2> QED
    BY <2>3, <2>4
<1>4. Minus({}) = {}
  <2>1. ASSUME NEW b \in Bit
        PROVE  b \notin Add(Bit, {0})
    <3>1. Carry(Bit, {0}, b) <=> b # 0
      BY DEF Carry, Bit
    <3>2. b \in Add(Bit, {0}) <=> IF Carry(Bit, {0}, b) THEN b \in Bit <=> b \in {0}
                                                       ELSE ~ (b \in Bit <=> b \in {0})
      BY DigitOfSum DEF Add
    <3> QED
      BY <3>1, <3>2
  <2>2. Add(Bit, {0}) \subseteq Bit /\ Not({}) = Bit
    BY DEF Add, Sum, Not
  <2> QED
    BY <2>1, <2>2 DEF Minus
<1>5. Add({0}, {}) = {0} /\ Add({}, {}) = {}
  BY <1>1, ZeroAdds
<1>6. Add({}, {0}) = {0}
  <2>1. Add({}, {0}) = {} \cup {0}
    BY <1>1, DisjointAdds
  <2> QED
    BY <2>1
<1>7. Count({0}) = 1
  BY DEF Count
<1>8. Exhaustive(range) = [k \in 1 .. 2 |-> Plus({}, k - 1)]
  <2>1. range[1] = {} /\ range[2] = {0} /\ 1 + 1 = 2
    OBVIOUS
  <2> HIDE DEF range
  <2> QED
    BY <1>4, <1>5, <1>7, <2>1 DEF Exhaustive
<1>9. Plus({}, 1 - 1) = {} /\ Plus({}, 2 - 1) = {0}
  <2>1. 1 - 1 = 0 /\ 2 - 1 = 1
    OBVIOUS
  <2> QED
    BY <1>5, <1>6, <2>1, SmallWords DEF Plus
<1>10. \A k \in 1 .. 2 : Plus({}, k - 1) \in {{}, {0}}
  <2>1. \A k \in 1 .. 2 : k = 1 \/ k = 2
    OBVIOUS
  <2> QED
    BY <1>9, <2>1
<1>11. [k \in 1 .. 2 |-> Plus({}, k - 1)] \in Seq(SUBSET Bit)
  <2>1. \A k \in 1 .. 2 : Plus({}, k - 1) \in SUBSET Bit
    BY <1>1, <1>10
  <2> QED
    BY <2>1
<1>12. /\ Exhaustive(range) \in Arrays /\ Len(Exhaustive(range)) = 2
       /\ \A k \in 1 .. 2 : Exhaustive(range)[k] \in {{}, {0}}
  <2>1. DOMAIN Exhaustive(range) = 1 .. 2
    BY <1>8
  <2>2. Exhaustive(range) \in Seq(SUBSET Bit)
    BY <1>8, <1>11
  <2>3. Len(Exhaustive(range)) = 2
    <3> HIDE DEF range
    <3> QED
      BY <2>1, <2>2
  <2> QED
    BY <1>8, <1>10, <2>2, <2>3 DEF Arrays
<1> QED
  BY <1>3, <1>12

LEMMA ExhaustiveType ==
  ASSUME NEW range, range[1] \in SUBSET Bit
  PROVE  Exhaustive(range) \in Arrays /\ Len(Exhaustive(range)) \in 1 .. 32
<1> DEFINE n == Count(Add(range[2], Minus(range[1]))) + 1
<1>1. n \in 1 .. 32
  BY CountIsShift DEF Bit
<1>2. Exhaustive(range) = [k \in 1 .. n |-> Plus(range[1], k - 1)]
  BY DEF Exhaustive
<1>3. \A k \in 1 .. n : Plus(range[1], k - 1) \in SUBSET Bit
  BY WordsAreWords
<1>4. Exhaustive(range) \in [1 .. n -> SUBSET Bit]
  BY <1>2, <1>3
<1> HIDE DEF n
<1>5. n \in Nat
  BY <1>1
<1>6. Exhaustive(range) \in Arrays /\ Len(Exhaustive(range)) = n
  BY <1>4, <1>5, ArrayOf
<1> QED
  BY <1>1, <1>6

\* The values of an argument of a floating point puzzle.
FloatArray(turns) ==
  [n \in 1 .. 12 * turns |-> FloatVals((n - 1) \div 12)[((n - 1) % 12) + 1]]
    \o <<inf, inf \cup {Sign}, nan, nan \cup {Sign}>>

LEMMA FloatValsType ==
  ASSUME NEW n
  PROVE  DOMAIN FloatVals(n) = 1 .. 12 /\ \A k \in 1 .. 12 : FloatVals(n)[k] \in SUBSET Bit
<1> DEFINE near == <<Word(n), Plus(smallest_norm, n), Less1(smallest_norm, n),
                     Plus(one, n), Less1(one, n), Less1(largest_norm, n)>>
           signed == [k \in 1 .. 6 |-> near[k] \cup {Sign}]
<1>1. smallest_norm \in SUBSET Bit /\ one \in SUBSET Bit /\ largest_norm \in SUBSET Bit
      /\ Sign \in Bit
  BY DEF smallest_norm, one, largest_norm, Bit, Sign
<1>2. /\ Word(n) \in SUBSET Bit
      /\ Plus(smallest_norm, n) \in SUBSET Bit /\ Less1(smallest_norm, n) \in SUBSET Bit
      /\ Plus(one, n) \in SUBSET Bit /\ Less1(one, n) \in SUBSET Bit
      /\ Less1(largest_norm, n) \in SUBSET Bit
  BY <1>1, WordsAreWords
<1>3. near \in [1 .. 6 -> SUBSET Bit]
  BY <1>2
<1>4. signed \in [1 .. 6 -> SUBSET Bit]
  <2>1. \A k \in 1 .. 6 : near[k] \in SUBSET Bit
    BY <1>3
  <2> HIDE DEF near
  <2> QED
    BY <1>1, <2>1
<1>5. FloatVals(n) = near \o signed
  BY DEF FloatVals
<1> HIDE DEF near, signed
<1>6. near \in Arrays /\ signed \in Arrays /\ Len(near) = 6 /\ Len(signed) = 6
  BY <1>3, <1>4, ArrayOf
<1>7. FloatVals(n) \in Arrays /\ Len(FloatVals(n)) = 12
  <2>1. /\ near \o signed \in Arrays
        /\ Len(near \o signed) = Len(near) + Len(signed)
    BY <1>6, Joined
  <2>2. Len(near) + Len(signed) = 12
    BY <1>6
  <2> QED
    BY <1>5, <2>1, <2>2
<1> QED
  BY <1>7, ElementsOf

LEMMA FloatArrayType ==
  ASSUME NEW turns \in Nat
  PROVE  FloatArray(turns) \in Arrays /\ Len(FloatArray(turns)) = 12 * turns + 4
<1> DEFINE n == 12 * turns
           u == [k \in 1 .. n |-> FloatVals((k - 1) \div 12)[((k - 1) % 12) + 1]]
           v == <<inf, inf \cup {Sign}, nan, nan \cup {Sign}>>
<1>1. u \in Arrays /\ Len(u) = n
  <2>1. n \in Nat
    OBVIOUS
  <2>2. ASSUME NEW k \in 1 .. n
        PROVE  FloatVals((k - 1) \div 12)[((k - 1) % 12) + 1] \in SUBSET Bit
    <3>1. ((k - 1) % 12) + 1 \in 1 .. 12
      BY <2>1
    <3> QED
      BY <3>1, FloatValsType
  <2>3. u \in [1 .. n -> SUBSET Bit]
    BY <2>2
  <2> HIDE DEF u, n
  <2>4. u \in Seq(SUBSET Bit) /\ DOMAIN u = 1 .. n
    BY <2>1, <2>3
  <2> QED
    BY <2>1, <2>4 DEF Arrays
<1>2. v \in Arrays /\ Len(v) = 4
  <2>1. inf \in SUBSET Bit /\ nan \in SUBSET Bit /\ Sign \in Bit
    BY DEF inf, nan, Exponent, Bit, Sign
  <2> QED
    BY <2>1 DEF Arrays
<1>3. FloatArray(turns) = u \o v
  BY DEF FloatArray
<1> HIDE DEF u, v
<1> QED
  BY <1>1, <1>2, <1>3, Joined

\* What gen_vals leaves in an array.
LEMMA GenValsType ==
  ASSUME TypeInv, NEW arg \in 1 .. 3, NEW range \in Ranges, NEW turns \in Nat \ {0},
         NEW random \in SUBSET Bit
  PROVE  LET v == gen_vals(arg, range, turns, random)
         IN  /\ v \in Arrays /\ Len(v) \in Nat \ {0}
             /\ Len(v) <= 32 \/ Len(v) <= 5 * turns
                  \/ (range = FloatArgs /\ Len(v) <= 12 * turns + 4)
<1> DEFINE v == gen_vals(arg, range, turns, random)
<1>0. range[1] \in SUBSET Bit /\ range[2] \in SUBSET Bit
  <2>1. {TMin, TMax, {0}, {}, 0 .. 4} \subseteq SUBSET Bit
    BY DEF TMin, TMax, Bit, Sign
  <2> QED
    BY <2>1 DEF Ranges, All, FloatArgs
<1>1. CASE argval[arg] # None
  <2>1. argval[arg] \in SUBSET Bit
    BY <1>1 DEF TypeInv
  <2>2. v = <<argval[arg]>>
    BY <1>1 DEF gen_vals
  <2>3. v \in Arrays /\ Len(v) = 1
    BY <2>1, <2>2, OneValue
  <2> HIDE DEF v
  <2>4. Len(v) \in Nat \ {0} /\ Len(v) <= 32
    BY <2>3
  <2> QED
    BY <2>3, <2>4 DEF v
<1>2. CASE argval[arg] = None /\ range = FloatArgs
  <2>1. v = FloatArray(turns)
    BY <1>2 DEF gen_vals, FloatArray
  <2>2. v \in Arrays /\ Len(v) = 12 * turns + 4
    BY <2>1, FloatArrayType
  <2> HIDE DEF v
  <2>3. Len(v) \in Nat \ {0} /\ Len(v) <= 12 * turns + 4
    BY <2>2
  <2> QED
    BY <1>2, <2>2, <2>3 DEF v
<1>3. CASE argval[arg] = None /\ range # FloatArgs /\ IsSmall(range)
  <2>1. v = Exhaustive(range)
    BY <1>3 DEF gen_vals
  <2>2. v \in Arrays /\ Len(v) \in 1 .. 32
    BY <1>0, <2>1, ExhaustiveType
  <2> HIDE DEF v
  <2>3. Len(v) \in Nat \ {0} /\ Len(v) <= 32
    <3>1. \A n \in 1 .. 32 : n \in Nat \ {0} /\ n <= 32
      OBVIOUS
    <3> QED
      BY <2>2, <3>1
  <2> QED
    BY <2>2, <2>3 DEF v
<1>4. CASE argval[arg] = None /\ range # FloatArgs /\ ~ IsSmall(range)
  <2>1. v = Sampled(range, turns, random)
    BY <1>4 DEF gen_vals
  <2>2. v \in Arrays /\ Len(v) \in turns .. 5 * turns
    BY <1>0, <2>1, SampledType
  <2> HIDE DEF v
  <2>3. Len(v) \in Nat \ {0} /\ Len(v) <= 5 * turns
    BY <2>2
  <2> QED
    BY <2>2, <2>3 DEF v
<1> QED
  BY <1>1, <1>2, <1>3, <1>4

\* The number of turns of the loops.
LEMMA TestRange == test_range \in 1 .. TEST_RANGE
<1> DEFINE T == TEST_RANGE
           S == {r \in Nat : (r + 1) * (r + 1) > T}
           IsRoot(r) == r * r <= T /\ (r + 1) * (r + 1) > T
<1>1. T \in Nat /\ T > 0
  BY BtestAssumption
<1> HIDE DEF T
<1>2. T \in S
  <2>1. (T + 1) * (T + 1) = T * T + 2 * T + 1 /\ T * T >= 0
    BY <1>1
  <2> QED
    BY <1>1, <2>1
<1>3. PICK r \in S : \A j \in S : r <= j
  <2>1. S \subseteq Nat /\ S # {}
    BY <1>2
  <2> HIDE DEF S
  <2> QED
    BY <2>1, Smallest
<1>4. r \in Nat /\ r # 0 /\ r <= T
  <2>1. r # 0
    BY <1>1, <1>3
  <2> QED
    BY <1>1, <1>2, <1>3, <2>1
<1>5. IsRoot(r)
  <2>1. r - 1 \in Nat /\ r - 1 \notin S /\ (r - 1) + 1 = r
    <3> HIDE DEF S
    <3>1. r - 1 \in Nat /\ ~ (r <= r - 1)
      BY <1>4
    <3> QED
      BY <1>3, <1>4, <3>1
  <2>2. ~ (((r - 1) + 1) * ((r - 1) + 1) > T)
    BY <2>1
  <2>3. ~ (r * r > T)
    BY <2>1, <2>2
  <2> QED
    BY <1>1, <1>3, <1>4, <2>3
<1>6. \E x \in 1 .. T : IsRoot(x)
  <2>1. r \in 1 .. T
    BY <1>1, <1>4
  <2> HIDE DEF IsRoot
  <2> QED
    BY <1>5, <2>1
<1> DEFINE chosen == CHOOSE x \in 1 .. T : IsRoot(x)
<1>7. chosen \in 1 .. T
  <2> HIDE DEF IsRoot
  <2> QED
    BY <1>6
<1>8. test_range = IF t.args = 2 THEN chosen ELSE T
  BY DEF test_range, T
<1> HIDE DEF chosen
<1>9. T \in 1 .. T
  BY <1>1
<1> QED
  BY <1>7, <1>8, <1>9 DEF T

LEMMA QuotientBelow ==
  ASSUME NEW a \in Nat, NEW b \in Nat \ {0}, NEW c \in Nat \ {0}, a < b * c
  PROVE  (a \div c) + 1 \in 1 .. b /\ (a % c) + 1 \in 1 .. c
<1> DEFINE q == a \div c
           r == a % c
<1>1. q \in Nat /\ r \in 0 .. c - 1 /\ a = c * q + r
  OBVIOUS
<1> HIDE DEF q, r
<1>2. q < b
  <2>1. SUFFICES ASSUME q >= b PROVE FALSE
    BY <1>1
  <2> DEFINE d == q - b
  <2>2. d \in Nat /\ q = b + d
    BY <1>1, <2>1
  <2> HIDE DEF d
  <2>3. c * q = c * b + c * d /\ c * d >= 0 /\ c * b = b * c
    BY <2>2
  <2> DEFINE x == b * c
             y == c * d
  <2>4. x \in Int /\ y \in Int /\ y >= 0 /\ a = x + y + r /\ a < x /\ r >= 0
    BY <1>1, <2>2, <2>3
  <2> HIDE DEF x, y
  <2> QED
    BY <1>1, <2>4
<1>3. q + 1 \in 1 .. b /\ r + 1 \in 1 .. c
  BY <1>1, <1>2
<1> QED
  BY <1>3 DEF q, r

LEMMA CombinationsType ==
  ASSUME t.args \in 0 .. 2, \A k \in 1 .. t.args : Len(vals[k]) \in Nat
  PROVE  Combinations \in Nat
<1>1. CASE t.args = 0
  BY <1>1 DEF Combinations
<1>2. CASE t.args = 1
  BY <1>2 DEF Combinations
<1>3. CASE t.args = 2
  <2>1. Len(vals[1]) \in Nat /\ Len(vals[2]) \in Nat
    BY <1>3
  <2>2. \A a, b \in Nat : a * b \in Nat
    OBVIOUS
  <2>3. Combinations = Len(vals[1]) * Len(vals[2])
    BY <1>3 DEF Combinations
  <2> QED
    BY <2>1, <2>2, <2>3
<1> QED
  BY <1>1, <1>2, <1>3

\* A combination is made of values of the arguments.
LEMMA CombinationValues ==
  ASSUME TypeInv, ValuesInv, pc = "test", NEW k \in 1 .. t.args
  PROVE  \E n \in DOMAIN vals[k] : Combination(pos)[k] = vals[k][n]
<1>1. t.args \in 0 .. 2
  <2>1. call \in Calls /\ i \in 1 .. Len(test_set)
    BY DEF TypeInv, AtTest
  <2> QED
    BY <2>1, TestAtHand DEF WellFormed
<1>2. /\ pos \in Nat /\ pos < Combinations /\ DOMAIN vals = 1 .. t.args
      /\ \A j \in 1 .. t.args : vals[j] \in Arrays /\ Len(vals[j]) > 0
  BY DEF TypeInv, ValuesInv, Arrays
<1>3. \A j \in 1 .. t.args : Len(vals[j]) \in Nat \ {0} /\ DOMAIN vals[j] = 1 .. Len(vals[j])
  <2>1. \A j \in 1 .. t.args : Len(vals[j]) \in Nat /\ DOMAIN vals[j] = 1 .. Len(vals[j])
    BY <1>2, ElementsOf
  <2> QED
    BY <1>2, <2>1
<1>4. CASE t.args = 2
  <2> DEFINE first == (pos \div Len(vals[2])) + 1
             second == (pos % Len(vals[2])) + 1
  <2>1. Len(vals[1]) \in Nat \ {0} /\ Len(vals[2]) \in Nat \ {0}
    BY <1>3, <1>4
  <2>2. pos < Len(vals[1]) * Len(vals[2])
    BY <1>2, <1>4 DEF Combinations
  <2>3. first \in 1 .. Len(vals[1]) /\ second \in 1 .. Len(vals[2])
    BY <1>2, <2>1, <2>2, QuotientBelow
  <2>4. Combination(pos) = <<vals[1][first], vals[2][second]>>
    BY <1>4 DEF Combination
  <2> HIDE DEF first, second
  <2>5. CASE k = 1
    BY <1>3, <2>3, <2>4, <2>5
  <2>6. CASE k = 2
    BY <1>3, <2>3, <2>4, <2>6
  <2> QED
    BY <1>4, <2>5, <2>6
<1>5. CASE t.args = 1
  <2>1. k = 1 /\ pos < Len(vals[1])
    BY <1>2, <1>5 DEF Combinations
  <2>2. Combination(pos)[k] = vals[k][pos + 1]
    BY <1>5 DEF Combination
  <2>3. pos + 1 \in DOMAIN vals[k]
    BY <1>2, <1>3, <2>1
  <2> QED
    BY <2>2, <2>3
<1> QED
  BY <1>1, <1>4, <1>5

\* Puzzles and references agree, on values a puzzle is defined for.
LEMMA TableArgs ==
  /\ DOMAIN Table = {"bitNor", "fitsShort", "thirdBits", "anyEvenBit", "copyLSB", "implication",
                     "bitMask", "ezThreeFourths", "satMul3", "bitParity", "trueThreeFourths"}
                       \cup Stubs
  /\ \A f \in DOMAIN Table :
       Table[f].args = IF f \in {"bitNor", "implication", "bitMask"} THEN 2
                       ELSE IF f = "thirdBits" THEN 0 ELSE 1
  BY DEF Table, Test, Stubs

LEMMA Agree ==
  ASSUME NEW f \in DOMAIN Table \ Stubs, f = "satMul3" => ~ dropped, dropped \in BOOLEAN,
         NEW a, \A k \in 1 .. Table[f].args : a[k] \in SUBSET Bit /\ Proper(f, a[k])
  PROVE  solution_funct(f, a) = test_funct(f, a)
<1>1. f # "thirdBits" => a[1] \in SUBSET Bit /\ Proper(f, a[1])
  BY TableArgs
<1>2. f \in {"bitNor", "implication", "bitMask"} => a[2] \in SUBSET Bit /\ Proper(f, a[2])
  BY TableArgs
<1>3. CASE f = "bitNor"
  BY <1>1, <1>2, <1>3, bitNorAgrees DEF solution_funct, test_funct
<1>4. CASE f = "fitsShort"
  BY <1>1, <1>4, fitsShortAgrees DEF solution_funct, test_funct
<1>5. CASE f = "thirdBits"
  BY <1>5, thirdBitsAgrees DEF solution_funct, test_funct
<1>6. CASE f = "anyEvenBit"
  BY <1>1, <1>6, anyEvenBitAgrees DEF solution_funct, test_funct
<1>7. CASE f = "copyLSB"
  BY <1>1, <1>7, copyLSBAgrees DEF solution_funct, test_funct
<1>8. CASE f = "implication"
  <2>1. a[1] \in {{}, {0}} /\ a[2] \in {{}, {0}}
    BY <1>1, <1>2, <1>8 DEF Proper
  <2>2. PICK p \in BOOLEAN, q \in BOOLEAN : a[1] = Truth(p) /\ a[2] = Truth(q)
    <3>1. Truth(TRUE) = {0} /\ Truth(FALSE) = {}
      BY DEF Truth
    <3> QED
      BY <2>1, <3>1
  <2> QED
    BY <1>8, <2>2, implicationAgrees DEF solution_funct, test_funct
<1>9. CASE f = "bitMask"
  <2>1. Count(a[1]) \in 0 .. 31 /\ Count(a[2]) \in 0 .. 31
    BY CountIsShift DEF Bit
  <2>2. bitMask(Count(a[1]), Count(a[2])) = test_bitMask(Count(a[1]), Count(a[2]))
    BY <2>1, bitMaskAgrees
  <2> QED
    BY <1>9, <2>2 DEF solution_funct, test_funct
<1>10. CASE f = "ezThreeFourths"
  BY <1>1, <1>10, ezThreeFourthsAgrees DEF solution_funct, test_funct
<1>11. CASE f = "satMul3"
  <2>1. dropped = FALSE
    BY <1>11
  <2> QED
    BY <1>1, <1>11, <2>1, satMul3Agrees DEF solution_funct, test_funct
<1>12. CASE f = "bitParity"
  BY <1>1, <1>12, bitParityAgrees DEF solution_funct, test_funct
<1>13. CASE f = "trueThreeFourths"
  BY <1>1, <1>13, trueThreeFourthsAgrees DEF solution_funct, test_funct
<1> QED
  BY <1>3, <1>4, <1>5, <1>6, <1>7, <1>8, <1>9, <1>10, <1>11, <1>12, <1>13, TableArgs

\* What random_val may return is a word.
LEMMA RandomWords ==
  ASSUME NEW range \in Ranges
  PROVE  RandomVals(range) \subseteq SUBSET Bit
<1>1. range[1] \in SUBSET Bit
  BY DEF Ranges, All, FloatArgs, TMin, TMax, Bit, Sign
<1> QED
  BY <1>1, BtestAssumption DEF RandomVals

\* The arrays that gen_vals fills for one test.
LEMMA Generated ==
  ASSUME TypeInv, GenVals
  PROVE  \E random \in [1 .. t.args -> SUBSET Bit] :
           vals' = [k \in 1 .. t.args |->
                      gen_vals(k, t.arg_ranges[k], test_range, random[k])]
<1>1. pc = "gen_vals" /\ i \in 1 .. Len(test_set) /\ call \in Calls
  BY DEF GenVals, TypeInv, AtTest
<1>2. WellFormed(t)
  BY <1>1, TestAtHand
<1>3. \A k \in 1 .. t.args : RandomVals(t.arg_ranges[k]) \subseteq SUBSET Bit
  <2>1. \A k \in 1 .. t.args : t.arg_ranges[k] \in Ranges
    BY <1>2 DEF WellFormed
  <2> QED
    BY <2>1, RandomWords
<1> DEFINE R(k) == RandomVals(t.arg_ranges[k])
           n == 1 .. t.args
<1>4. PICK random \in [n -> UNION {R(k) : k \in n}] :
        /\ \A k \in n : random[k] \in R(k)
        /\ vals' = [k \in n |-> gen_vals(k, t.arg_ranges[k], test_range, random[k])]
  BY DEF GenVals
<1>5. random \in [n -> SUBSET Bit]
  <2>1. \A k \in n : R(k) \subseteq SUBSET Bit
    BY <1>3
  <2> HIDE DEF n, R
  <2> QED
    BY <1>4, <2>1
<1> QED
  BY <1>4, <1>5

\* The values stay as they were generated until the next test.
LEMMA ValsKept ==
  ASSUME [Next]_vars, ~ GenVals
  PROVE  vals' = vals
  BY DEF Next, Main, NextTest, End, Score, Sigsetjmp, Alarm, Compare, SIGALRM, vars

LEMMA ValuesInit == Init => ValuesInv /\ LenInv
<1> SUFFICES ASSUME Init PROVE ValuesInv /\ LenInv
  OBVIOUS
<1>1. DOMAIN vals = {} /\ pc = "main"
  BY DEF Init
<1> QED
  BY <1>1 DEF ValuesInv, LenInv

\* The size of the arrays, which only the number of values for floats reaches, and that
\* of small ranges if there are few turns.
LEMMA LenStep ==
  ASSUME TEST_RANGE >= 4
  PROVE  TypeInv /\ LenInv /\ [Next]_vars => LenInv'
<1> SUFFICES ASSUME TypeInv, LenInv, [Next]_vars PROVE LenInv'
  OBVIOUS
<1>1. CASE ~ GenVals
  BY <1>1, ValsKept DEF LenInv
<1>2. CASE GenVals
  <2>1. PICK random \in [1 .. t.args -> SUBSET Bit] :
          vals' = [k \in 1 .. t.args |->
                     gen_vals(k, t.arg_ranges[k], test_range, random[k])]
    BY <1>2, Generated
  <2>2. WellFormed(t) /\ t.args \in 0 .. 2
    <3>1. pc = "gen_vals" /\ i \in 1 .. Len(test_set) /\ call \in Calls
      BY <1>2 DEF GenVals, TypeInv, AtTest
    <3> QED
      BY <3>1, TestAtHand DEF WellFormed
  <2>3. TEST_RANGE \in Nat /\ MAX_TEST_VALS = 13 * TEST_RANGE
    BY BtestAssumption DEF MAX_TEST_VALS
  <2>4. ASSUME NEW k \in 1 .. t.args
        PROVE  Len(vals'[k]) <= MAX_TEST_VALS
    <3> DEFINE range == t.arg_ranges[k]
               v == gen_vals(k, range, test_range, random[k])
               n == Len(v)
    <3>1. k \in 1 .. 3 /\ k \in 1 .. 2 /\ random[k] \in SUBSET Bit
      BY <2>1, <2>2
    <3>2. range \in Ranges /\ (range = FloatArgs => t.args = 1)
      BY <2>2, <3>1 DEF WellFormed
    <3>3. test_range \in Nat \ {0} /\ test_range <= TEST_RANGE
      BY <2>3, TestRange
    <3>4. n \in Nat /\ (n <= 32 \/ n <= 5 * test_range
                          \/ (range = FloatArgs /\ n <= 12 * test_range + 4))
      <4> HIDE DEF range
      <4> QED
        BY <3>1, <3>2, <3>3, GenValsType
    <3>5. vals'[k] = v
      BY <2>1
    <3> HIDE DEF n, range
    <3>6. n <= 13 * TEST_RANGE
      BY <2>3, <3>3, <3>4
    <3> QED
      BY <2>3, <3>5, <3>6 DEF n, range
  <2>5. DOMAIN vals' = 1 .. t.args
    BY <2>1
  <2> QED
    BY <2>3, <2>4, <2>5 DEF LenInv, MAX_TEST_VALS
<1> QED
  BY <1>1, <1>2

LEMMA ValuesStep == TypeInv /\ ValuesInv /\ [Next]_vars => ValuesInv'
<1> SUFFICES ASSUME TypeInv, ValuesInv, [Next]_vars PROVE ValuesInv'
  OBVIOUS
<1>1. CASE GenVals
  <2>1. PICK random \in [1 .. t.args -> SUBSET Bit] :
          vals' = [k \in 1 .. t.args |->
                     gen_vals(k, t.arg_ranges[k], test_range, random[k])]
    BY <1>1, Generated
  <2>2. WellFormed(t) /\ t.args \in 0 .. 2
    <3>1. pc = "gen_vals" /\ i \in 1 .. Len(test_set) /\ call \in Calls
      BY <1>1 DEF GenVals, TypeInv, AtTest
    <3> QED
      BY <3>1, TestAtHand DEF WellFormed
  <2>3. ASSUME NEW k \in 1 .. t.args
        PROVE  vals'[k] \in Arrays /\ Len(vals'[k]) \in Nat \ {0}
    <3> DEFINE range == t.arg_ranges[k]
    <3>1. k \in 1 .. 3 /\ k \in 1 .. 2 /\ random[k] \in SUBSET Bit
      BY <2>1, <2>2
    <3>2. range \in Ranges
      BY <2>2, <3>1 DEF WellFormed
    <3>3. test_range \in Nat \ {0}
      BY BtestAssumption, TestRange
    <3>4. vals'[k] = gen_vals(k, range, test_range, random[k])
      BY <2>1
    <3> HIDE DEF range
    <3> QED
      BY <3>1, <3>2, <3>3, <3>4, GenValsType
  <2>4. DOMAIN vals' = 1 .. t.args
    BY <2>1
  <2>5. t' = t /\ pos' = 0
    BY <1>1 DEF GenVals, settings, t, name, test_set
  <2>6. 0 < Combinations'
    <3>1. CASE t.args = 0
      BY <2>5, <3>1 DEF Combinations
    <3>2. CASE t.args = 1
      <4>1. Len(vals'[1]) \in Nat \ {0}
        BY <2>3, <3>2
      <4> QED
        BY <2>5, <3>2, <4>1 DEF Combinations
    <3>3. CASE t.args = 2
      <4>1. Len(vals'[1]) \in Nat \ {0} /\ Len(vals'[2]) \in Nat \ {0}
        BY <2>3, <3>3
      <4>2. \A a, b \in Nat \ {0} : 0 < a * b
        OBVIOUS
      <4>3. 0 < Len(vals'[1]) * Len(vals'[2])
        BY <4>1, <4>2
      <4>4. t'.args = 2
        BY <2>5, <3>3
      <4>5. Combinations' = Len(vals'[1]) * Len(vals'[2])
        BY <4>4 DEF Combinations
      <4> QED
        BY <4>3, <4>5
    <3> QED
      BY <2>2, <3>1, <3>2, <3>3
  <2> QED
    BY <2>3, <2>4, <2>5, <2>6 DEF ValuesInv, Arrays
<1>2. CASE ~ GenVals
  <2>1. vals' = vals
    BY <1>2, ValsKept
  <2>2. SUFFICES ASSUME pc' \in {"sigsetjmp", "alarm", "test"}
                 PROVE  /\ DOMAIN vals' = 1 .. t'.args
                        /\ \A k \in 1 .. t'.args : Len(vals'[k]) > 0
                        /\ pos' < Combinations'
    BY <2>1 DEF ValuesInv
  <2>3. pc \in {"sigsetjmp", "alarm", "test"} /\ call' = call /\ i' = i
    BY <1>2, <2>2 DEF Next, Main, NextTest, End, Score, Sigsetjmp, Alarm, Compare, SIGALRM, vars,
                      settings
  <2>4. t' = t /\ Combinations' = Combinations
    BY <2>1, <2>3 DEF t, name, test_set, Combinations
  <2>5. pos' < Combinations
    <3>1. CASE Compare
      <4>1. pos' = pos + 1 /\ pos + 1 # Combinations
        BY <2>2, <3>1 DEF Compare
      <4>2. pos \in Nat /\ pos < Combinations
        BY <2>3 DEF TypeInv, ValuesInv
      <4>3. Combinations \in Nat
        <5>1. t.args \in 0 .. 2
          <6>1. i \in 1 .. Len(test_set) /\ call \in Calls
            BY <2>3 DEF TypeInv, AtTest
          <6> QED
            BY <6>1, TestAtHand DEF WellFormed
        <5>2. \A k \in 1 .. t.args : Len(vals[k]) \in Nat
          BY <2>3, ElementsOf DEF ValuesInv, Arrays
        <5> QED
          BY <5>1, <5>2, CombinationsType
      <4> QED
        BY <4>1, <4>2, <4>3
    <3>2. CASE ~ Compare
      <4>1. pos' = pos
        BY <1>2, <2>2, <2>3, <3>2 DEF Next, Main, NextTest, End, Score, Sigsetjmp, Alarm, SIGALRM,
                                      vars
      <4> QED
        BY <2>3, <4>1 DEF ValuesInv
    <3> QED
      BY <3>1, <3>2
  <2> QED
    BY <2>1, <2>3, <2>4, <2>5 DEF ValuesInv
<1> QED
  BY <1>1, <1>2

\* An array has room for the values that are generated for it, however many the tester is
\* built for, from four on (btest.c:44-47, 117-223): each puzzle for floats has one
\* argument, two arguments share the number of values, and a small range has 32 at most.
\* Other than that, all variables keep their types.
THEOREM TypesHold ==
  ASSUME TEST_RANGE >= 4
  PROVE  Spec => []TypeOK
<1> DEFINE Inv == TypeInv /\ ValuesInv /\ LenInv
<1>1. Init => Inv
  BY TypeInit, ValuesInit
<1>2. Inv /\ [Next]_vars => Inv'
  BY TypeStep, ValuesStep, LenStep
<1>3. Inv => TypeOK
  <2> SUFFICES ASSUME TypeInv, ValuesInv, LenInv PROVE TypeOK
    OBVIOUS
  <2>1. \A k \in 1 .. 3 : argval[k] = None \/ argval[k] \subseteq Bit
    BY DEF TypeInv
  <2>2. \A k \in DOMAIN vals :
          Len(vals[k]) <= MAX_TEST_VALS /\ \A n \in DOMAIN vals[k] : vals[k][n] \subseteq Bit
    BY DEF ValuesInv, LenInv
  <2>3. \A n \in DOMAIN verdicts : verdicts[n] \in Verdict
    BY DEF TypeInv
  <2>4. points \in 0 .. max_points
    BY DEF TypeInv
  <2>5. pc \in {"main", "next", "gen_vals", "sigsetjmp", "alarm", "test", "passed", "failed",
                "timeout", "end", "exit", "undefined"}
    BY DEF TypeInv, AtTest
  <2> QED
    BY <2>1, <2>2, <2>3, <2>4, <2>5 DEF TypeInv, TypeOK
<1> HIDE DEF Inv
<1> QED
  BY <1>1, <1>2, <1>3, PTL DEF Spec

-----------------------------------------------------------------------------
(* Tests that fail *)

\* The options -1 and -2 of a call that runs implication are logical values, as the table
\* says of its arguments.
LogicalOptions ==
  \A c \in Calls : c.fname \in {AllTests, "implication"} =>
                     \A k \in 1 .. Len(c.args) : c.args[k].val \in {{}, {0}}

\* implication is tried on logical values only.
LEMMA ProperValues ==
  ASSUME TypeInv, ProperInv, GenVals, NEW k \in DOMAIN vals', NEW n \in DOMAIN vals'[k]
  PROVE  Proper(name, vals'[k][n])
<1>1. SUFFICES ASSUME name = "implication" PROVE vals'[k][n] \in {{}, {0}}
  BY DEF Proper
<1>2. pc = "gen_vals" /\ call.fname \in {AllTests, "implication"}
  BY <1>1 DEF GenVals, ProperInv, AtTest
<1> DEFINE range == <<{}, {0}>>
<1>3. t.args = 2 /\ t.arg_ranges[1] = range /\ t.arg_ranges[2] = range
  BY <1>1 DEF t, Table, Test
<1>4. PICK random \in [1 .. t.args -> SUBSET Bit] :
        vals' = [j \in 1 .. t.args |->
                   gen_vals(j, t.arg_ranges[j], test_range, random[j])]
  BY Generated
<1>5. k \in 1 .. 2
  BY <1>3, <1>4
<1>6. vals'[k] = gen_vals(k, range, test_range, random[k])
  <2>1. t.arg_ranges[k] = range
    BY <1>3, <1>5
  <2> HIDE DEF range
  <2> QED
    BY <1>3, <1>4, <1>5, <2>1
<1>7. CASE argval[k] # None
  <2>1. argval[k] \in {{}, {0}}
    BY <1>2, <1>5, <1>7 DEF ProperInv
  <2>2. vals'[k] = <<argval[k]>>
    BY <1>6, <1>7 DEF gen_vals
  <2>3. n = 1
    BY <2>2
  <2> QED
    BY <2>1, <2>2, <2>3
<1>8. CASE argval[k] = None
  <2>1. range # FloatArgs
    <3>1. range[1] # FloatArgs[1]
      BY DEF FloatArgs
    <3> QED
      BY <3>1
  <2>2. IsSmall(range)
    BY LogicalRange
  <2>3. vals'[k] = Exhaustive(range)
    BY <1>6, <1>8, <2>1, <2>2 DEF gen_vals
  <2>4. /\ Exhaustive(range) \in Arrays /\ Len(Exhaustive(range)) = 2
        /\ \A j \in 1 .. 2 : Exhaustive(range)[j] \in {{}, {0}}
    BY LogicalRange
  <2> HIDE DEF range
  <2>5. DOMAIN Exhaustive(range) = 1 .. 2
    BY <2>4, ElementsOf
  <2> QED
    BY <2>3, <2>4, <2>5
<1> QED
  BY <1>7, <1>8

LEMMA ProperInit == Init => ProperInv
<1> SUFFICES ASSUME Init PROVE ProperInv
  OBVIOUS
<1>1. pc = "main" /\ argval = <<None, None, None>>
  BY DEF Init
<1>2. \A k \in 1 .. 3 : argval[k] = None
  BY <1>1
<1> QED
  BY <1>1, <1>2 DEF ProperInv, AtTest

LEMMA ProperStep ==
  ASSUME LogicalOptions
  PROVE  TypeInv /\ ValuesInv /\ ProperInv /\ [Next]_vars => ProperInv'
<1> SUFFICES ASSUME TypeInv, ValuesInv, ProperInv, [Next]_vars PROVE ProperInv'
  OBVIOUS
<1> DEFINE Logical == call.fname \in {AllTests, "implication"} =>
                        \A k \in 1 .. 3 : argval[k] \in {None, {}, {0}}
           Chosen == pc \in AtTest => call.fname \in {AllTests, name}
           Defined == pc \in {"sigsetjmp", "alarm", "test"} =>
             \A k \in 1 .. t.args : \A n \in DOMAIN vals[k] : Proper(name, vals[k][n])
           OfStub == pc = "failed" => name \in Stubs \/ (name = "satMul3" /\ dropped)
<1>1. Logical'
  <2>1. CASE ~ Main
    <3>1. argval' = argval /\ call' = call
      BY <2>1 DEF Next, NextTest, End, Score, GenVals, Sigsetjmp, Alarm, Compare, SIGALRM, vars,
                  settings
    <3> QED
      BY <3>1 DEF ProperInv
  <2>2. CASE Main
    <3>1. SUFFICES ASSUME call.fname \in {AllTests, "implication"}
                   PROVE  \A k \in 1 .. 3 : argval'[k] \in {None, {}, {0}}
      BY <2>2 DEF Main
    <3>2. CASE argval' = argval
      BY <3>1, <3>2 DEF ProperInv
    <3>3. CASE argval' = Given(call.args) /\ Given(call.args) # None
      <4>1. call.args \in Seq(Option) /\ \A k \in 1 .. Len(call.args) : call.args[k].val \in {{}, {0}}
        BY <3>1, CallsAssumption DEF TypeInv, LogicalOptions
      <4>2. argval' \in [1 .. 3 -> {None} \cup {{}, {0}}]
        BY <3>3, <4>1, GivenFrom
      <4> QED
        BY <4>2
    <3> QED
      BY <2>2, <3>2, <3>3 DEF Main
  <2> QED
    BY <2>1, <2>2
<1>2. Chosen'
  <2>1. SUFFICES ASSUME pc' \in AtTest PROVE call'.fname \in {AllTests, name'}
    OBVIOUS
  <2>2. call' = call
    BY DEF Next, Main, NextTest, End, Score, GenVals, Sigsetjmp, Alarm, Compare, SIGALRM, vars,
           settings
  <2>3. CASE NextTest
    BY <2>1, <2>2, <2>3 DEF NextTest, AtTest, name, test_set
  <2>4. CASE ~ NextTest
    <3>1. pc \in AtTest /\ i' = i
      BY <2>1, <2>4 DEF Next, Main, End, Score, GenVals, Sigsetjmp, Alarm, Compare, SIGALRM, Live,
                        vars, AtTest
    <3> QED
      BY <2>2, <3>1 DEF ProperInv, name, test_set
  <2> QED
    BY <2>3, <2>4
<1>3. Defined'
  <2>1. SUFFICES ASSUME pc' \in {"sigsetjmp", "alarm", "test"}
                 PROVE  \A k \in 1 .. t'.args : \A n \in DOMAIN vals'[k] : Proper(name', vals'[k][n])
    OBVIOUS
  <2>2. CASE GenVals
    <3>1. name' = name /\ t' = t
      BY <2>2 DEF GenVals, settings, t, name, test_set
    <3>2. DOMAIN vals' = 1 .. t.args
      BY <2>2 DEF GenVals
    <3> QED
      BY <2>2, <3>1, <3>2, ProperValues
  <2>3. CASE ~ GenVals
    <3>1. pc \in {"sigsetjmp", "alarm", "test"} /\ call' = call /\ i' = i
      BY <2>1, <2>3 DEF Next, Main, NextTest, End, Score, Sigsetjmp, Alarm, Compare, SIGALRM, vars,
                        settings
    <3>2. vals' = vals /\ name' = name /\ t' = t
      BY <2>3, <3>1, ValsKept DEF t, name, test_set
    <3> QED
      BY <3>1, <3>2 DEF ProperInv
  <2> QED
    BY <2>2, <2>3
<1>4. OfStub'
  <2>1. SUFFICES ASSUME pc' = "failed" PROVE name' \in Stubs \/ (name' = "satMul3" /\ dropped')
    OBVIOUS
  <2>2. CASE Compare
    <3>1. pc = "test" /\ name' = name /\ dropped' = dropped
          /\ solution_funct(name, Combination(pos)) # test_funct(name, Combination(pos))
      BY <2>1, <2>2 DEF Compare, settings, name, test_set
    <3>2. name \in DOMAIN Table /\ dropped \in BOOLEAN
      <4>1. i \in 1 .. Len(test_set) /\ call \in Calls /\ dropped \in BOOLEAN
        BY <3>1 DEF TypeInv, AtTest
      <4> QED
        BY <4>1, TestAtHand
    <3>3. ASSUME NEW k \in 1 .. Table[name].args
          PROVE  Combination(pos)[k] \in SUBSET Bit /\ Proper(name, Combination(pos)[k])
      <4>1. k \in 1 .. t.args
        BY DEF t
      <4>2. PICK n \in DOMAIN vals[k] : Combination(pos)[k] = vals[k][n]
        BY <3>1, <4>1, CombinationValues
      <4>3. vals[k][n] \in SUBSET Bit
        BY <3>1, <4>1, <4>2 DEF ValuesInv
      <4>4. Proper(name, vals[k][n])
        BY <3>1, <4>1 DEF ProperInv
      <4> QED
        BY <4>2, <4>3, <4>4
    <3>4. name \notin Stubs /\ (name = "satMul3" => ~ dropped) => FALSE
      BY <3>1, <3>2, <3>3, Agree
    <3> QED
      BY <3>1, <3>2, <3>4
  <2>3. CASE ~ Compare
    <3>1. pc = "failed" /\ call' = call /\ i' = i /\ dropped' = dropped
      BY <2>1, <2>3 DEF Next, Main, NextTest, End, Score, GenVals, Sigsetjmp, Alarm, SIGALRM, vars,
                        settings
    <3> QED
      BY <3>1 DEF ProperInv, name, test_set
  <2> QED
    BY <2>2, <2>3
<1> HIDE DEF Logical, Chosen, Defined, OfStub
<1>5. ProperInv <=> Logical /\ Chosen /\ Defined /\ OfStub
  BY DEF ProperInv, Logical, Chosen, Defined, OfStub
<1>6. ProperInv' <=> Logical' /\ Chosen' /\ Defined' /\ OfStub'
  BY DEF ProperInv, Logical, Chosen, Defined, OfStub
<1> QED
  BY <1>1, <1>2, <1>3, <1>4, <1>6

\* Whatever values are drawn and however many, no puzzle fails but the stubs, and satMul3
\* where the compiler has dropped the test of its reference (bits.c:142-326,
\* tests.c:107-113): the test set may have the puzzles in any order and number.
THEOREM FailuresAreOfStubs ==
  ASSUME LogicalOptions
  PROVE  Spec => []OnlyStubsFail
<1> DEFINE Inv == TypeInv /\ ValuesInv /\ ProperInv /\ OnlyStubsFail
<1>1. Init => Inv
  <2>1. Init => OnlyStubsFail
    BY DEF Init, OnlyStubsFail
  <2> QED
    BY <2>1, TypeInit, ValuesInit, ProperInit
<1>2. TypeInv /\ ProperInv /\ OnlyStubsFail /\ [Next]_vars => OnlyStubsFail'
  <2> SUFFICES ASSUME TypeInv, ProperInv, OnlyStubsFail, [Next]_vars PROVE OnlyStubsFail'
    OBVIOUS
  <2>1. call' = call /\ dropped' = dropped
    BY DEF Next, Main, NextTest, End, Score, GenVals, Sigsetjmp, Alarm, Compare, SIGALRM, vars,
           settings
  <2>2. CASE Score
    <3> DEFINE v == [test |-> i, how |-> pc, errors |-> errors, cases |-> pos, by |-> fired]
               n == Len(verdicts)
    <3>1. /\ verdicts \in Seq(Verdict) /\ verdicts' = Append(verdicts, v)
          /\ v.test = i /\ v.how = pc /\ n \in Nat /\ DOMAIN verdicts = 1 .. n
      BY <2>2 DEF Score, TypeInv
    <3> HIDE DEF v
    <3>2. /\ DOMAIN verdicts' = 1 .. n + 1 /\ verdicts'[n + 1] = v
          /\ \A k \in 1 .. n : verdicts'[k] = verdicts[k]
      BY <3>1
    <3>3. \A k \in 1 .. n + 1 : k = n + 1 \/ k \in 1 .. n
      BY <3>1
    <3>4. pc = "failed" => name \in Stubs \/ (name = "satMul3" /\ dropped)
      BY DEF ProperInv
    <3> QED
      BY <2>1, <3>1, <3>2, <3>3, <3>4 DEF OnlyStubsFail, name, test_set
  <2>3. CASE ~ Score
    <3>1. verdicts' = verdicts
      BY <2>3 DEF Next, Main, NextTest, End, GenVals, Sigsetjmp, Alarm, Compare, SIGALRM, vars, score
    <3> QED
      BY <2>1, <3>1 DEF OnlyStubsFail, test_set
  <2> QED
    BY <2>2, <2>3
<1>3. Inv /\ [Next]_vars => Inv'
  BY <1>2, TypeStep, ValuesStep, ProperStep
<1> HIDE DEF Inv
<1>4. Inv => OnlyStubsFail
  BY DEF Inv
<1> QED
  BY <1>1, <1>3, <1>4, PTL DEF Spec

=============================================================================
