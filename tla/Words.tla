------------------------------- MODULE Words -------------------------------
(***************************************************************************)
(* The ints of lab 1, 32 bits in two's complement.  A word is the set of   *)
(* the positions of its ones, the least significant one being 0, so that   *)
(* & and | are intersection and union.                                     *)
(***************************************************************************)
EXTENDS Integers

Bit  == 0 .. 31
Sign == 31

TMin == {Sign}
TMax == Bit \ {Sign}

\* A small int as a word.
Word(n) == {k \in 0 .. 30 : (n \div 2^k) % 2 = 1} \cup (IF n < 0 THEN {Sign} ELSE {})

\* 1 or 0, and the ! of C.
Truth(p) == IF p THEN {0} ELSE {}
Bang(x)  == Truth(x = {})

Not(x)    == Bit \ x
Xor(x, y) == (x \ y) \cup (y \ x)

\* Shifts by 0 .. 31; >> copies the sign.
Shl(x, k) == {i \in Bit : i - k \in x}
Shr(x, k) == {i \in Bit : IF i + k <= Sign THEN i + k \in x ELSE Sign \in x}

\* A carry comes into position i if two ones are added below it and at least one
\* at every position in between.
Carry(x, y, i) ==
  \E j \in 0 .. i - 1 :
     j \in x /\ j \in y /\ \A k \in j + 1 .. i - 1 : k \in x \/ k \in y

\* The sum of numbers with the given positions; what does not fit is lost.
Sum(positions, x, y) ==
  {i \in positions : ((i \in x) # (i \in y)) # Carry(x, y, i)}

Add(x, y) == Sum(Bit, x, y)
Minus(x)  == Add(Not(x), {0})
Times3(x) == Add(Add(x, x), x)

\* Comparison of ints.
Negative(x) == Sign \in x
Less(x, y) ==
  \/ Negative(x) /\ ~Negative(y)
  \/ /\ Negative(x) = Negative(y)
     /\ \E i \in y \ x : \A k \in i + 1 .. Sign : (k \in x) = (k \in y)
AtMost(x, y) == x = y \/ Less(x, y)

=============================================================================
