------------------------------ MODULE MCBtest ------------------------------
(***************************************************************************)
(* Instances of Btest: every puzzle alone, and three puzzles in a row.     *)
(***************************************************************************)
EXTENDS Btest

Call(fname, r, timeout, args, tests, hangs) ==
  [fname |-> fname, rating |-> r, timeout |-> timeout, args |-> args, tests |-> tests,
   hangs |-> hangs]

\* The value of an option -1, -2 or -3: an int, one of more than 32 bits, a float.
Arg(n, val)   == [arg |-> n, isfloat |-> FALSE, wellformed |-> TRUE, upperbits |-> 0, val |-> val]
Large(n)      == [Arg(n, {}) EXCEPT !.upperbits = 2]
Trailing(n)   == [Arg(n, {0}) EXCEPT !.wellformed = FALSE]
FloatArg(n)   == [Arg(n, one) EXCEPT !.isfloat = TRUE]

Three == <<"thirdBits", "copyLSB", "implication">>

SomeCalls ==
  {Call(AllTests, 0, 10, <<>>, <<puzzle>>, {}) : puzzle \in DOMAIN Table}
    \cup {Call(AllTests, 0, limit, <<>>, Three, {}) : limit \in {0, 10}}
    \cup {Call(AllTests, 0, 10, <<>>, Three, h) :
            h \in {{"copyLSB"}, {"thirdBits", "implication"}, {"thirdBits", "copyLSB"}}}
    \cup {Call("copyLSB", 4, 10, args, Three, {}) :
            args \in {<<>>, <<Trailing(1)>>, <<FloatArg(1), Arg(2, {0})>>,
                      <<Arg(1, {}), Arg(1, {1})>>, <<Arg(1, {1}), Arg(1, {1})>>, <<Large(3)>>}}

\* 0x2aaaaaaa and 0xd5555555, next to the ends of the range in which three times an
\* int does not overflow.
SomeWords == {{n \in Bit : n % 2 = 1 /\ n < 31}, {n \in Bit : n % 2 = 0} \cup {31}}

=============================================================================
