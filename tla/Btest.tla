------------------------------- MODULE Btest -------------------------------
(***************************************************************************)
(* The tester of lab 1, btest.c: it runs each puzzle of a test set against *)
(* its reference on generated arguments until one result differs, and      *)
(* gives up after a time limit by jumping out of the signal handler.       *)
(*                                                                         *)
(* One comparison is a step.  Time is not counted: an alarm that is set    *)
(* may go off before any step.  Setting an alarm replaces an earlier one;  *)
(* nothing else takes it back, so that it may go off after the test it was *)
(* set for has returned.                                                   *)
(***************************************************************************)
EXTENDS Bits, Sequences

CONSTANTS
  TEST_RANGE,    \* values on each side of a boundary
  Randoms,       \* values random_val may return, besides the boundaries
  Calls,         \* the calls of btest: records fname, rating, timeout, args for its
                 \* options -f, -r, -T and -1 -2 -3, tests for the names of its test
                 \* set, and hangs for those whose solutions do not return
  None,          \* no argument
  AllTests       \* the value of fname when there is no -f

ASSUME BtestAssumption ==
  /\ TEST_RANGE \in Nat \ {0} /\ Randoms \subseteq SUBSET Bit
  /\ \A c \in Calls : c.rating \in Nat /\ c.timeout \in Nat

\* Seeded fault for TypeOK: no room for the special values.
MAX_TEST_VALS_Twelve == 12 * TEST_RANGE

MAX_TEST_VALS == 13 * TEST_RANGE

VARIABLES
  pc,
  call,          \* the call of the program
  dropped,       \* whether the compiler has dropped the overflow test
  argval,        \* the arguments given on the command line; None where has_arg is 0
  i,             \* the test at hand
  vals,          \* arg_test_vals
  pos,           \* how many combinations of arguments have been tried
  errors,        \* of the test at hand
  env,           \* envbuf: the test whose frame it belongs to, and the signal mask
  alarm,         \* the test that has set the alarm, 0 if none is set
  fired,         \* the test that had set the alarm that went off last
  masked,        \* whether SIGALRM is blocked
  verdicts,      \* of the tests that are done
  points, max_points

settings == <<call, dropped, argval>>
timer    == <<alarm, fired, masked>>
score    == <<verdicts, points, max_points>>
vars     == <<pc, settings, i, vals, pos, errors, env, timer, score>>

-----------------------------------------------------------------------------
(* The table of decl.c *)

All == <<TMin, TMax>>
Test(args, rating, first, second) ==
  [args |-> args, rating |-> rating, arg_ranges |-> <<first, second>>]
FloatArgs == <<{0}, {0}>>

Table ==
  [bitNor          |-> Test(2, 1, All, All),
   fitsShort       |-> Test(1, 1, All, All),
   thirdBits       |-> Test(0, 1, All, All),
   anyEvenBit      |-> Test(1, 2, All, All),
   copyLSB         |-> Test(1, 2, All, All),
   implication     |-> Test(2, 2, <<{}, {0}>>, <<{}, {0}>>),
   bitMask         |-> Test(2, 3, <<{}, 0 .. 4>>, <<{}, 0 .. 4>>),
   ezThreeFourths  |-> Test(1, 3, All, All),
   satMul3         |-> Test(1, 3, All, All),
   bitParity       |-> Test(1, 4, All, All),
   trueThreeFourths |-> Test(1, 4, All, All),
   float_neg       |-> Test(1, 2, FloatArgs, FloatArgs),
   float_i2f       |-> Test(1, 4, FloatArgs, FloatArgs),
   float_twice     |-> Test(1, 4, FloatArgs, FloatArgs)]

Option == [arg : 1 .. 3, isfloat : BOOLEAN, wellformed : BOOLEAN, upperbits : Int,
           val : SUBSET Bit]

ASSUME CallsAssumption ==
  \A c \in Calls : c.tests \in Seq(DOMAIN Table) /\ c.args \in Seq(Option)

\* A word of a few bits as the count of a shift.
Count(x) ==
  LET bit(k, value) == IF k \in x THEN value ELSE 0
  IN  bit(0, 1) + bit(1, 2) + bit(2, 4) + bit(3, 8) + bit(4, 16)

solution_funct(f, a) ==
  CASE f = "bitNor"           -> bitNor(a[1], a[2])
    [] f = "fitsShort"        -> fitsShort(a[1])
    [] f = "thirdBits"        -> thirdBits
    [] f = "anyEvenBit"       -> anyEvenBit(a[1])
    [] f = "copyLSB"          -> copyLSB(a[1])
    [] f = "implication"      -> implication(a[1], a[2])
    [] f = "bitMask"          -> bitMask(Count(a[1]), Count(a[2]))
    [] f = "ezThreeFourths"   -> ezThreeFourths(a[1])
    [] f = "satMul3"          -> satMul3(a[1])
    [] f = "bitParity"        -> bitParity(a[1])
    [] f = "trueThreeFourths" -> trueThreeFourths(a[1])
    [] f = "float_neg"        -> float_neg(a[1])
    [] f = "float_i2f"        -> float_i2f(a[1])
    [] f = "float_twice"      -> float_twice(a[1])

test_funct(f, a) ==
  CASE f = "bitNor"           -> test_bitNor(a[1], a[2])
    [] f = "fitsShort"        -> test_fitsShort(a[1])
    [] f = "thirdBits"        -> test_thirdBits
    [] f = "anyEvenBit"       -> test_anyEvenBit(a[1])
    [] f = "copyLSB"          -> test_copyLSB(a[1])
    [] f = "implication"      -> test_implication(a[1], a[2])
    [] f = "bitMask"          -> test_bitMask(Count(a[1]), Count(a[2]))
    [] f = "ezThreeFourths"   -> test_ezThreeFourths(a[1])
    [] f = "satMul3"          -> test_satMul3(a[1], dropped)
    [] f = "bitParity"        -> test_bitParity(a[1])
    [] f = "trueThreeFourths" -> test_trueThreeFourths(a[1])
    [] f = "float_neg"        -> test_float_neg(a[1])
    [] f = "float_i2f"        -> test_float_i2f(a[1])
    [] f = "float_twice"      -> test_float_twice(a[1])

test_set == call.tests
name     == test_set[i]
t        == Table[name]

-----------------------------------------------------------------------------
(* main and run_tests *)

Init ==
  /\ pc = "main"
  /\ call \in Calls /\ dropped \in BOOLEAN
  /\ argval = <<None, None, None>>
  /\ i = 1 /\ vals = <<>> /\ pos = 0 /\ errors = 0
  /\ env = [frame |-> 0, masked |-> FALSE]
  /\ alarm = 0 /\ fired = 0 /\ masked = FALSE
  /\ verdicts = <<>> /\ points = 0 /\ max_points = 0

\* Whether get_num_val takes an argument: a floating point one if nothing follows it,
\* an integer one if it fits 32 bits and the place it goes to still holds 0.
get_num_val(arg, old) ==
  IF arg.isfloat THEN arg.wellformed
                 ELSE old \in {None, {}} /\ arg.upperbits \in {-1, 0, 1}

\* The options -1, -2 and -3 in their order; one that is not taken ends the program.
Given(args) ==
  LET given[n \in 0 .. Len(args)] ==
        IF n = 0 THEN <<None, None, None>>
        ELSE LET a == args[n]
             IN  IF given[n - 1] # None /\ get_num_val(a, given[n - 1][a.arg])
                 THEN [given[n - 1] EXCEPT ![a.arg] = a.val] ELSE None
  IN  given[Len(args)]

Main ==
  /\ pc = "main"
  /\ IF Given(call.args) = None
     THEN pc' = "exit" /\ UNCHANGED argval
     ELSE pc' = "next" /\ argval' = Given(call.args)
  /\ UNCHANGED <<call, dropped, i, vals, pos, errors, env, timer, score>>

\* The top of the loop: -f leaves out all other tests.
NextTest ==
  /\ pc = "next" /\ i <= Len(test_set)
  /\ IF call.fname \in {AllTests, name}
     THEN pc' = "gen_vals" /\ i' = i
     ELSE pc' = "next" /\ i' = i + 1
  /\ UNCHANGED <<settings, vals, pos, errors, env, timer, score>>

End ==
  /\ pc = "next" /\ i > Len(test_set)
  /\ pc' = "end"
  /\ UNCHANGED <<settings, i, vals, pos, errors, env, timer, score>>

rating == IF call.rating # 0 THEN call.rating ELSE t.rating

\* A test has returned.
Score ==
  /\ pc \in {"passed", "failed", "timeout"}
  /\ verdicts' = Append(verdicts, [test |-> i, how |-> pc, errors |-> errors, cases |-> pos,
                                   by |-> fired])
  /\ fired' = 0
  /\ points' = IF errors = 0 THEN points + rating ELSE points
  /\ max_points' = max_points + rating
  /\ i' = i + 1 /\ pc' = "next"
  /\ UNCHANGED <<settings, vals, pos, errors, env, alarm, masked>>

-----------------------------------------------------------------------------
(* gen_vals *)

smallest_norm == {23}
one           == 23 .. 29
largest_norm  == 24 .. 30
inf           == Exponent
nan           == Exponent \cup {22}

Less1(x, n) == Add(x, Word(-n))
Plus(x, n)  == Add(x, Word(n))

\* The twelve values of turn n of the loop for floating point puzzles.
FloatVals(n) ==
  LET near == <<Word(n), Plus(smallest_norm, n), Less1(smallest_norm, n),
                Plus(one, n), Less1(one, n), Less1(largest_norm, n)>>
  IN  near \o [k \in 1 .. 6 |-> near[k] \cup {Sign}]

Within(x, range) == AtMost(range[1], x) /\ AtMost(x, range[2])

\* Up to five values of turn n for a range of ints; those around zero may lie outside.
IntVals(range, n, random) ==
  LET inside(x) == IF Within(x, range) THEN <<x>> ELSE <<>>
  IN  <<Plus(range[1], n), Less1(range[2], n)>> \o inside(Word(n)) \o inside(Word(-n))
        \o <<random>>

Sampled(range, turns, random) ==
  LET after[n \in 0 .. turns] ==
        IF n = 0 THEN <<>> ELSE after[n - 1] \o IntVals(range, n - 1, random)
  IN  after[turns]

\* All of a small range.
Exhaustive(range) ==
  LET size == Count(Add(range[2], Minus(range[1])))
  IN  [k \in 1 .. size + 1 |-> Plus(range[1], k - 1)]
IsSmall(range) == AtMost(Less1(range[2], MAX_TEST_VALS), range[1])

gen_vals(arg, range, turns, random) ==
  IF argval[arg] # None THEN <<argval[arg]>>
  ELSE IF range = FloatArgs
  THEN [n \in 1 .. 12 * turns |-> FloatVals((n - 1) \div 12)[((n - 1) % 12) + 1]]
         \o <<inf, inf \cup {Sign}, nan, nan \cup {Sign}>>
  ELSE IF IsSmall(range) THEN Exhaustive(range)
  ELSE Sampled(range, turns, random)

\* Two arguments share the tests: the square root of the range for each.
test_range == IF t.args = 2 THEN CHOOSE r \in 1 .. TEST_RANGE :
                                   r * r <= TEST_RANGE /\ (r + 1) * (r + 1) > TEST_RANGE
              ELSE TEST_RANGE

\* What random_val may return between the ends of a range; one value stands for all
\* that are drawn for an argument.
RandomVals(range) == {x \in Randoms \cup {range[1]} : Within(x, range)}

GenVals ==
  /\ pc = "gen_vals"
  /\ \E random \in [1 .. t.args -> UNION {RandomVals(t.arg_ranges[k]) : k \in 1 .. t.args}] :
       /\ \A k \in 1 .. t.args : random[k] \in RandomVals(t.arg_ranges[k])
       /\ vals' = [k \in 1 .. t.args |->
                     gen_vals(k, t.arg_ranges[k], test_range, random[k])]
  /\ pos' = 0 /\ errors' = 0
  /\ pc' = IF call.timeout > 0 THEN "sigsetjmp" ELSE "test"
  /\ UNCHANGED <<settings, i, env, timer, score>>

-----------------------------------------------------------------------------
(* test_function *)

\* Seeded fault for LimitHolds: sigsetjmp(envbuf, 0) does not keep the mask, and
\* SIGALRM stays blocked after a jump out of its handler.
Sigsetjmp_NoMask ==
  /\ pc = "sigsetjmp"
  /\ env' = [frame |-> i, masked |-> TRUE]
  /\ pc' = "alarm"
  /\ UNCHANGED <<settings, i, vals, pos, errors, timer, score>>

Sigsetjmp ==
  /\ pc = "sigsetjmp"
  /\ env' = [frame |-> i, masked |-> masked]
  /\ pc' = "alarm"
  /\ UNCHANGED <<settings, i, vals, pos, errors, timer, score>>

\* Seeded fault for AlarmsAreOwn: an alarm that is already set is left running.
Alarm_Left ==
  /\ pc = "alarm"
  /\ alarm' = IF alarm = 0 THEN i ELSE alarm
  /\ pc' = "test"
  /\ UNCHANGED <<settings, i, vals, pos, errors, env, fired, masked, score>>

Alarm ==
  /\ pc = "alarm"
  /\ alarm' = i
  /\ pc' = "test"
  /\ UNCHANGED <<settings, i, vals, pos, errors, env, fired, masked, score>>

\* The combination after n others, the last argument changing fastest.
Combination(n) ==
  IF t.args = 2
  THEN <<vals[1][(n \div Len(vals[2])) + 1], vals[2][(n % Len(vals[2])) + 1]>>
  ELSE [k \in 1 .. t.args |-> vals[k][n + 1]]

Combinations ==
  CASE t.args = 0 -> 1 [] t.args = 1 -> Len(vals[1]) [] OTHER -> Len(vals[1]) * Len(vals[2])

\* One comparison.  The first that fails ends the test.
Compare ==
  /\ pc = "test" /\ name \notin call.hangs
  /\ LET a  == Combination(pos)
         ok == solution_funct(name, a) = test_funct(name, a)
     IN  /\ errors' = IF ok THEN 0 ELSE 1
         /\ pc' = IF ~ok THEN "failed" ELSE IF pos + 1 = Combinations THEN "passed" ELSE "test"
  /\ pos' = pos + 1
  /\ UNCHANGED <<settings, i, vals, env, timer, score>>

\* SIGALRM: timeout_handler jumps to the frame in envbuf, and the mask is set back.
\* A frame whose function has returned is no place to jump to.
Live == env.frame = i /\ pc \in {"alarm", "test"}

SIGALRM ==
  /\ alarm # 0 /\ ~masked
  /\ pc \notin {"timeout", "end", "exit", "undefined"}
  /\ fired' = alarm /\ alarm' = 0
  /\ IF Live THEN pc' = "timeout" /\ errors' = 1 /\ masked' = env.masked
             ELSE pc' = "undefined" /\ masked' = TRUE /\ UNCHANGED errors
  /\ UNCHANGED <<settings, i, vals, pos, env, score>>

Next == \/ Main \/ NextTest \/ End \/ Score \/ GenVals \/ Sigsetjmp \/ Alarm \/ Compare
        \/ SIGALRM

Spec == Init /\ [][Next]_vars

-----------------------------------------------------------------------------
(* What is to hold *)

Verdict ==
  [test : 1 .. Len(test_set), how : {"passed", "failed", "timeout"}, errors : {0, 1},
   cases : Nat, by : 0 .. Len(test_set)]

\* Type of the state.  The values of an argument fit their array.
TypeOK ==
  /\ pc \in {"main", "next", "gen_vals", "sigsetjmp", "alarm", "test", "passed", "failed",
             "timeout", "end", "exit", "undefined"}
  /\ \A k \in 1 .. 3 : argval[k] = None \/ argval[k] \subseteq Bit
  /\ i \in 1 .. Len(test_set) + 1
  /\ \A k \in DOMAIN vals :
       Len(vals[k]) <= MAX_TEST_VALS /\ \A n \in DOMAIN vals[k] : vals[k][n] \subseteq Bit
  /\ pos \in Nat /\ errors \in {0, 1}
  /\ env \in [frame : 0 .. Len(test_set), masked : BOOLEAN]
  /\ alarm \in 0 .. Len(test_set) /\ fired \in 0 .. Len(test_set) /\ masked \in BOOLEAN
  /\ \A n \in DOMAIN verdicts : verdicts[n] \in Verdict
  /\ points \in 0 .. max_points

\* The puzzles agree with their references on every value that is tried, whatever
\* random_val adds to the boundaries; only the stubs fail, and satMul3, which is
\* right, where the compiler has dropped the overflow test of its reference
\* (bits.c:142-326, tests.c:107-113).
Stubs == {"float_neg", "float_i2f", "float_twice"}
OnlyStubsFail ==
  \A n \in DOMAIN verdicts :
    LET puzzle == test_set[verdicts[n].test]
    IN  verdicts[n].how = "failed" =>
          puzzle \in Stubs \/ (puzzle = "satMul3" /\ dropped)

\* An alarm that was set for one test may be charged to the next, but to no later one
\* and only before any of its cases has been run; and a jump into a frame that is gone
\* is one into that of the test the alarm was set for, which had come to its end
\* (btest.c:348-357).
AlarmsAreOwn ==
  /\ \A n \in DOMAIN verdicts :
       LET v == verdicts[n]
       IN  v.how = "timeout" =>
             \/ v.by = v.test
             \/ /\ n > 1 /\ v.cases = 0
                /\ v.by = verdicts[n - 1].test /\ verdicts[n - 1].how # "timeout"
  /\ pc = "undefined" =>
       /\ fired = env.frame
       /\ \A n \in DOMAIN verdicts : verdicts[n].test = fired => verdicts[n].how # "timeout"

\* Under a time limit no function of a puzzle runs without an alarm of its own that
\* can get through, also after earlier tests were ended by theirs (btest.c:103-105,
\* 350-357).
LimitHolds == pc = "test" /\ call.timeout > 0 => alarm = i /\ ~masked

=============================================================================
