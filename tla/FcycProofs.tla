----------------------------- MODULE FcycProofs -----------------------------
(***************************************************************************)
(* Proofs about the timing package: the difference of two readings of a    *)
(* counter of two words is exact whatever the words and the moments, so    *)
(* that every time fcyc measures is.                                       *)
(***************************************************************************)
EXTENDS Fcyc, FiniteSetTheorems, WellFoundedInduction, TLAPS

USE ClockAssumption

(* Division *)

\* A number and its quotient and remainder.
LEMMA Parts ==
  ASSUME NEW a \in Int
  PROVE  /\ a \div Base \in Int /\ a % Base \in 0 .. Base - 1
         /\ a = Base * (a \div Base) + (a % Base)
  OBVIOUS

\* No other quotient and remainder make the number.
LEMMA Unique ==
  ASSUME NEW q \in Int, NEW r \in 0 .. Base - 1
  PROVE  (Base * q + r) \div Base = q /\ (Base * q + r) % Base = r
  OBVIOUS

\* Multiples of Base do not change the remainder.
LEMMA Shifted ==
  ASSUME NEW a \in Int, NEW k \in Int
  PROVE  (a + Base * k) % Base = a % Base
<1> DEFINE q == a \div Base
           r == a % Base
<1>1. q \in Int /\ r \in 0 .. Base - 1 /\ a = Base * q + r
  BY Parts
<1>2. Base * (q + k) = Base * q + Base * k
  BY <1>1
<1>3. a + Base * k = Base * (q + k) + r
  BY <1>1, <1>2
<1>4. q + k \in Int
  BY <1>1
<1> HIDE DEF q, r
<1>5. (Base * (q + k) + r) % Base = r
  BY <1>1, <1>4, Unique
<1> QED
  BY <1>3, <1>5 DEF r

-----------------------------------------------------------------------------
(* The subtraction of get_counter *)

\* Two words read at b, less the two words read n cycles later: the borrow that the
\* low words show is the carry of the addition b + n.
LEMMA CounterExact ==
  ASSUME NEW b \in Nat, NEW n \in Nat, n < Base * Base,
         NEW machine, machine # "alpha"
  PROVE  get_counter(access_counter(machine, b), access_counter(machine, b + n)) = n
<1> DEFINE b1 == b \div Base
           b0 == b % Base
           n1 == n \div Base
           n0 == n % Base
           carry == IF b0 + n0 >= Base THEN 1 ELSE 0
           t1 == (b + n) \div Base
           t0 == (b + n) % Base
<1>1. /\ b1 \in Int /\ b0 \in 0 .. Base - 1 /\ b = Base * b1 + b0
      /\ n1 \in Int /\ n0 \in 0 .. Base - 1 /\ n = Base * n1 + n0
  BY Parts
<1>2. n1 \in 0 .. Base - 1
  <2>1. n1 >= 0
    BY <1>1
  <2>2. ~(n1 >= Base)
    <3>1. SUFFICES ASSUME n1 >= Base PROVE FALSE
      OBVIOUS
    <3>2. Base * n1 >= Base * Base
      BY <3>1, <1>1
    <3> QED
      BY <3>2, <1>1
  <2> QED
    BY <2>1, <2>2, <1>1
<1>3. carry \in {0, 1}
  OBVIOUS
<1> HIDE DEF b1, b0, n1, n0
<1>4. t1 = b1 + n1 + carry /\ t0 = b0 + n0 - Base * carry
  <2>1. b0 + n0 - Base * carry \in 0 .. Base - 1
    BY <1>1
  <2>2. b1 + n1 + carry \in Int
    BY <1>1, <1>3
  <2>3. Base * (b1 + n1 + carry) = Base * b1 + Base * n1 + Base * carry
    BY <1>1, <1>3
  <2>4. b + n = Base * (b1 + n1 + carry) + (b0 + n0 - Base * carry)
    BY <2>3, <1>1, <1>3
  <2> QED
    BY <2>1, <2>2, <2>4, Unique
<1>5. (t0 - b0) % Base = n0
  <2>1. t0 - b0 = n0 + Base * (-carry)
    BY <1>4, <1>1, <1>3
  <2>2. (n0 + Base * (-carry)) % Base = n0 % Base
    <3>1. n0 \in Int /\ -carry \in Int
      BY <1>1, <1>3
    <3> HIDE DEF carry
    <3> QED
      BY <3>1, Shifted
  <2>3. n0 % Base = n0
    BY <1>1
  <2> QED
    BY <2>1, <2>2, <2>3
<1>6. (IF n0 > t0 THEN 1 ELSE 0) = carry
  BY <1>4, <1>1
<1>7. ((t1 % Base) - (b1 % Base) - carry) % Base = n1
  <2> DEFINE tq == t1 \div Base
             tr == t1 % Base
             bq == b1 \div Base
             br == b1 % Base
  <2>0. t1 \in Int
    BY <1>4, <1>1, <1>3
  <2>1. /\ tq \in Int /\ tr \in Int /\ t1 = Base * tq + tr
        /\ bq \in Int /\ br \in Int /\ b1 = Base * bq + br
    BY <1>1, <2>0, Parts
  <2> HIDE DEF tq, tr, bq, br
  <2>2. Base * (bq - tq) = Base * bq - Base * tq
    BY <2>1
  <2>3. tr - br - carry = n1 + Base * (bq - tq)
    BY <2>1, <2>2, <1>4, <1>1, <1>3
  <2>4. (n1 + Base * (bq - tq)) % Base = n1 % Base
    <3>1. n1 \in Int /\ bq - tq \in Int
      BY <1>1, <2>1
    <3> QED
      BY <3>1, Shifted
  <2>5. n1 % Base = n1
    BY <1>2
  <2> QED
    BY <2>3, <2>4, <2>5 DEF tr, br
<1>8. get_counter(access_counter(machine, b), access_counter(machine, b + n))
        = n1 * Base + n0
  <2>1. access_counter(machine, b) = [hi |-> b1 % Base, lo |-> b0]
    BY DEF access_counter, b1, b0
  <2>2. access_counter(machine, b + n) = [hi |-> t1 % Base, lo |-> t0]
    BY DEF access_counter
  <2> HIDE DEF t1, t0, carry
  <2> QED
    BY <2>1, <2>2, <1>5, <1>6, <1>7 DEF get_counter
<1> QED
  BY <1>8, <1>1

\* On the Alpha the high words are 0: exact as long as the low word does not wrap.
LEMMA AlphaExact ==
  ASSUME NEW b \in Nat, NEW n \in Nat, (b % Base) + n < Base
  PROVE  get_counter(access_counter("alpha", b), access_counter("alpha", b + n)) = n
<1> DEFINE b1 == b \div Base
           b0 == b % Base
<1>1. b1 \in Int /\ b0 \in 0 .. Base - 1 /\ b = Base * b1 + b0
  BY Parts
<1>2. (b + n) % Base = b0 + n
  <2>1. b + n = Base * b1 + (b0 + n) /\ b0 + n \in 0 .. Base - 1
    BY <1>1
  <2> HIDE DEF b1, b0
  <2> QED
    BY <2>1, <1>1, Unique
<1> HIDE DEF b1, b0
<1>3. n % Base = n /\ ~(n > b0 + n) /\ b0 + n - b0 = n
  BY <1>1 DEF b0
<1>4. (0 - 0 - 0) % Base = 0
  OBVIOUS
<1>5. /\ access_counter("alpha", b) = [hi |-> 0, lo |-> b0]
      /\ access_counter("alpha", b + n) = [hi |-> 0, lo |-> b0 + n]
  BY <1>2 DEF access_counter, b0
<1>6. /\ ((b0 + n) - b0) % Base = n
      /\ (IF n > b0 + n THEN 1 ELSE 0) = 0
  BY <1>3, <1>1
<1>7. 0 * Base + n = n
  OBVIOUS
<1>8. get_counter([hi |-> 0, lo |-> b0], [hi |-> 0, lo |-> b0 + n]) = 0 * Base + n
  BY <1>4, <1>6 DEF get_counter
<1> QED
  BY <1>5, <1>7, <1>8

-----------------------------------------------------------------------------
(* Every time that is measured *)

\* What start_counter has kept is the reading at the moment it was called, and the
\* machine is still the same.
ReadingIInv ==
  /\ began \in Nat /\ elapsed \in Nat
  /\ Started => cyc = access_counter(config.machine, began)

LEMMA ReadingInit == Init => ReadingIInv
  BY DEF Init, ReadingIInv, Started

LEMMA CycleElapses ==
  ASSUME ReadingIInv, Cycle
  PROVE  began' \in Nat /\ elapsed' \in Nat
  BY DEF ReadingIInv, Cycle

LEMMA StartReads ==
  ASSUME ReadingIInv, NEW from, NEW to, start_counter(from, to), to # "exited",
         UNCHANGED config
  PROVE  ReadingIInv'
<1>1. CASE config.machine = "other"
  BY <1>1 DEF start_counter, ReadingIInv, Started
<1>2. CASE config.machine # "other"
  <2>1. began' \in Nat /\ elapsed' \in Nat
    <3>1. began' \in Starts /\ elapsed' = 0
      BY <1>2 DEF start_counter
    <3>2. Starts \subseteq Nat
      BY FcycAssumption
    <3> QED
      BY <3>1, <3>2
  <2>2. cyc' = access_counter(config.machine, began') /\ config' = config
    BY <1>2 DEF start_counter
  <2>3. (cyc = access_counter(config.machine, began))'
    BY <2>2
  <2> QED
    BY <2>1, <2>3 DEF ReadingIInv
<1> QED
  BY <1>1, <1>2

LEMMA ReadingStep ==
  ASSUME ReadingIInv, [Next]_vars
  PROVE  ReadingIInv'
<1> USE DEF ReadingIInv, Started
<1>1. CASE UNCHANGED vars
  BY <1>1 DEF vars, sampler, clock, cal, access_counter
<1>2. CASE Setters
  BY <1>2 DEF Setters, set_fcyc_clear_cache, set_fcyc_cache_size, set_fcyc_cache_block,
       set_fcyc_compensate, set_fcyc_k, set_fcyc_maxsamples, set_fcyc_epsilon, Set, clock
<1>3. CASE fcyc
  BY <1>3 DEF fcyc, Goes, clock
<1>4. CASE Tick
  BY <1>4, FcycAssumption DEF Tick, sampler, cal, access_counter
<1>5. CASE Program
  <2>1. CASE Loop
    BY <2>1 DEF Loop, clock
  <2>2. CASE StartTick
    BY <2>2 DEF StartTick, Goes, times, sampler
  <2>3. CASE StartCounter
    BY <2>3, StartReads DEF StartCounter, sampler
  <2>4. CASE Runs
    BY <2>4, CycleElapses DEF Runs, Goes, Cycle, sampler, access_counter
  <2>5. CASE GetCounter
    BY <2>5 DEF GetCounter, sampler, clock
  <2>6. CASE GetTicks
    BY <2>6 DEF GetTicks, Goes, clock
  <2>7. CASE AddSample
    BY <2>7 DEF AddSample, clock
  <2>8. CASE Return
    BY <2>8 DEF Return, Goes, clock
  <2>9. CASE Callibrate
    BY <2>9 DEF Callibrate, Goes, times
  <2>10. CASE CalStart
    BY <2>10, StartReads DEF CalStart, sampler
  <2>11. CASE CalOldt
    BY <2>11 DEF CalOldt, Goes, sampler, clock, access_counter
  <2>12. CASE CalWaits
    BY <2>12, CycleElapses DEF CalWaits, Goes, Cycle, sampler, access_counter
  <2>13. CASE CalEvent
    BY <2>13 DEF CalEvent, Goes, sampler, clock, access_counter
  <2>14. CASE CalTicks
    BY <2>14 DEF CalTicks, Goes, times, sampler, clock, access_counter
  <2>15. CASE CalEnds
    BY <2>15 DEF CalEnds, Goes, clock
  <2> QED
    BY <1>5, <2>1, <2>2, <2>3, <2>4, <2>5, <2>6, <2>7, <2>8, <2>9, <2>10, <2>11, <2>12,
       <2>13, <2>14, <2>15 DEF Program
<1> QED
  BY <1>1, <1>2, <1>3, <1>4, <1>5 DEF Next

LEMMA ReadingCorrect == ReadingIInv => ReadingExact
<1>1. SUFFICES ASSUME ReadingIInv, Started, InRange
               PROVE  Reading = elapsed
  BY DEF ReadingExact
<1>2. cyc = access_counter(config.machine, began) /\ began \in Nat /\ elapsed \in Nat
  BY <1>1 DEF ReadingIInv
<1>3. CASE config.machine = "alpha"
  BY <1>1, <1>2, <1>3, AlphaExact DEF InRange, Reading, Now
<1>4. CASE config.machine # "alpha"
  BY <1>1, <1>2, <1>4, CounterExact DEF InRange, Reading, Now
<1> QED
  BY <1>3, <1>4

\* Whatever the machine's word, whenever the counter is started and however often the
\* timer interrupts, what get_counter returns is the number of cycles since
\* start_counter (clock.c:53-71).
THEOREM EveryReadingExact == Spec => []ReadingExact
<1>1. Init => ReadingIInv
  BY ReadingInit
<1>2. ReadingIInv /\ [Next]_vars => ReadingIInv'
  BY ReadingStep
<1>3. ReadingIInv => ReadingExact
  BY ReadingCorrect
<1> QED
  BY <1>1, <1>2, <1>3, PTL DEF Spec

-----------------------------------------------------------------------------
(* The arrays of the sampler, and the buffer that clears the cache *)

LEMMA ConstantTypes ==
  /\ THRESHOLD \in Nat /\ RECORDTHRESH \in Nat /\ Cost \in Nat
  /\ MinGap \in Nat /\ MaxGap \in Nat
  /\ Starts \subseteq Nat
  BY FcycAssumption

LEMMA ConfigTypes ==
  ASSUME NEW c \in Configs
  PROVE  c.kbest \in Nat \ {0} /\ c.cache_bytes \in Nat
  BY FcycAssumption

LEMMA Smallest ==
  ASSUME NEW S, S \subseteq Nat, S # {}
  PROVE  \E m \in S : \A k \in S : m <= k
<1>1. PICK m \in S : \A k \in S : ~ (<<k, m>> \in OpToRel(<, Nat))
  BY NatLessThanWellFounded, WFMin, Zenon
<1>2. \A k \in S : <<k, m>> \in OpToRel(<, Nat) <=> k < m
  BY DEF OpToRel
<1>3. \A k \in S : ~ (k < m)
  BY <1>1, <1>2, Zenon
<1> QED
  BY <1>3

\* The insertion stays inside the array: it comes to an end at the first place at
\* the latest, and no value before that place is looked at.
LEMMA InsertType ==
  ASSUME NEW n \in Nat \ {0}, NEW a \in [0 .. n - 1 -> Int], NEW pos \in 0 .. n - 1
  PROVE  Insert(a, pos) \in [0 .. n - 1 -> Int]
<1> DEFINE x == a[pos]
           Ends(p) == /\ p = 0 \/ a[p - 1] <= x
                      /\ \A i \in p .. pos - 1 : a[i] > x
           S == {p \in 0 .. pos : \A i \in p .. pos - 1 : a[i] > x}
           at == CHOOSE p \in 0 .. pos : Ends(p)
<1>1. x \in Int
  OBVIOUS
<1>2. \E p \in 0 .. pos : Ends(p)
  <2>1. S \subseteq Nat /\ pos \in S
    OBVIOUS
  <2>2. PICK m \in S : \A k \in S : m <= k
    BY <2>1, Smallest
  <2>3. m = 0 \/ a[m - 1] <= x
    <3>1. SUFFICES ASSUME m # 0, ~ (a[m - 1] <= x) PROVE FALSE
      OBVIOUS
    <3>2. a[m - 1] \in Int /\ a[m - 1] > x
      BY <3>1
    <3>3. m - 1 \in S
      BY <3>1, <3>2
    <3>4. m \in Nat
      OBVIOUS
    <3> HIDE DEF S
    <3> QED
      BY <2>2, <3>3, <3>4
  <2> QED
    BY <2>3
<1>3. at \in 0 .. pos
  BY <1>2
<1> HIDE DEF at
<1>4. \A i \in 0 .. n - 1 :
        (IF i = at THEN x ELSE IF i > at /\ i <= pos THEN a[i - 1] ELSE a[i]) \in Int
  BY <1>1, <1>3
<1>5. Insert(a, pos) = [i \in 0 .. n - 1 |->
         IF i = at THEN x ELSE IF i > at /\ i <= pos THEN a[i - 1] ELSE a[i]]
  BY DEF Insert, at
<1> QED
  BY <1>4, <1>5

LEMMA add_sampleType ==
  ASSUME config \in Configs, values \in [0 .. config.kbest - 1 -> Int],
         samples \in Seq(Int), NEW x \in Int, add_sample(x)
  PROVE  values' \in [0 .. config.kbest - 1 -> Int] /\ samples' \in Seq(Int)
<1> DEFINE k == config.kbest
           n == Len(samples)
<1>1. k \in Nat \ {0} /\ n \in Nat
  BY ConfigTypes
<1>2. samples' \in Seq(Int)
  BY DEF add_sample
<1>3. values' = IF n < k THEN Insert([values EXCEPT ![n] = x], n)
                ELSE IF x < values[k - 1] THEN Insert([values EXCEPT ![k - 1] = x], k - 1)
                ELSE values
  BY DEF add_sample
<1> HIDE DEF k, n
<1>4. ASSUME NEW pos \in 0 .. k - 1
      PROVE  Insert([values EXCEPT ![pos] = x], pos) \in [0 .. k - 1 -> Int]
  <2>1. [values EXCEPT ![pos] = x] \in [0 .. k - 1 -> Int]
    BY DEF k
  <2> QED
    BY <1>1, <2>1, InsertType
<1>5. values \in [0 .. k - 1 -> Int]
  BY DEF k
<1>6. CASE n < k
  <2>1. n \in 0 .. k - 1
    BY <1>6, <1>1
  <2> QED
    BY <1>2, <1>3, <1>4, <1>6, <2>1 DEF k
<1>7. CASE ~(n < k)
  <2>1. k - 1 \in 0 .. k - 1
    BY <1>1
  <2> QED
    BY <1>2, <1>3, <1>4, <1>5, <1>7, <2>1 DEF k
<1> QED
  BY <1>6, <1>7

\* A reading is not negative.
LEMMA ReadingType ==
  ASSUME NEW c \in [hi : 0 .. Base - 1, lo : 0 .. Base - 1], NEW t \in Nat, NEW machine
  PROVE  /\ access_counter(machine, t) \in [hi : 0 .. Base - 1, lo : 0 .. Base - 1]
         /\ get_counter(c, access_counter(machine, t)) \in Nat
<1>1. \A a \in Int : a % Base \in 0 .. Base - 1 /\ a \div Base \in Int
  BY Parts
<1>2. access_counter(machine, t) \in [hi : 0 .. Base - 1, lo : 0 .. Base - 1]
  BY <1>1 DEF access_counter
<1>3. ASSUME NEW now \in [hi : 0 .. Base - 1, lo : 0 .. Base - 1]
      PROVE  get_counter(c, now) \in Nat
  <2> DEFINE lo     == (now.lo - c.lo) % Base
             borrow == IF lo > now.lo THEN 1 ELSE 0
             hi     == (now.hi - c.hi - borrow) % Base
  <2>1. lo \in 0 .. Base - 1
    <3>1. now.lo - c.lo \in Int
      OBVIOUS
    <3> QED
      BY <1>1, <3>1
  <2>2. borrow \in Int
    OBVIOUS
  <2>3. hi \in 0 .. Base - 1
    <3> HIDE DEF borrow
    <3>1. now.hi - c.hi - borrow \in Int
      BY <2>2
    <3> QED
      BY <1>1, <3>1
  <2> HIDE DEF lo, hi
  <2>4. hi * Base + lo \in Nat
    BY <2>1, <2>3
  <2> QED
    BY <2>4 DEF get_counter, lo, hi
<1> QED
  BY <1>2, <1>3

LEMMA InitType == Init => TypeOK
<1>1. SUFFICES ASSUME Init PROVE TypeOK
  OBVIOUS
<1>2. <<>> \in Seq(Int)
  OBVIOUS
<1>3. cyc \in [hi : 0 .. Base - 1, lo : 0 .. Base - 1]
  BY <1>1 DEF Init
<1>4. sinceTick \in 0 .. MaxGap
  BY <1>1, ConstantTypes DEF Init
<1> QED
  BY <1>1, <1>2, <1>3, <1>4 DEF Init, TypeOK, Places, Sampling

LEMMA SetType ==
  ASSUME TypeOK, NEW field, NEW v, Set(field, v),
         cache_buf' \in {NoBuf, config'.cache_bytes}
  PROVE  TypeOK'
  BY DEF TypeOK, Set, Sampling, Places, cal, clock

LEMMA SettersType ==
  ASSUME TypeOK, Setters
  PROVE  TypeOK'
<1>1. ASSUME NEW field \in {"clear_cache", "cache_block", "compensate", "kbest",
                            "maxsamples", "epsilon"},
             NEW v, Set(field, v), UNCHANGED cache_buf
      PROVE  TypeOK'
  <2>1. config'.cache_bytes = config.cache_bytes
    <3>1. config' = [config EXCEPT ![field] = v]
      BY <1>1 DEF Set
    <3> QED
      BY <3>1, FcycAssumption DEF TypeOK
  <2> QED
    BY <1>1, <2>1, SetType DEF TypeOK
<1>2. ASSUME NEW bytes, Set("cache_bytes", bytes),
             cache_buf' = IF bytes # config.cache_bytes THEN NoBuf ELSE cache_buf
      PROVE  TypeOK'
  <2>1. config'.cache_bytes \in Nat
    BY <1>2, FcycAssumption DEF Set
  <2>2. config' = [config EXCEPT !["cache_bytes"] = bytes]
    BY <1>2 DEF Set
  <2>3. bytes = config.cache_bytes => config'.cache_bytes = config.cache_bytes
    BY <2>2
  <2> QED
    BY <1>2, <2>3, SetType DEF TypeOK
<1> QED
  BY <1>1, <1>2, Zenon DEF Setters, set_fcyc_clear_cache, set_fcyc_cache_size,
     set_fcyc_cache_block, set_fcyc_compensate, set_fcyc_k, set_fcyc_maxsamples,
     set_fcyc_epsilon

LEMMA CycleType ==
  ASSUME TypeOK, Cycle
  PROVE  /\ {began', elapsed', work', ticks'} \subseteq Nat
         /\ sinceTick' \in 0 .. MaxGap
  BY ConstantTypes DEF TypeOK, Cycle

LEMMA ReadingNat ==
  ASSUME TypeOK
  PROVE  Reading \in Nat
<1>1. began + elapsed \in Nat /\ cyc \in [hi : 0 .. Base - 1, lo : 0 .. Base - 1]
  BY DEF TypeOK
<1> QED
  BY <1>1, ReadingType DEF Reading, Now

LEMMA StartType ==
  ASSUME TypeOK, NEW from \in Places \ {"idle", "exited"},
         NEW to \in Places \ {"idle", "exited"},
         start_counter(from, to), UNCHANGED <<sampler, val, cal>>
  PROVE  TypeOK'
<1> DEFINE Words == [hi : 0 .. Base - 1, lo : 0 .. Base - 1]
<1>1. /\ {began', elapsed', work'} \subseteq Nat
      /\ cyc' \in Words
      /\ pc' \in {to, "exited"}
  <2>1. CASE config.machine = "other"
    BY <2>1 DEF start_counter, TypeOK
  <2>2. CASE config.machine # "other"
    <3>1. /\ began' \in Starts /\ elapsed' = 0 /\ work' = 0 /\ pc' = to
          /\ cyc' = access_counter(config.machine, began')
      BY <2>2 DEF start_counter
    <3>2. began' \in Nat
      BY <3>1, ConstantTypes
    <3>3. cyc \in Words
      BY DEF TypeOK
    <3>4. access_counter(config.machine, began') \in Words
      BY <3>2, <3>3, ReadingType
    <3> QED
      BY <3>1, <3>2, <3>4
  <2> QED
    BY <2>1, <2>2
<1>2. ticks' = ticks /\ sinceTick' = sinceTick /\ pc = from
  BY DEF start_counter
<1> HIDE DEF Words
<1>3. /\ config' \in Configs /\ cache_buf' \in {NoBuf, config'.cache_bytes}
      /\ values' \in [0 .. config'.kbest - 1 -> Int] /\ samples' \in Seq(Int)
      /\ samples' = samples
  BY <1>2 DEF TypeOK, Sampling, sampler
<1>4. /\ val' \in Int /\ {cyc_per_tick', oldt', newt', e'} \subseteq Nat
      /\ ticks' \in Nat /\ sinceTick' \in 0 .. MaxGap
  BY <1>2 DEF TypeOK, cal
<1> QED
  BY <1>1, <1>3, <1>4 DEF TypeOK, Sampling, Places, Words

\* The steps that leave the sampler alone and do not begin or end a measurement.
LEMMA QuietType ==
  ASSUME TypeOK, Sampling, pc' \in Places, UNCHANGED <<sampler, cyc>>,
         val' \in Int, {cyc_per_tick', oldt', newt', e'} \subseteq Nat,
         {began', elapsed', work', ticks'} \subseteq Nat, sinceTick' \in 0 .. MaxGap
  PROVE  TypeOK'
  BY DEF TypeOK, Sampling, sampler

LEMMA TypeStep ==
  ASSUME TypeOK, [Next]_vars
  PROVE  TypeOK'
<1>0. /\ pc \in Places
      /\ val \in Int /\ {cyc_per_tick, oldt, newt, e} \subseteq Nat
      /\ {began, elapsed, work, ticks} \subseteq Nat /\ sinceTick \in 0 .. MaxGap
  BY DEF TypeOK
<1>1. CASE UNCHANGED vars
  BY <1>1 DEF vars, sampler, clock, cal, TypeOK, Sampling
<1>2. CASE Setters
  BY <1>2, SettersType
<1>3. CASE fcyc
  <2>1. /\ pc' = "loop" /\ config' = config /\ cache_buf' = cache_buf
        /\ values' = [i \in 0 .. config.kbest - 1 |-> 0] /\ samples' = <<>>
        /\ UNCHANGED <<val, cyc, cal, clock>>
    BY <1>3 DEF fcyc, Goes, init_sampler
  <2>2. samples' \in Seq(Int) /\ values' \in [0 .. config'.kbest - 1 -> Int]
    BY <2>1
  <2> QED
    BY <2>1, <2>2 DEF TypeOK, Places, cal, clock
<1>4. CASE Tick
  <2>1. /\ Sampling /\ pc' = pc /\ sinceTick' = 0 /\ elapsed' = elapsed + Cost
        /\ ticks' \in {ticks, ticks + 1}
        /\ UNCHANGED <<sampler, val, cyc, cal, began, work>>
    BY <1>4 DEF Tick, Sampling
  <2>2. /\ {began', elapsed', work', ticks'} \subseteq Nat
        /\ sinceTick' \in 0 .. MaxGap
    BY <1>0, <2>1, ConstantTypes
  <2> QED
    BY <1>0, <2>1, <2>2, QuietType DEF cal
<1>5. CASE Program
  <2>1. CASE Loop
    <3>1. /\ Sampling /\ pc' \in Places
          /\ cache_buf' \in {cache_buf, config.cache_bytes}
          /\ UNCHANGED <<config, values, samples, val, cyc, cal, clock>>
      BY <2>1 DEF Loop, clear, Sampling, Places
    <3> QED
      BY <3>1 DEF TypeOK, Sampling, cal, clock
  <2>2. CASE StartTick
    <3>1. /\ Sampling /\ pc' \in Places
          /\ {began', elapsed', work', ticks'} \subseteq Nat
          /\ sinceTick' \in 0 .. MaxGap
          /\ UNCHANGED <<sampler, val, cyc, cal>>
      BY <2>2, <1>0 DEF StartTick, Goes, times, Sampling, Places
    <3> QED
      BY <1>0, <3>1, QuietType DEF cal
  <2>3. CASE StartCounter
    BY <2>3, StartType DEF StartCounter, Places
  <2>4. CASE Runs
    <3>1. Sampling /\ pc' \in Places /\ UNCHANGED <<sampler, val, cyc, cal>>
      BY <2>4 DEF Runs, Goes, Sampling, Places
    <3>2. Cycle
      BY <2>4 DEF Runs
    <3> QED
      BY <1>0, <3>1, <3>2, CycleType, QuietType DEF cal
  <2>5. CASE GetCounter
    <3>1. /\ Sampling /\ pc' \in Places /\ val' = Reading
          /\ UNCHANGED <<sampler, cyc, cal, clock>>
      BY <2>5 DEF GetCounter, Sampling, Places
    <3>2. val' \in Int
      BY <3>1, ReadingNat
    <3> QED
      BY <1>0, <3>1, <3>2, QuietType DEF cal, clock
  <2>6. CASE GetTicks
    <3>1. /\ Sampling /\ pc' \in Places /\ val' = val - ticks * cyc_per_tick
          /\ UNCHANGED <<sampler, cyc, cal, clock>>
      BY <2>6 DEF GetTicks, Goes, Sampling, Places
    <3>2. val' \in Int
      BY <1>0, <3>1
    <3> QED
      BY <1>0, <3>1, <3>2, QuietType DEF cal, clock
  <2>7. CASE AddSample
    <3>1. /\ Sampling /\ pc' \in Places /\ add_sample(val)
          /\ UNCHANGED <<config, cache_buf, val, cyc, cal, clock>>
      BY <2>7 DEF AddSample, Sampling, Places
    <3>2. values' \in [0 .. config.kbest - 1 -> Int] /\ samples' \in Seq(Int)
      BY <1>0, <3>1, add_sampleType DEF TypeOK
    <3> QED
      BY <3>1, <3>2 DEF TypeOK, cal, clock
  <2>8. CASE Return
    <3>1. /\ Sampling /\ pc' = "idle" /\ val' = values[0] /\ samples' = <<>>
          /\ UNCHANGED <<config, cache_buf, cyc, cal, clock>>
      BY <2>8 DEF Return, Goes, Sampling
    <3>2. values \in [0 .. config.kbest - 1 -> Int] /\ 0 \in 0 .. config.kbest - 1
      BY <3>1, ConfigTypes DEF TypeOK
    <3>3. val' \in Int /\ samples' \in Seq(Int) /\ pc' \in Places /\ ~Sampling'
      BY <3>1, <3>2 DEF Places, Sampling
    <3> QED
      BY <3>1, <3>3 DEF TypeOK, cal, clock
  <2>9. CASE Callibrate
    <3>1. /\ Sampling /\ pc' \in Places /\ e' = 0
          /\ {began', elapsed', work', ticks'} \subseteq Nat
          /\ sinceTick' \in 0 .. MaxGap
          /\ UNCHANGED <<sampler, val, cyc, cyc_per_tick, oldt, newt>>
      BY <2>9, <1>0 DEF Callibrate, Goes, times, Sampling, Places
    <3> QED
      BY <1>0, <3>1, QuietType
  <2>10. CASE CalStart
    BY <2>10, StartType DEF CalStart, Places
  <2>11. CASE CalOldt
    <3>1. /\ Sampling /\ pc' \in Places /\ oldt' = Reading
          /\ UNCHANGED <<sampler, val, cyc, cyc_per_tick, newt, e, clock>>
      BY <2>11 DEF CalOldt, Goes, Sampling, Places
    <3> QED
      BY <1>0, <3>1, ReadingNat, QuietType DEF clock
  <2>12. CASE CalWaits
    <3>1. Sampling /\ pc' \in Places /\ UNCHANGED <<sampler, val, cyc, cal>>
      BY <2>12 DEF CalWaits, Goes, Sampling, Places
    <3>2. Cycle
      BY <2>12 DEF CalWaits
    <3> QED
      BY <1>0, <3>1, <3>2, CycleType, QuietType DEF cal
  <2>13. CASE CalEvent
    <3>1. /\ Sampling /\ pc' \in Places /\ newt' = Reading
          /\ UNCHANGED <<sampler, val, cyc, cyc_per_tick, oldt, e, clock>>
      BY <2>13 DEF CalEvent, Goes, Sampling, Places
    <3> QED
      BY <1>0, <3>1, ReadingNat, QuietType DEF clock
  <2>14. CASE CalTicks
    <3> DEFINE cpt == (newt - oldt) \div ticks
    <3>1. /\ Sampling /\ pc' \in Places /\ oldt' = newt
          /\ UNCHANGED <<sampler, val, cyc, newt>>
      BY <2>14 DEF CalTicks, Goes, Sampling, Places
    <3>2. CASE ticks > 0
      <4>1. cpt \in Int
        BY <3>2, <1>0
      <4>2. /\ cyc_per_tick' = IF Recorded(cpt) THEN cpt ELSE cyc_per_tick
            /\ e' = e + 1 /\ ticks' = 0
            /\ UNCHANGED <<began, elapsed, work, sinceTick>>
        BY <2>14, <3>2 DEF CalTicks, times
      <4> HIDE DEF cpt
      <4>3. cyc_per_tick' \in Nat
        BY <1>0, <4>1, <4>2, ConstantTypes DEF Recorded
      <4> QED
        BY <1>0, <3>1, <4>2, <4>3, QuietType
    <3>3. CASE ~(ticks > 0)
      <4>1. UNCHANGED <<cyc_per_tick, e, clock>>
        BY <2>14, <3>3 DEF CalTicks
      <4> QED
        BY <1>0, <3>1, <4>1, QuietType DEF clock
    <3> QED
      BY <3>2, <3>3
  <2>15. CASE CalEnds
    <3>1. /\ Sampling /\ pc' \in Places /\ UNCHANGED <<sampler, val, cyc, cal, clock>>
      BY <2>15 DEF CalEnds, Goes, Sampling, Places
    <3> QED
      BY <1>0, <3>1, QuietType DEF cal, clock
  <2> QED
    BY <1>5, <2>1, <2>2, <2>3, <2>4, <2>5, <2>6, <2>7, <2>8, <2>9, <2>10, <2>11, <2>12,
       <2>13, <2>14, <2>15 DEF Program
<1> QED
  BY <1>1, <1>2, <1>3, <1>4, <1>5 DEF Next

\* For all settings, whatever they are changed to between two calls: the array holds
\* the kbest values that are sorted and compared, no insertion leaves it, and the
\* buffer that is read to clear the cache is never an older, smaller one.
THEOREM TypeCorrect == Spec => []TypeOK
  BY InitType, TypeStep, PTL DEF Spec

-----------------------------------------------------------------------------
(* The K smallest samples *)

\* f names the samples s that the first m places of v hold: in order, each once, and
\* any other sample is not below the last of k places that are all taken.
Ranks(f, v, s, k, m) ==
  /\ f \in [0 .. m - 1 -> 1 .. Len(s)]
  /\ \A i, j \in 0 .. m - 1 : f[i] = f[j] => i = j
  /\ \A i \in 0 .. m - 1 : v[i] = s[f[i]]
  /\ \A i, j \in 0 .. m - 1 : i <= j => v[i] <= v[j]
  /\ \A n \in 1 .. Len(s) : (\E i \in 0 .. m - 1 : f[i] = n) \/ (m = k /\ v[k - 1] <= s[n])

KeptOf(s, k) == IF Len(s) < k THEN Len(s) ELSE k
Ranked(v, s, k) == \E f : Ranks(f, v, s, k, KeptOf(s, k))

\* What is below a value of the array is in one of the places before it, and what is
\* in those places and its own is not above it.
LEMMA RankedCounts ==
  ASSUME NEW k \in Nat \ {0}, NEW s \in Seq(Int), NEW v \in [0 .. k - 1 -> Int],
         Ranked(v, s, k), NEW i \in 0 .. KeptOf(s, k) - 1
  PROVE  /\ Cardinality({n \in DOMAIN s : s[n] < v[i]}) <= i
         /\ Cardinality({n \in DOMAIN s : s[n] <= v[i]}) > i
<1> DEFINE m == KeptOf(s, k)
           Below == {n \in DOMAIN s : s[n] < v[i]}
           NotAbove == {n \in DOMAIN s : s[n] <= v[i]}
<1>1. PICK f : Ranks(f, v, s, k, m)
  BY DEF Ranked
<1>2. m \in Nat /\ m <= k /\ i \in 0 .. m - 1 /\ Len(s) \in Nat /\ DOMAIN s = 1 .. Len(s)
  BY DEF KeptOf
<1>3. \A n \in 1 .. Len(s) : s[n] \in Int
  OBVIOUS
<1> HIDE DEF m
<1>4. Cardinality(Below) <= i
  <2>1. \A n \in Below : \E j \in 0 .. i - 1 : f[j] = n
    <3>1. SUFFICES ASSUME NEW n \in Below PROVE \E j \in 0 .. i - 1 : f[j] = n
      OBVIOUS
    <3>2. n \in 1 .. Len(s) /\ s[n] < v[i] /\ s[n] \in Int
      BY <1>2, <1>3
    <3>3. ~ (m = k /\ v[k - 1] <= s[n])
      <4>1. SUFFICES ASSUME m = k, v[k - 1] <= s[n] PROVE FALSE
        OBVIOUS
      <4>2. v[i] <= v[k - 1]
        BY <1>1, <1>2, <4>1 DEF Ranks
      <4>3. v[i] \in Int /\ v[k - 1] \in Int
        BY <1>2
      <4> QED BY <4>1, <4>2, <4>3, <3>2
    <3>4. PICK j \in 0 .. m - 1 : f[j] = n
      BY <1>1, <3>2, <3>3 DEF Ranks
    <3>5. ~ (i <= j)
      <4>1. v[j] = s[n] /\ v[j] \in Int /\ v[i] \in Int
        BY <1>1, <1>2, <3>4 DEF Ranks
      <4> QED BY <1>1, <1>2, <3>2, <4>1 DEF Ranks
    <3> QED BY <1>2, <3>4, <3>5
  <2> DEFINE G == [n \in Below |-> CHOOSE j \in 0 .. i - 1 : f[j] = n]
  <2>2. \A n \in Below : G[n] \in 0 .. i - 1 /\ f[G[n]] = n
    BY <2>1
  <2> HIDE DEF Below
  <2>3. G \in [Below -> 0 .. i - 1]
    BY <2>2
  <2>4. \A n, l \in Below : G[n] = G[l] => n = l
    BY <2>2
  <2> HIDE DEF G
  <2>5. G \in Injection(Below, 0 .. i - 1)
    BY <2>3, <2>4 DEF Injection, IsInjective
  <2>6. IsFiniteSet(0 .. i - 1) /\ Cardinality(0 .. i - 1) = i
    <3> DEFINE b == i - 1
    <3>1. 0 \in Int /\ b \in Int /\ b >= -1 /\ b + 1 = i
      BY <1>2
    <3> HIDE DEF b
    <3>2. IsFiniteSet(0 .. b) /\ Cardinality(0 .. b) = IF 0 > b THEN 0 ELSE b - 0 + 1
      BY <3>1, FS_Interval, Zenon
    <3> QED BY <3>1, <3>2 DEF b
  <2> QED BY <2>5, <2>6, FS_Injection
<1>5. Cardinality(NotAbove) > i
  <2>1. \A j \in 0 .. i : f[j] \in NotAbove
    <3>1. SUFFICES ASSUME NEW j \in 0 .. i PROVE f[j] \in NotAbove
      OBVIOUS
    <3>2. j \in 0 .. m - 1 /\ j <= i
      BY <1>2
    <3>3. f[j] \in 1 .. Len(s) /\ s[f[j]] = v[j] /\ v[j] <= v[i]
      BY <1>1, <1>2, <3>2 DEF Ranks
    <3> QED BY <1>2, <3>3
  <2> DEFINE G == [j \in 0 .. i |-> f[j]]
  <2>2. IsFiniteSet(NotAbove)
    <3>1. IsFiniteSet(1 .. Len(s))
      <4>1. 1 \in Int /\ Len(s) \in Int
        BY <1>2
      <4> QED BY <4>1, FS_Interval
    <3>2. NotAbove \in SUBSET (1 .. Len(s))
      BY <1>2
    <3> QED BY <3>1, <3>2, FS_Subset
  <2>3. \A j, l \in 0 .. i : f[j] = f[l] => j = l
    BY <1>1, <1>2 DEF Ranks
  <2> HIDE DEF NotAbove
  <2>4. G \in Injection(0 .. i, NotAbove)
    BY <2>1, <2>3 DEF Injection, IsInjective
  <2>5. Cardinality(0 .. i) <= Cardinality(NotAbove) /\ Cardinality(NotAbove) \in Nat
    BY <2>2, <2>4, FS_Injection, FS_CardinalityType
  <2>6. Cardinality(0 .. i) = i + 1
    <3>1. 0 \in Int /\ i \in Int /\ i >= 0
      BY <1>2
    <3> QED BY <3>1, FS_Interval
  <2> QED BY <2>5, <2>6, <1>2
<1> QED BY <1>4, <1>5

\* Insertion moves the values from one place on up by one, and puts the new value
\* before them.
LEMMA InsertMoves ==
  ASSUME NEW n \in Nat \ {0}, NEW a \in [0 .. n - 1 -> Int], NEW pos \in 0 .. n - 1,
         \A i, j \in 0 .. pos - 1 : i <= j => a[i] <= a[j]
  PROVE  \E at \in 0 .. pos :
           /\ Insert(a, pos) = [i \in 0 .. n - 1 |->
                                  IF i = at THEN a[pos]
                                  ELSE IF i > at /\ i <= pos THEN a[i - 1] ELSE a[i]]
           /\ \A i \in 0 .. at - 1 : a[i] <= a[pos]
           /\ \A i \in at .. pos - 1 : a[i] > a[pos]
<1> DEFINE x == a[pos]
           Ends(p) == /\ p = 0 \/ a[p - 1] <= x
                      /\ \A i \in p .. pos - 1 : a[i] > x
           S == {p \in 0 .. pos : \A i \in p .. pos - 1 : a[i] > x}
           at == CHOOSE p \in 0 .. pos : Ends(p)
<1>1. x \in Int
  OBVIOUS
<1>2. \E p \in 0 .. pos : Ends(p)
  <2>1. S \subseteq Nat /\ pos \in S
    OBVIOUS
  <2>2. PICK m \in S : \A k \in S : m <= k
    BY <2>1, Smallest
  <2>3. m = 0 \/ a[m - 1] <= x
    <3>1. SUFFICES ASSUME m # 0, ~ (a[m - 1] <= x) PROVE FALSE
      OBVIOUS
    <3>2. a[m - 1] \in Int /\ a[m - 1] > x
      BY <3>1
    <3>3. m - 1 \in S
      BY <3>1, <3>2
    <3>4. m \in Nat
      OBVIOUS
    <3> HIDE DEF S
    <3> QED
      BY <2>2, <3>3, <3>4
  <2> QED
    BY <2>3
<1>3. at \in 0 .. pos /\ Ends(at)
  BY <1>2
<1>4. Insert(a, pos) = [i \in 0 .. n - 1 |->
         IF i = at THEN x ELSE IF i > at /\ i <= pos THEN a[i - 1] ELSE a[i]]
  BY DEF Insert
<1> HIDE DEF at
<1>5. \A i \in 0 .. at - 1 : a[i] <= x
  <2>1. SUFFICES ASSUME NEW i \in 0 .. at - 1 PROVE a[i] <= x
    OBVIOUS
  <2>2. at # 0 /\ i \in 0 .. pos - 1 /\ at - 1 \in 0 .. pos - 1 /\ i <= at - 1
    BY <1>3
  <2>3. a[i] <= a[at - 1] /\ a[at - 1] <= x
    BY <1>3, <2>2
  <2>4. a[i] \in Int /\ a[at - 1] \in Int
    BY <2>2
  <2> QED BY <1>1, <2>3, <2>4
<1> QED BY <1>3, <1>4, <1>5

\* h names the N samples s in the first pos + 1 places of v after the one numbered
\* new has been inserted at pos; they are new and those that f named before.
Inserts(h, f, v, s, k, pos, N, new) ==
  LET w == Insert([v EXCEPT ![pos] = s[new]], pos)
  IN  /\ h \in [0 .. pos -> 1 .. N] /\ w \in [0 .. k - 1 -> Int]
      /\ \A i, j \in 0 .. pos : h[i] = h[j] => i = j
      /\ \A i \in 0 .. pos : w[i] = s[h[i]]
      /\ \A i, j \in 0 .. pos : i <= j => w[i] <= w[j]
      /\ \E i \in 0 .. pos : h[i] = new
      /\ \A j \in 0 .. pos - 1 : \E i \in 0 .. pos : h[i] = f[j]

\* The first pos places of v hold samples in order; when the one numbered new is
\* inserted at pos, the first pos + 1 do, and no sample but it has come.
LEMMA InsertRanks ==
  ASSUME NEW k \in Nat \ {0}, NEW v \in [0 .. k - 1 -> Int], NEW pos \in 0 .. k - 1,
         NEW N \in Nat, NEW s \in [1 .. N -> Int], NEW new \in 1 .. N,
         NEW f \in [0 .. pos - 1 -> 1 .. N],
         \A i, j \in 0 .. pos - 1 : f[i] = f[j] => i = j,
         \A i \in 0 .. pos - 1 : v[i] = s[f[i]] /\ f[i] # new,
         \A i, j \in 0 .. pos - 1 : i <= j => v[i] <= v[j]
  PROVE  \E h : Inserts(h, f, v, s, k, pos, N, new)
<1> DEFINE a == [v EXCEPT ![pos] = s[new]]
           w == Insert(a, pos)
<1>1. /\ a \in [0 .. k - 1 -> Int] /\ a[pos] = s[new]
      /\ \A i \in 0 .. pos - 1 : a[i] = v[i] /\ v[i] \in Int
      /\ s[new] \in Int
  OBVIOUS
<1>2. \A i, j \in 0 .. pos - 1 : i <= j => a[i] <= a[j]
  BY <1>1
<1> HIDE DEF a
<1>3. PICK at \in 0 .. pos :
           /\ w = [i \in 0 .. k - 1 |->
                     IF i = at THEN a[pos]
                     ELSE IF i > at /\ i <= pos THEN a[i - 1] ELSE a[i]]
           /\ \A i \in 0 .. at - 1 : a[i] <= a[pos]
           /\ \A i \in at .. pos - 1 : a[i] > a[pos]
  BY <1>1, <1>2, InsertMoves
<1>4. w \in [0 .. k - 1 -> Int]
  BY <1>1, InsertType
<1> HIDE DEF w
<1> DEFINE h == [i \in 0 .. pos |-> IF i = at THEN new ELSE IF i > at THEN f[i - 1] ELSE f[i]]
<1>5. h \in [0 .. pos -> 1 .. N]
  OBVIOUS
<1>6. /\ h[at] = new /\ w[at] = s[new]
      /\ \A i \in 0 .. pos : i > at =>
           /\ i - 1 \in 0 .. pos - 1 /\ i - 1 \in at .. pos - 1
           /\ h[i] = f[i - 1] /\ w[i] = v[i - 1] /\ f[i - 1] # new
      /\ \A i \in 0 .. pos : i < at =>
           /\ i \in 0 .. pos - 1 /\ i \in 0 .. at - 1
           /\ h[i] = f[i] /\ w[i] = v[i] /\ f[i] # new
  <2>1. h[at] = new /\ w[at] = s[new]
    BY <1>1, <1>3
  <2>2. ASSUME NEW i \in 0 .. pos, i > at
        PROVE  /\ i - 1 \in 0 .. pos - 1 /\ i - 1 \in at .. pos - 1
               /\ h[i] = f[i - 1] /\ w[i] = v[i - 1] /\ f[i - 1] # new
    <3>1. i - 1 \in 0 .. pos - 1 /\ i - 1 \in at .. pos - 1 /\ i # at /\ i \in 0 .. k - 1
      BY <2>2
    <3>2. w[i] = a[i - 1] /\ a[i - 1] = v[i - 1]
      BY <1>1, <1>3, <2>2, <3>1
    <3>3. h[i] = f[i - 1]
      BY <2>2
    <3> QED BY <3>1, <3>2, <3>3
  <2>3. ASSUME NEW i \in 0 .. pos, i < at
        PROVE  /\ i \in 0 .. pos - 1 /\ i \in 0 .. at - 1
               /\ h[i] = f[i] /\ w[i] = v[i] /\ f[i] # new
    <3>1. i \in 0 .. pos - 1 /\ i \in 0 .. at - 1 /\ i # at /\ ~ (i > at) /\ i \in 0 .. k - 1
      BY <2>3
    <3>2. w[i] = a[i] /\ a[i] = v[i]
      BY <1>1, <1>3, <3>1
    <3>3. h[i] = f[i]
      BY <2>3
    <3> QED BY <3>1, <3>2, <3>3
  <2> QED BY <2>1, <2>2, <2>3
<1>7. at \in 0 .. pos /\ h[at] = new
  BY <1>6
<1>8. \A j \in 0 .. pos - 1 : \E i \in 0 .. pos : h[i] = f[j]
  <2>1. SUFFICES ASSUME NEW j \in 0 .. pos - 1 PROVE \E i \in 0 .. pos : h[i] = f[j]
    OBVIOUS
  <2>2. CASE j < at
    <3>1. j \in 0 .. pos /\ h[j] = f[j]
      BY <1>6, <2>2
    <3> QED BY <3>1
  <2>3. CASE ~ (j < at)
    <3>1. j + 1 \in 0 .. pos /\ h[j + 1] = f[j]
      BY <1>6, <2>3
    <3> QED BY <3>1
  <2> QED BY <2>2, <2>3
<1> HIDE DEF h
<1>9. \A i, j \in 0 .. pos : h[i] = h[j] => i = j
  <2>1. SUFFICES ASSUME NEW i \in 0 .. pos, NEW j \in 0 .. pos, h[i] = h[j] PROVE i = j
    OBVIOUS
  <2>2. CASE i = at \/ j = at
    <3>1. \A l \in 0 .. pos : l # at => h[l] # new
      <4>1. SUFFICES ASSUME NEW l \in 0 .. pos, l # at PROVE h[l] # new
        OBVIOUS
      <4>2. l > at \/ l < at
        BY <4>1
      <4> QED BY <1>6, <4>2
    <3> QED BY <1>6, <2>1, <2>2, <3>1
  <2>3. CASE i > at /\ j > at
    <3>1. f[i - 1] = f[j - 1] /\ i - 1 \in 0 .. pos - 1 /\ j - 1 \in 0 .. pos - 1
      BY <1>6, <2>1, <2>3
    <3>2. i - 1 = j - 1
      BY <3>1
    <3> QED BY <3>2
  <2>4. CASE i > at /\ j < at
    <3>1. f[i - 1] = f[j] /\ i - 1 \in 0 .. pos - 1 /\ j \in 0 .. pos - 1
      BY <1>6, <2>1, <2>4
    <3>2. i - 1 = j
      BY <3>1
    <3> QED BY <3>2, <2>4
  <2>5. CASE i < at /\ j > at
    <3>1. f[j - 1] = f[i] /\ j - 1 \in 0 .. pos - 1 /\ i \in 0 .. pos - 1
      BY <1>6, <2>1, <2>5
    <3>2. j - 1 = i
      BY <3>1
    <3> QED BY <3>2, <2>5
  <2>6. CASE i < at /\ j < at
    BY <1>6, <2>1, <2>6
  <2> QED BY <2>2, <2>3, <2>4, <2>5, <2>6
<1>10. \A i \in 0 .. pos : w[i] = s[h[i]]
  <2>1. SUFFICES ASSUME NEW i \in 0 .. pos PROVE w[i] = s[h[i]]
    OBVIOUS
  <2>2. CASE i = at
    BY <1>6, <2>2
  <2>3. CASE i > at
    <3>1. i - 1 \in 0 .. pos - 1 /\ h[i] = f[i - 1] /\ w[i] = v[i - 1]
      BY <1>6, <2>3
    <3> QED BY <3>1
  <2>4. CASE i < at
    <3>1. i \in 0 .. pos - 1 /\ h[i] = f[i] /\ w[i] = v[i]
      BY <1>6, <2>4
    <3> QED BY <3>1
  <2> QED BY <2>2, <2>3, <2>4
<1>11. \A i, j \in 0 .. pos : i <= j => w[i] <= w[j]
  <2>1. SUFFICES ASSUME NEW i \in 0 .. pos, NEW j \in 0 .. pos, i <= j PROVE w[i] <= w[j]
    OBVIOUS
  <2>2. \A l \in 0 .. at - 1 : v[l] <= s[new]
    BY <1>1, <1>3
  <2>3. \A l \in at .. pos - 1 : v[l] >= s[new]
    BY <1>1, <1>3
  <2>4. \A l, q \in 0 .. pos - 1 : l <= q => v[l] <= v[q]
    OBVIOUS
  <2>5. CASE j = at
    <3>1. CASE i = at
      BY <1>1, <1>6, <2>5, <3>1
    <3>2. CASE i < at
      <4>1. w[i] = v[i] /\ w[j] = s[new] /\ i \in 0 .. at - 1
        BY <1>6, <2>5, <3>2
      <4> QED BY <2>2, <4>1
    <3> QED BY <2>1, <2>5, <3>1, <3>2
  <2>6. CASE i = at /\ j > at
    <3>1. w[i] = s[new] /\ w[j] = v[j - 1] /\ j - 1 \in at .. pos - 1
      BY <1>6, <2>6
    <3>2. v[j - 1] >= s[new]
      BY <2>3, <3>1
    <3> QED BY <1>1, <3>1, <3>2
  <2>7. CASE i > at
    <3>1. w[i] = v[i - 1] /\ w[j] = v[j - 1] /\ i - 1 \in 0 .. pos - 1 /\ j - 1 \in 0 .. pos - 1
      BY <1>6, <2>1, <2>7
    <3> QED BY <2>1, <2>4, <3>1
  <2>8. CASE j < at
    <3>1. w[i] = v[i] /\ w[j] = v[j] /\ i \in 0 .. pos - 1 /\ j \in 0 .. pos - 1
      BY <1>6, <2>1, <2>8
    <3> QED BY <2>1, <2>4, <3>1
  <2>9. CASE i < at /\ j > at
    <3>1. w[i] = v[i] /\ w[j] = v[j - 1] /\ i \in 0 .. pos - 1 /\ j - 1 \in 0 .. pos - 1
      BY <1>6, <2>9
    <3> QED BY <2>4, <2>9, <3>1
  <2> QED BY <2>1, <2>5, <2>6, <2>7, <2>8, <2>9
<1>12. Inserts(h, f, v, s, k, pos, N, new)
  BY <1>4, <1>5, <1>7, <1>8, <1>9, <1>10, <1>11 DEF Inserts, w, a
<1> QED BY <1>12

\* A sample takes its place among those kept, and the one that leaves the array, or
\* stays out of it, is not below the last.
LEMMA add_sampleRanks ==
  ASSUME config \in Configs, values \in [0 .. config.kbest - 1 -> Int],
         samples \in Seq(Int), Ranked(values, samples, config.kbest),
         NEW x \in Int, add_sample(x)
  PROVE  Ranked(values', samples', config.kbest)
<1> DEFINE k == config.kbest
           n == Len(samples)
           m == KeptOf(samples, k)
           v == values
           s == samples'
<1>1. k \in Nat \ {0} /\ n \in Nat
  BY ConfigTypes
<1>2. /\ s = Append(samples, x) /\ s \in Seq(Int) /\ Len(s) = n + 1
      /\ s \in [1 .. n + 1 -> Int] /\ s[n + 1] = x
      /\ \A l \in 1 .. n : s[l] = samples[l] /\ s[l] \in Int /\ l \in 1 .. n + 1
  <2>1. s = Append(samples, x)
    BY DEF add_sample
  <2> HIDE DEF s
  <2>2. s \in Seq(Int) /\ Len(s) = n + 1 /\ s[n + 1] = x
    BY <2>1
  <2>3. \A l \in 1 .. n : s[l] = samples[l] /\ s[l] \in Int /\ l \in 1 .. n + 1
    BY <2>1
  <2>4. s \in [1 .. n + 1 -> Int]
    BY <2>2
  <2> QED BY <2>1, <2>2, <2>3, <2>4
<1>3. values' = IF n < k THEN Insert([v EXCEPT ![n] = x], n)
                ELSE IF x < v[k - 1] THEN Insert([v EXCEPT ![k - 1] = x], k - 1)
                ELSE v
  BY DEF add_sample
<1>4. v \in [0 .. k - 1 -> Int]
  OBVIOUS
<1>5. PICK f : Ranks(f, v, samples, k, m)
  BY DEF Ranked
<1>6. m = IF n < k THEN n ELSE k
  BY DEF KeptOf
<1>7. KeptOf(s, k) = IF n + 1 < k THEN n + 1 ELSE k
  BY <1>2 DEF KeptOf
<1>8. ASSUME NEW pos \in 0 .. k - 1, pos <= m
      PROVE  \E h : Inserts(h, f, v, s, k, pos, n + 1, n + 1)
  <2> HIDE DEF k, n, m, v, s
  <2> DEFINE g == [i \in 0 .. pos - 1 |-> f[i]]
             N == n + 1
  <2>1. m \in Nat /\ \A i \in 0 .. pos - 1 : i \in 0 .. m - 1
    BY <1>1, <1>6, <1>8
  <2>2. \A i \in 0 .. m - 1 : f[i] \in 1 .. n /\ v[i] = samples[f[i]]
    BY <1>5 DEF Ranks, n
  <2>3. \A i \in 0 .. pos - 1 : f[i] \in 1 .. N /\ v[i] = s[f[i]] /\ f[i] # N
    <3>1. SUFFICES ASSUME NEW i \in 0 .. pos - 1
                   PROVE  f[i] \in 1 .. N /\ v[i] = s[f[i]] /\ f[i] # N
      OBVIOUS
    <3>2. f[i] \in 1 .. n /\ v[i] = samples[f[i]]
      BY <2>1, <2>2
    <3>3. s[f[i]] = samples[f[i]]
      BY <1>2, <3>2
    <3> QED BY <1>1, <3>2, <3>3
  <2>4. g \in [0 .. pos - 1 -> 1 .. N]
    BY <2>3
  <2>5. \A i, j \in 0 .. pos - 1 : g[i] = g[j] => i = j
    BY <1>5, <2>1 DEF Ranks
  <2>6. \A i \in 0 .. pos - 1 : v[i] = s[g[i]] /\ g[i] # N
    BY <2>3
  <2>7. \A i, j \in 0 .. pos - 1 : i <= j => v[i] <= v[j]
    BY <1>5, <2>1 DEF Ranks
  <2>8. N \in Nat /\ N \in 1 .. N /\ s \in [1 .. N -> Int] /\ s[N] = x
    BY <1>1, <1>2
  <2>9. \A j \in 0 .. pos - 1 : g[j] = f[j]
    OBVIOUS
  <2> HIDE DEF g, N
  <2>10. PICK h : Inserts(h, g, v, s, k, pos, N, N)
    BY <1>1, <1>4, <2>4, <2>5, <2>6, <2>7, <2>8, InsertRanks
  <2>11. Inserts(h, f, v, s, k, pos, N, N)
    BY <2>9, <2>10 DEF Inserts
  <2> QED BY <2>11 DEF N
<1>9. CASE n < k
  <2> HIDE DEF k, n, m, v, s
  <2>1. n \in 0 .. k - 1 /\ n <= m /\ m = n /\ KeptOf(s, k) = n + 1
    BY <1>1, <1>6, <1>7, <1>9
  <2>2. PICK h : Inserts(h, f, v, s, k, n, n + 1, n + 1)
    BY <1>8, <2>1
  <2>3. \A l \in 1 .. n : \E j \in 0 .. n - 1 : f[j] = l
    <3>1. SUFFICES ASSUME NEW l \in 1 .. n PROVE \E j \in 0 .. n - 1 : f[j] = l
      OBVIOUS
    <3>2. (\E j \in 0 .. m - 1 : f[j] = l) \/ m = k
      BY <1>5, <3>1 DEF Ranks, n
    <3> QED BY <1>1, <1>9, <2>1, <3>2
  <2>4. \A l \in 1 .. n + 1 : \E i \in 0 .. n : h[i] = l
    <3>1. SUFFICES ASSUME NEW l \in 1 .. n + 1 PROVE \E i \in 0 .. n : h[i] = l
      OBVIOUS
    <3>2. l = n + 1 \/ l \in 1 .. n
      BY <1>1
    <3>3. \E i \in 0 .. n : h[i] = n + 1
      BY <2>2 DEF Inserts
    <3>4. \A j \in 0 .. n - 1 : \E i \in 0 .. n : h[i] = f[j]
      BY <2>2 DEF Inserts
    <3>5. CASE l \in 1 .. n
      <4>1. PICK j \in 0 .. n - 1 : f[j] = l
        BY <2>3, <3>5
      <4> QED BY <3>4, <4>1
    <3> QED BY <3>2, <3>3, <3>5
  <2>5. values' = Insert([v EXCEPT ![n] = x], n)
    BY <1>3, <1>9
  <2>6. (n + 1) - 1 = n
    BY <1>1
  <2>7. Ranks(h, values', s, k, n + 1)
    BY <1>2, <2>2, <2>4, <2>5, <2>6 DEF Ranks, Inserts
  <2> QED BY <2>1, <2>7 DEF Ranked, k, s
<1>10. CASE ~ (n < k) /\ x < v[k - 1]
  <2> HIDE DEF k, n, m, v, s
  <2>1. m = k /\ k - 1 \in 0 .. k - 1 /\ k - 1 <= m /\ KeptOf(s, k) = k
    BY <1>1, <1>6, <1>7, <1>10
  <2> DEFINE last == k - 1
  <2>2. PICK h : Inserts(h, f, v, s, k, last, n + 1, n + 1)
    BY <1>8, <2>1
  <2>3. values' = Insert([v EXCEPT ![last] = x], last)
    BY <1>3, <1>10
  <2>4. /\ values'[last] \in Int /\ v[last] \in Int
        /\ values'[last] <= v[last]
    <3>1. values'[last] \in Int /\ v[last] \in Int
      <4>1. last \in 0 .. k - 1 /\ s[n + 1] = x
        BY <1>2, <2>1
      <4>2. values' \in [0 .. k - 1 -> Int]
        BY <2>2, <2>3, <4>1 DEF Inserts
      <4> QED BY <1>4, <4>1, <4>2
    <3>2. h[last] \in 1 .. n + 1 /\ values'[last] = s[h[last]]
      <4>1. last \in 0 .. last /\ s[n + 1] = x
        BY <1>1, <1>2, <2>1
      <4> QED BY <2>2, <2>3, <4>1 DEF Inserts
    <3>3. CASE h[last] = n + 1
      BY <1>2, <1>10, <3>1, <3>2, <3>3
    <3>4. CASE h[last] # n + 1
      <4>1. CASE \E j \in 0 .. last : h[last] = f[j]
        <5>1. PICK j \in 0 .. last : h[last] = f[j]
          BY <4>1
        <5>2. f[j] \in 1 .. n /\ samples[f[j]] = v[j] /\ v[j] <= v[last]
          BY <1>1, <1>5, <2>1, <5>1 DEF Ranks, n
        <5> QED BY <1>2, <3>1, <3>2, <5>1, <5>2
      <4>2. CASE ~ \E j \in 0 .. last : h[last] = f[j]
        \* The places below the last have no room for another.
        <5>1. \A j \in 0 .. last - 1 : \E i \in 0 .. last : i # last /\ h[i] = f[j]
          <6>1. SUFFICES ASSUME NEW j \in 0 .. last - 1
                         PROVE  \E i \in 0 .. last : i # last /\ h[i] = f[j]
            OBVIOUS
          <6>2. PICK i \in 0 .. last : h[i] = f[j]
            BY <2>2 DEF Inserts
          <6>3. j \in 0 .. last
            BY <2>1
          <6> QED BY <4>2, <6>2, <6>3
        <5>2. PICK q \in 0 .. last : h[q] = n + 1
          BY <2>2 DEF Inserts
        <5>3. q \in 0 .. last - 1
          BY <3>4, <5>2, <2>1
        <5> DEFINE A == (0 .. last - 1) \ {q}
                   G == [j \in 0 .. last - 1 |->
                           CHOOSE i \in 0 .. last - 1 : h[i] = f[j]]
        <5>4. \A j \in 0 .. last - 1 : G[j] \in 0 .. last - 1 /\ h[G[j]] = f[j]
          <6>1. \A j \in 0 .. last - 1 : \E i \in 0 .. last - 1 : h[i] = f[j]
            BY <5>1, <2>1
          <6> QED BY <6>1
        <5>5. \A j \in 0 .. last - 1 : f[j] \in 1 .. n
          BY <1>5, <2>1, <1>1 DEF Ranks, n
        <5> HIDE DEF G, A
        <5>6. \A j \in 0 .. last - 1 : G[j] \in A
          <6>1. SUFFICES ASSUME NEW j \in 0 .. last - 1 PROVE G[j] # q
            BY <5>4 DEF A
          <6>2. h[G[j]] \in 1 .. n /\ h[q] = n + 1
            BY <5>2, <5>4, <5>5
          <6> QED BY <1>1, <6>2
        <5>7. \A i, j \in 0 .. last - 1 : f[i] = f[j] => i = j
          BY <1>5, <2>1, <1>1 DEF Ranks
        <5>8. \A i, j \in 0 .. last - 1 : G[i] = G[j] => i = j
          BY <5>4, <5>7
        <5>9. IsFiniteSet(0 .. last - 1)
          <6>1. 0 \in Int /\ last - 1 \in Int
            BY <2>1
          <6> QED BY <6>1, FS_Interval
        <5>10. /\ IsFiniteSet(A) /\ Cardinality(A) = Cardinality(0 .. last - 1) - 1
          BY <5>3, <5>9, FS_RemoveElement DEF A
        <5>11. Cardinality(0 .. last - 1) \in Nat /\ Cardinality(A) < Cardinality(0 .. last - 1)
          BY <5>9, <5>10, FS_CardinalityType
        <5>12. G \in [0 .. last - 1 -> A]
          BY <5>6 DEF G
        <5>13. \E i, j \in 0 .. last - 1 : i # j /\ G[i] = G[j]
          BY <5>9, <5>10, <5>11, <5>12, FS_PigeonHole
        <5> QED BY <5>8, <5>13
      <4> QED BY <4>1, <4>2
    <3> QED BY <3>3, <3>4
  <2>5. \A l \in 1 .. n + 1 : (\E i \in 0 .. last : h[i] = l) \/ values'[last] <= s[l]
    <3>1. SUFFICES ASSUME NEW l \in 1 .. n + 1, ~ \E i \in 0 .. last : h[i] = l
                   PROVE  values'[last] <= s[l]
      OBVIOUS
    <3>2. l # n + 1 /\ l \in 1 .. n
      BY <1>1, <2>2, <3>1 DEF Inserts
    <3>3. (\E j \in 0 .. m - 1 : f[j] = l) \/ v[k - 1] <= samples[l]
      BY <1>5, <3>2 DEF Ranks, n
    <3>4. CASE v[k - 1] <= samples[l]
      BY <1>2, <2>4, <3>2, <3>4
    <3>5. CASE \E j \in 0 .. m - 1 : f[j] = l
      <4>1. PICK j \in 0 .. m - 1 : f[j] = l
        BY <3>5
      <4>2. j = last
        <5>1. \A q \in 0 .. last - 1 : \E i \in 0 .. last : h[i] = f[q]
          BY <2>2 DEF Inserts
        <5>2. j \notin 0 .. last - 1
          BY <3>1, <4>1, <5>1
        <5> QED BY <1>1, <2>1, <5>2
      <4>3. v[last] = samples[l]
        BY <1>5, <4>1, <4>2 DEF Ranks
      <4> QED BY <1>2, <2>4, <3>2, <4>3
    <3> QED BY <3>3, <3>4, <3>5
  <2>6. Ranks(h, values', s, k, k)
    BY <1>2, <2>1, <2>2, <2>3, <2>5 DEF Ranks, Inserts
  <2> QED BY <2>1, <2>6 DEF Ranked, k, s
<1>11. CASE ~ (n < k) /\ ~ (x < v[k - 1])
  <2> HIDE DEF k, n, m, v, s
  <2>1. m = k /\ KeptOf(s, k) = k /\ values' = v /\ v[k - 1] \in Int /\ v[k - 1] <= x
    BY <1>1, <1>3, <1>4, <1>6, <1>7, <1>11
  <2>2. f \in [0 .. k - 1 -> 1 .. n + 1]
    BY <1>1, <1>5, <2>1 DEF Ranks, n
  <2>3. \A i \in 0 .. k - 1 : f[i] \in 1 .. n /\ v[i] = s[f[i]]
    BY <1>2, <1>5, <2>1 DEF Ranks, n
  <2>4. \A l \in 1 .. n + 1 : (\E i \in 0 .. k - 1 : f[i] = l) \/ v[k - 1] <= s[l]
    <3>1. SUFFICES ASSUME NEW l \in 1 .. n + 1
                   PROVE  (\E i \in 0 .. k - 1 : f[i] = l) \/ v[k - 1] <= s[l]
      OBVIOUS
    <3>2. CASE l = n + 1
      BY <1>2, <2>1, <3>2
    <3>3. CASE l # n + 1
      <4>1. l \in 1 .. n
        BY <1>1, <3>3
      <4>2. (\E j \in 0 .. k - 1 : f[j] = l) \/ v[k - 1] <= samples[l]
        BY <1>5, <2>1, <4>1 DEF Ranks, n
      <4> QED BY <1>2, <4>1, <4>2
    <3> QED BY <3>2, <3>3
  <2>5. Ranks(f, values', s, k, k)
    BY <1>2, <1>5, <2>1, <2>2, <2>3, <2>4 DEF Ranks
  <2> QED BY <2>1, <2>5 DEF Ranked, k, s
<1> QED BY <1>9, <1>10, <1>11

RankedInv == Sampling => Ranked(values, samples, config.kbest)

LEMMA RankedStep ==
  ASSUME TypeOK, RankedInv, [Next]_vars
  PROVE  RankedInv'
<1>1. ASSUME UNCHANGED sampler, Sampling' => Sampling
      PROVE  RankedInv'
  BY <1>1 DEF RankedInv, sampler
<1>2. CASE UNCHANGED vars
  BY <1>1, <1>2 DEF vars, Sampling
<1>3. CASE Setters
  <2>1. ~ Sampling'
    BY <1>3 DEF Setters, set_fcyc_clear_cache, set_fcyc_cache_size, set_fcyc_cache_block,
       set_fcyc_compensate, set_fcyc_k, set_fcyc_maxsamples, set_fcyc_epsilon, Set, Sampling
  <2> QED BY <2>1 DEF RankedInv
<1>4. CASE fcyc
  <2>1. /\ samples' = <<>> /\ config' = config
        /\ values' = [j \in 0 .. config.kbest - 1 |-> 0]
    BY <1>4 DEF fcyc, init_sampler
  <2>2. config.kbest \in Nat \ {0} /\ Len(<<>>) = 0
    BY ConfigTypes DEF TypeOK
  <2> DEFINE k == config.kbest
             f == [j \in 0 .. 0 - 1 |-> 1]
  <2>3. KeptOf(<<>>, k) = 0
    BY <2>2 DEF KeptOf
  <2>4. Ranks(f, values', <<>>, k, 0)
    <3>1. \A j : j \notin 0 .. 0 - 1 /\ j \notin 1 .. Len(<<>>)
      BY <2>2
    <3> QED BY <3>1 DEF Ranks
  <2> HIDE DEF f
  <2>5. Ranked(values', <<>>, k)
    BY <2>3, <2>4 DEF Ranked
  <2> QED BY <2>1, <2>5 DEF RankedInv
<1>5. CASE Tick
  BY <1>1, <1>5 DEF Tick, Sampling
<1>6. CASE Program
  <2>1. CASE Loop
    <3>1. Sampling /\ UNCHANGED <<config, values, samples>>
      BY <2>1 DEF Loop, Sampling
    <3> QED BY <3>1 DEF RankedInv
  <2>2. CASE StartTick
    BY <1>1, <2>2 DEF StartTick, Goes, Sampling
  <2>3. CASE StartCounter
    BY <1>1, <2>3 DEF StartCounter, start_counter, Sampling
  <2>4. CASE Runs
    BY <1>1, <2>4 DEF Runs, Goes, Sampling
  <2>5. CASE GetCounter
    BY <1>1, <2>5 DEF GetCounter, Sampling
  <2>6. CASE GetTicks
    BY <1>1, <2>6 DEF GetTicks, Goes, Sampling
  <2>7. CASE AddSample
    <3>1. Sampling /\ add_sample(val) /\ config' = config
      BY <2>7 DEF AddSample, Sampling
    <3>2. /\ config \in Configs /\ values \in [0 .. config.kbest - 1 -> Int]
          /\ samples \in Seq(Int) /\ val \in Int
      BY <3>1 DEF TypeOK
    <3>3. Ranked(values', samples', config.kbest)
      BY <3>1, <3>2, add_sampleRanks DEF RankedInv
    <3> QED BY <3>1, <3>3 DEF RankedInv
  <2>8. CASE Return
    BY <2>8 DEF Return, Goes, Sampling, RankedInv
  <2>9. CASE Callibrate
    BY <1>1, <2>9 DEF Callibrate, Goes, Sampling
  <2>10. CASE CalStart
    BY <1>1, <2>10 DEF CalStart, start_counter, Sampling
  <2>11. CASE CalOldt
    BY <1>1, <2>11 DEF CalOldt, Goes, Sampling
  <2>12. CASE CalWaits
    BY <1>1, <2>12 DEF CalWaits, Goes, Sampling
  <2>13. CASE CalEvent
    BY <1>1, <2>13 DEF CalEvent, Goes, Sampling
  <2>14. CASE CalTicks
    BY <1>1, <2>14 DEF CalTicks, Goes, Sampling
  <2>15. CASE CalEnds
    BY <1>1, <2>15 DEF CalEnds, Goes, Sampling
  <2> QED
    BY <1>6, <2>1, <2>2, <2>3, <2>4, <2>5, <2>6, <2>7, <2>8, <2>9, <2>10, <2>11, <2>12,
       <2>13, <2>14, <2>15 DEF Program
<1> QED
  BY <1>2, <1>3, <1>4, <1>5, <1>6 DEF Next

\* However the samples come, the array holds the smallest of them in order, and the
\* value that fcyc returns is the least (fcyc.c:67-88).
THEOREM BestAreKept == Spec => []KBest
<1>1. Init => RankedInv
  BY DEF Init, RankedInv, Sampling
<1>2. TypeOK /\ RankedInv => KBest
  <2>1. SUFFICES ASSUME TypeOK, RankedInv, Sampling, NEW j \in 0 .. Kept - 1
                 PROVE  /\ Cardinality({n \in DOMAIN samples : samples[n] < values[j]}) <= j
                        /\ Cardinality({n \in DOMAIN samples : samples[n] <= values[j]}) > j
    BY DEF KBest
  <2>2. /\ config.kbest \in Nat \ {0} /\ samples \in Seq(Int)
        /\ values \in [0 .. config.kbest - 1 -> Int]
        /\ Ranked(values, samples, config.kbest)
        /\ j \in 0 .. KeptOf(samples, config.kbest) - 1
    BY <2>1, ConfigTypes DEF TypeOK, RankedInv, Kept, KeptOf
  <2> QED BY <2>2, RankedCounts
<1>3. Spec => []TypeOK
  BY TypeCorrect
<1>4. TypeOK /\ RankedInv /\ [Next]_vars => RankedInv'
  BY RankedStep
<1> QED BY <1>1, <1>2, <1>3, <1>4, PTL DEF Spec

-----------------------------------------------------------------------------
(* Compensated times *)

\* What measurements may last, in cycles: of a function, and of a calibration.
LongestRun == MaxWork + Cost * (MaxWork + 1)
LongestCal == (MaxGap + Cost) * (NEVENT + 1) + MaxGap

\* The counter does not come back to where it was in n cycles.
Fits(n) ==
  \A c \in Configs, b \in Starts :
    c.compensate => IF c.machine = "alpha" THEN (b % Base) + n < Base ELSE n < Base * Base

\* The constants of callibrate (clock.c:208-211), of which THRESHOLD is the smallest,
\* are far below the cost of an interrupt and the time between two; and what is timed
\* is short enough for the counter.
TimerAssumption ==
  /\ THRESHOLD <= RECORDTHRESH /\ THRESHOLD <= Cost /\ THRESHOLD < MinGap
  /\ Fits(LongestRun) /\ Fits(LongestCal)

\* Without a cycle of the program there is one interrupt at most.
AtMostOneTick == ticks = 0 \/ (ticks = 1 /\ sinceTick = 0)

\* What has been recorded is the cost of one interrupt and at most THRESHOLD cycles.
RecordedInv == cyc_per_tick = 0 \/ cyc_per_tick \in Cost .. Cost + THRESHOLD

PlacesInv ==
  /\ pc \in {"start_comp", "get_comp", "callibrate", "cal_start", "cal_oldt", "cal",
             "cal_times"} => config.compensate
  /\ Started => began \in Starts
  /\ pc = "cal_start" => e = 0
  /\ pc \in {"cal_oldt", "cal", "cal_times"} =>
       /\ e <= NEVENT /\ (pc = "cal_times" => e < NEVENT)
       /\ elapsed <= (MaxGap + Cost) * (e + ticks) + sinceTick

\* The time of f: its own cycles, and the cost of the interrupts that are counted but
\* for one before the counter was started and one after it was read.
RunInv ==
  config.compensate =>
    /\ pc = "start" => AtMostOneTick
    /\ pc = "f" =>
         /\ work <= MaxWork
         /\ ticks = 0 \/ ticks - 1 <= work - sinceTick
         /\ \/ elapsed = work + Cost * ticks
            \/ ticks >= 1 /\ elapsed = work + Cost * (ticks - 1)
    /\ pc = "get_comp" =>
         \E m \in 0 .. ticks :
           /\ val = work + Cost * m
           /\ ticks <= m + 1 \/ (ticks = m + 2 /\ sinceTick = 0)
    /\ pc = "add" /\ cyc_per_tick # 0 =>
         /\ val <= work
         /\ val >= work - ticks * THRESHOLD - 2 * cyc_per_tick

\* An interval of callibrate: with no interrupt it is THRESHOLD cycles long, with one
\* in it longer by its cost.  One before it or after it may be counted with it, and is
\* not recorded; the next interval then begins with its cost.
CalInv ==
  /\ pc = "cal_start" => AtMostOneTick
  /\ pc = "cal_oldt" => AtMostOneTick /\ (elapsed = 0 \/ (elapsed = Cost /\ ticks = 1))
  /\ pc = "cal" =>
       \/ ticks = 0 /\ elapsed - oldt \in 0 .. THRESHOLD
       \/ ticks = 0 /\ elapsed - oldt = Cost /\ sinceTick = 0
       \/ ticks = 1 /\ elapsed - oldt = sinceTick /\ sinceTick <= THRESHOLD
       \/ ticks = 1 /\ elapsed - oldt \in Cost .. Cost + THRESHOLD /\ sinceTick = 0
  /\ pc = "cal_times" =>
       \/ /\ ticks = 0 /\ elapsed = newt
          /\ newt - oldt <= THRESHOLD \/ sinceTick = 0
       \/ /\ ticks = 1 /\ elapsed = newt
          /\ newt - oldt <= THRESHOLD /\ sinceTick <= THRESHOLD
       \/ /\ ticks = 1 /\ elapsed = newt
          /\ newt - oldt \in Cost .. Cost + THRESHOLD /\ sinceTick = 0
       \/ /\ ticks = 1 /\ elapsed = newt + Cost /\ sinceTick = 0
          /\ newt - oldt <= THRESHOLD

CompInv == RecordedInv /\ PlacesInv /\ RunInv /\ CalInv

LEMMA TimesMonotone ==
  ASSUME NEW a \in Int, NEW b \in Int, NEW c \in Nat, a <= b
  PROVE  c * a \in Int /\ c * b \in Int /\ c * a <= c * b
  OBVIOUS

LEMMA CompTypes ==
  /\ Cost \in Nat /\ THRESHOLD \in Nat /\ MinGap \in Nat /\ MaxGap \in Nat
  /\ NEVENT \in Nat /\ MaxWork \in Nat /\ RECORDTHRESH \in Nat
  /\ MinGap >= 1 /\ THRESHOLD >= 1
  BY FcycAssumption

\* While no measurement is longer than the counter, readings are exact.
LEMMA ExactIn ==
  ASSUME TypeOK, ReadingIInv, PlacesInv, Started, config.compensate,
         NEW n \in Nat, Fits(n), elapsed <= n
  PROVE  Reading = elapsed
<1>1. config \in Configs /\ began \in Starts /\ elapsed \in Nat /\ began \in Nat
  BY DEF TypeOK, PlacesInv
<1>2. IF config.machine = "alpha" THEN (began % Base) + n < Base ELSE n < Base * Base
  BY <1>1 DEF Fits
<1>3. InRange
  <2>1. CASE config.machine = "alpha"
    <3>1. began % Base \in 0 .. Base - 1
      BY <1>1, Parts
    <3> QED BY <1>1, <1>2, <2>1, <3>1 DEF InRange
  <2>2. CASE config.machine # "alpha"
    <3> DEFINE B == Base * Base
    <3>1. B \in Int /\ n < B
      BY <1>2, <2>2
    <3> HIDE DEF B
    <3>2. elapsed < B
      BY <1>1, <3>1
    <3> QED BY <2>2, <3>2 DEF InRange, B
  <2> QED BY <2>1, <2>2
<1> QED BY <1>3, ReadingCorrect DEF ReadingExact

\* The function that is timed does not run longer than LongestRun.
LEMMA RunIsShort ==
  ASSUME TypeOK, RunInv, config.compensate, pc = "f"
  PROVE  LongestRun \in Nat /\ elapsed <= LongestRun
<1>1. /\ work \in Nat /\ ticks \in Nat /\ sinceTick \in Nat /\ elapsed \in Nat
      /\ work <= MaxWork
      /\ ticks = 0 \/ ticks - 1 <= work - sinceTick
      /\ \/ elapsed = work + Cost * ticks
         \/ ticks >= 1 /\ elapsed = work + Cost * (ticks - 1)
  BY DEF TypeOK, RunInv
<1>2. ticks \in Int /\ ticks - 1 \in Int /\ MaxWork + 1 \in Int
      /\ ticks <= MaxWork + 1 /\ ticks - 1 <= MaxWork + 1
  BY <1>1, CompTypes
<1>3. Cost * ticks <= Cost * (MaxWork + 1) /\ Cost * (ticks - 1) <= Cost * (MaxWork + 1)
  BY <1>2, CompTypes, TimesMonotone
<1> DEFINE x == Cost * ticks
           y == Cost * (ticks - 1)
           z == Cost * (MaxWork + 1)
<1>4. x \in Int /\ y \in Int /\ z \in Nat
  BY <1>2, CompTypes
<1>5. x <= z /\ y <= z /\ (elapsed = work + x \/ elapsed = work + y)
  BY <1>1, <1>3
<1> HIDE DEF x, y, z
<1>6. MaxWork + z \in Nat /\ elapsed <= MaxWork + z
  BY <1>1, <1>4, <1>5, CompTypes
<1> QED BY <1>6 DEF LongestRun, z

\* A calibration does not last longer than LongestCal.
LEMMA CalIsShort ==
  ASSUME TypeOK, PlacesInv, CalInv, pc \in {"cal_oldt", "cal"}
  PROVE  LongestCal \in Nat /\ elapsed <= LongestCal
<1>1. /\ e \in Nat /\ e <= NEVENT /\ ticks \in Nat /\ ticks <= 1
      /\ sinceTick \in Nat /\ sinceTick <= MaxGap /\ elapsed \in Nat
      /\ elapsed <= (MaxGap + Cost) * (e + ticks) + sinceTick
  BY DEF TypeOK, PlacesInv, CalInv, AtMostOneTick
<1> DEFINE K == MaxGap + Cost
           a == e + ticks
           b == NEVENT + 1
<1>2. K \in Nat /\ a \in Int /\ b \in Int /\ a <= b
  BY <1>1, CompTypes
<1>3. elapsed <= K * a + sinceTick
  BY <1>1
<1> HIDE DEF K, a, b
<1>4. K * a \in Int /\ K * b \in Int /\ K * a <= K * b
  BY <1>2, TimesMonotone
<1> DEFINE x == K * a
           y == K * b
<1>5. y \in Nat
  <2>1. 0 \in Int /\ 0 <= b /\ K * 0 = 0
    BY <1>2, CompTypes DEF b
  <2>2. K * 0 <= K * b
    BY <1>2, <2>1, TimesMonotone
  <2> QED BY <1>4, <2>1, <2>2
<1>6. x \in Int /\ x <= y /\ elapsed <= x + sinceTick
  BY <1>3, <1>4
<1> HIDE DEF x, y
<1>7. y + MaxGap \in Nat /\ elapsed <= y + MaxGap
  BY <1>1, <1>5, <1>6, CompTypes
<1> QED BY <1>7 DEF LongestCal, y, K, b

\* One interrupt more may end an interval of sinceTick cycles.
LEMMA TickElapses ==
  ASSUME TypeOK, NEW n \in Nat, elapsed <= (MaxGap + Cost) * n + sinceTick
  PROVE  elapsed + Cost <= (MaxGap + Cost) * (n + 1) + 0
<1> DEFINE K == MaxGap + Cost
           x == K * n
<1>1. K \in Nat /\ x \in Int /\ K * (n + 1) = x + K
  BY CompTypes
<1>2. elapsed \in Nat /\ sinceTick \in Nat /\ sinceTick <= MaxGap /\ elapsed <= x + sinceTick
  BY DEF TypeOK
<1> HIDE DEF x
<1>3. elapsed + Cost <= x + K
  BY <1>1, <1>2, CompTypes
<1> QED BY <1>1, <1>3

LEMMA TickComp ==
  ASSUME TimerAssumption, TypeOK, CompInv, Tick
  PROVE  CompInv'
<1>0. /\ pc \in Places /\ val \in Int /\ {cyc_per_tick, oldt, newt, e} \subseteq Nat
      /\ {began, elapsed, work, ticks} \subseteq Nat /\ sinceTick \in Nat
      /\ THRESHOLD < MinGap
  BY DEF TypeOK, TimerAssumption
<1>1. /\ pc' = pc /\ sinceTick >= MinGap /\ sinceTick' = 0 /\ elapsed' = elapsed + Cost
      /\ ticks' = IF config.compensate THEN ticks + 1 ELSE ticks
      /\ config' = config /\ val' = val /\ began' = began /\ work' = work
      /\ cyc_per_tick' = cyc_per_tick /\ oldt' = oldt /\ newt' = newt /\ e' = e
  BY DEF Tick, sampler, cal
<1>2. RecordedInv'
  BY <1>1 DEF CompInv, RecordedInv
<1>3. PlacesInv'
  <2>1. CASE pc \in {"cal_oldt", "cal", "cal_times"}
    <3> DEFINE n == e + ticks
    <3>1. /\ elapsed <= (MaxGap + Cost) * n + sinceTick /\ n \in Nat
          /\ config.compensate
      BY <1>0, <2>1 DEF CompInv, PlacesInv
    <3>2. e + (ticks + 1) = n + 1
      BY <1>0
    <3> HIDE DEF n
    <3>3. elapsed + Cost <= (MaxGap + Cost) * (n + 1) + 0
      BY <3>1, TickElapses
    <3>4. elapsed' <= (MaxGap + Cost) * (e' + ticks') + sinceTick'
      BY <1>1, <3>1, <3>2, <3>3
    <3> QED BY <1>1, <2>1, <3>4 DEF CompInv, PlacesInv, Started
  <2>2. CASE pc \notin {"cal_oldt", "cal", "cal_times"}
    BY <1>1, <2>2 DEF CompInv, PlacesInv, Started
  <2> QED BY <2>1, <2>2
<1>4. RunInv'
  <2>1. SUFFICES ASSUME config.compensate
                 PROVE  RunInv'
    BY <1>1 DEF RunInv
  <2>2. ticks' = ticks + 1
    BY <1>1, <2>1
  <2>3. CASE pc = "start"
    <3>1. AtMostOneTick'
      BY <1>0, <1>1, <2>1, <2>2, <2>3, CompTypes DEF CompInv, RunInv, AtMostOneTick
    <3> QED BY <1>1, <2>3, <3>1 DEF RunInv
  <2>4. CASE pc = "f"
    <3>1. /\ work <= MaxWork
          /\ ticks = 0 \/ ticks - 1 <= work - sinceTick
          /\ \/ elapsed = work + Cost * ticks
             \/ ticks >= 1 /\ elapsed = work + Cost * (ticks - 1)
      BY <2>1, <2>4 DEF CompInv, RunInv
    <3>2. (ticks + 1) - 1 <= work - 0
      BY <1>0, <1>1, <3>1, CompTypes
    <3>3. Cost * (ticks + 1) = Cost * ticks + Cost /\ Cost * ((ticks + 1) - 1) = Cost * ticks
          /\ Cost * ticks = Cost * (ticks - 1) + Cost /\ Cost * ticks \in Int
      BY <1>0, CompTypes
    <3>4. \/ elapsed + Cost = work + Cost * (ticks + 1)
          \/ ticks + 1 >= 1 /\ elapsed + Cost = work + Cost * ((ticks + 1) - 1)
      <4>1. CASE elapsed = work + Cost * ticks
        BY <1>0, <3>3, <4>1, CompTypes
      <4>2. CASE elapsed = work + Cost * (ticks - 1)
        <5>1. Cost * (ticks - 1) \in Int
          BY <1>0, CompTypes
        <5> QED BY <1>0, <3>3, <4>2, <5>1, CompTypes
      <4> QED BY <3>1, <4>1, <4>2
    <3>5. (/\ work <= MaxWork
           /\ ticks = 0 \/ ticks - 1 <= work - sinceTick
           /\ \/ elapsed = work + Cost * ticks
              \/ ticks >= 1 /\ elapsed = work + Cost * (ticks - 1))'
      BY <1>1, <2>2, <3>1, <3>2, <3>4
    <3> QED BY <1>1, <2>4, <3>5 DEF RunInv
  <2>5. CASE pc = "get_comp"
    <3>1. PICK m \in 0 .. ticks :
            /\ val = work + Cost * m
            /\ ticks <= m + 1 \/ (ticks = m + 2 /\ sinceTick = 0)
      BY <2>1, <2>5 DEF CompInv, RunInv
    <3>2. m \in 0 .. ticks' /\ val' = work' + Cost * m
      BY <1>0, <1>1, <2>2, <3>1
    <3>3. ticks' <= m + 1 \/ (ticks' = m + 2 /\ sinceTick' = 0)
      BY <1>0, <1>1, <2>2, <3>1, CompTypes
    <3>4. (\E l \in 0 .. ticks :
             /\ val = work + Cost * l
             /\ ticks <= l + 1 \/ (ticks = l + 2 /\ sinceTick = 0))'
      BY <3>2, <3>3
    <3> QED BY <1>1, <2>5, <3>4 DEF RunInv
  <2>6. CASE pc = "add"
    <3>1. SUFFICES ASSUME cyc_per_tick # 0
                   PROVE  val <= work /\ val >= work - (ticks + 1) * THRESHOLD - 2 * cyc_per_tick
      BY <1>1, <2>2, <2>6 DEF RunInv
    <3> DEFINE x == ticks * THRESHOLD
    <3>2. x \in Int /\ (ticks + 1) * THRESHOLD = x + THRESHOLD
      BY <1>0, CompTypes
    <3>3. val <= work /\ val >= work - x - 2 * cyc_per_tick
      BY <2>1, <2>6, <3>1 DEF CompInv, RunInv
    <3> HIDE DEF x
    <3> QED BY <1>0, <3>2, <3>3, CompTypes
  <2>7. CASE pc \notin {"start", "f", "get_comp", "add"}
    BY <1>1, <2>7 DEF RunInv
  <2> QED BY <2>3, <2>4, <2>5, <2>6, <2>7
<1>5. CalInv'
  <2>1. CASE pc \in {"cal_start", "cal_oldt"}
    <3>1. config.compensate /\ ticks' = ticks + 1
      BY <1>1, <2>1 DEF CompInv, PlacesInv
    <3>2. ticks = 0
      BY <1>0, <1>1, <2>1, CompTypes DEF CompInv, CalInv, AtMostOneTick
    <3>3. AtMostOneTick'
      BY <1>1, <3>1, <3>2 DEF AtMostOneTick
    <3>4. pc = "cal_oldt" => elapsed = 0
      BY <1>0, <3>2, <2>1 DEF CompInv, CalInv
    <3>5. pc = "cal_oldt" => elapsed' = Cost /\ ticks' = 1
      BY <1>0, <1>1, <3>1, <3>2, <3>4, CompTypes
    <3> QED BY <1>1, <2>1, <3>3, <3>5 DEF CalInv
  <2>2. CASE pc = "cal"
    <3>1. config.compensate /\ ticks' = ticks + 1
      BY <1>1, <2>2 DEF CompInv, PlacesInv
    <3>2. ticks = 0 /\ elapsed - oldt \in 0 .. THRESHOLD
      BY <1>0, <1>1, <2>2, CompTypes DEF CompInv, CalInv
    <3>3. ticks' = 1 /\ elapsed' - oldt' \in Cost .. Cost + THRESHOLD /\ sinceTick' = 0
      BY <1>0, <1>1, <3>1, <3>2, CompTypes
    <3> QED BY <1>1, <2>2, <3>3 DEF CalInv
  <2>3. CASE pc = "cal_times"
    <3>1. config.compensate /\ ticks' = ticks + 1
      BY <1>1, <2>3 DEF CompInv, PlacesInv
    <3>2. ticks = 0 /\ elapsed = newt /\ newt - oldt <= THRESHOLD
      BY <1>0, <1>1, <2>3, CompTypes DEF CompInv, CalInv
    <3>3. ticks' = 1 /\ elapsed' = newt' + Cost /\ sinceTick' = 0 /\ newt' - oldt' <= THRESHOLD
      BY <1>0, <1>1, <3>1, <3>2, CompTypes
    <3> QED BY <1>1, <2>3, <3>3 DEF CalInv
  <2>4. CASE pc \notin {"cal_start", "cal_oldt", "cal", "cal_times"}
    BY <1>1, <2>4 DEF CalInv
  <2> QED BY <2>1, <2>2, <2>3, <2>4
<1> QED BY <1>2, <1>3, <1>4, <1>5 DEF CompInv

\* The halves of get_comp_counter: what f took, and the ticks taken off.
LEMMA RunComp ==
  ASSUME TimerAssumption, TypeOK, ReadingIInv, CompInv, GetCounter \/ GetTicks
  PROVE  RunInv'
<1>0. /\ val \in Int /\ cyc_per_tick \in Nat /\ {elapsed, work, ticks} \subseteq Nat
      /\ sinceTick \in Nat
  BY DEF TypeOK
<1>1. SUFFICES ASSUME config.compensate PROVE RunInv'
  BY DEF GetCounter, GetTicks, sampler, RunInv
<1>2. CASE GetCounter
  <2>1. /\ pc = "f" /\ pc' = "get_comp" /\ val' = Reading
        /\ UNCHANGED <<sampler, clock>>
    BY <1>1, <1>2 DEF GetCounter
  <2>2. Started /\ LongestRun \in Nat /\ elapsed <= LongestRun /\ Fits(LongestRun)
    BY <1>1, <2>1, RunIsShort DEF CompInv, Started, TimerAssumption
  <2>3. val' = elapsed
    BY <1>1, <2>1, <2>2, ExactIn DEF CompInv
  <2>4. \E m \in 0 .. ticks : elapsed = work + Cost * m /\ ticks <= m + 1
    <3>1. CASE elapsed = work + Cost * ticks
      BY <1>0, <3>1
    <3>2. CASE ticks >= 1 /\ elapsed = work + Cost * (ticks - 1)
      <4>1. ticks - 1 \in 0 .. ticks /\ ticks <= (ticks - 1) + 1
        BY <1>0, <3>2
      <4> QED BY <3>2, <4>1
    <3> QED BY <1>1, <2>1, <3>1, <3>2 DEF CompInv, RunInv
  <2>5. (\E m \in 0 .. ticks :
           /\ val = work + Cost * m
           /\ ticks <= m + 1 \/ (ticks = m + 2 /\ sinceTick = 0))'
    BY <2>1, <2>3, <2>4 DEF clock
  <2> QED BY <2>1, <2>5 DEF RunInv
<1>3. CASE GetTicks
  <2>1. /\ pc = "get_comp" /\ pc' = "add" /\ val' = val - ticks * cyc_per_tick
        /\ UNCHANGED <<sampler, cal, clock>>
    BY <1>3 DEF GetTicks, Goes
  <2>2. SUFFICES ASSUME cyc_per_tick # 0
                 PROVE  val' <= work /\ val' >= work - ticks * THRESHOLD - 2 * cyc_per_tick
    BY <2>1 DEF RunInv, cal, clock
  <2>3. PICK m \in 0 .. ticks :
          val = work + Cost * m /\ ticks <= m + 2
    <3>1. PICK m \in 0 .. ticks :
            /\ val = work + Cost * m
            /\ ticks <= m + 1 \/ (ticks = m + 2 /\ sinceTick = 0)
      BY <1>1, <2>1 DEF CompInv, RunInv
    <3>2. ticks <= m + 2
      BY <1>0, <3>1
    <3> QED BY <3>1, <3>2
  <2>4. cyc_per_tick \in Nat /\ Cost <= cyc_per_tick /\ cyc_per_tick <= Cost + THRESHOLD
    BY <1>0, <2>2 DEF CompInv, RecordedInv
  <2> DEFINE c == cyc_per_tick
             r == ticks - m
  <2>5. m \in Nat /\ r \in 0 .. 2 /\ ticks = m + r
    BY <1>0, <2>3
  <2> HIDE DEF r
  <2>6. ticks * c = m * c + r * c /\ m * c \in Int /\ r * c \in Int
    BY <2>4, <2>5
  \* The ticks in the measurement are taken off with their cost or more.
  <2>7. m * Cost \in Int /\ m * Cost <= m * c
    BY <2>4, <2>5, CompTypes, TimesMonotone
  <2>8. m * c <= m * Cost + m * THRESHOLD /\ m * THRESHOLD \in Int
    <3>1. m * c <= m * (Cost + THRESHOLD)
      BY <2>4, <2>5, CompTypes, TimesMonotone
    <3>2. m * (Cost + THRESHOLD) = m * Cost + m * THRESHOLD
      BY <2>5, CompTypes
    <3> QED BY <2>5, <3>1, <3>2, CompTypes
  <2>9. m * THRESHOLD <= ticks * THRESHOLD /\ ticks * THRESHOLD \in Int
    <3>1. THRESHOLD * m <= THRESHOLD * ticks
      BY <1>0, <2>3, CompTypes, TimesMonotone
    <3> QED BY <1>0, <2>5, <3>1, CompTypes
  <2>10. r * c >= 0 /\ r * c <= 2 * c
    BY <2>4, <2>5
  <2>11. Cost * m = m * Cost
    BY <2>5, CompTypes
  <2> DEFINE mc == m * c
             rc == r * c
             mC == m * Cost
             mT == m * THRESHOLD
             tT == ticks * THRESHOLD
  <2>12. /\ mc \in Int /\ rc \in Int /\ mC \in Int /\ mT \in Int /\ tT \in Int /\ work \in Int
         /\ mC <= mc /\ mc <= mC + mT /\ mT <= tT /\ rc >= 0 /\ rc <= 2 * c
         /\ val' = work + mC - (mc + rc) /\ c \in Int
    <3>1. val' = val - ticks * c /\ val = work + m * Cost
      BY <2>1, <2>3, <2>11
    <3> QED BY <1>0, <2>4, <2>6, <2>7, <2>8, <2>9, <2>10, <3>1
  <2> HIDE DEF mc, rc, mC, mT, tT
  <2>13. val' <= work /\ val' >= work - tT - 2 * c
    BY <2>12
  <2> QED BY <2>13 DEF tT
<1> QED BY <1>2, <1>3

\* The steps of callibrate.
LEMMA CalComp ==
  ASSUME TimerAssumption, TypeOK, ReadingIInv, CompInv,
         CalOldt \/ CalWaits \/ CalEvent \/ CalTicks
  PROVE  CompInv'
<1>0. /\ {cyc_per_tick, oldt, newt, e} \subseteq Nat
      /\ {began, elapsed, work, ticks} \subseteq Nat /\ sinceTick \in Nat
      /\ THRESHOLD < MinGap /\ THRESHOLD <= RECORDTHRESH /\ THRESHOLD <= Cost
      /\ NEVENT \in Nat /\ NEVENT >= 1
  BY FcycAssumption DEF TypeOK, TimerAssumption
<1>1. pc \in {"cal_oldt", "cal", "cal_times"} /\ config.compensate /\ Started
  BY DEF CalOldt, CalWaits, CalEvent, CalTicks, Goes, CompInv, PlacesInv, Started
<1>2. pc \in {"cal_oldt", "cal"} => Reading = elapsed
  <2>1. SUFFICES ASSUME pc \in {"cal_oldt", "cal"} PROVE Reading = elapsed
    OBVIOUS
  <2>2. LongestCal \in Nat /\ elapsed <= LongestCal /\ Fits(LongestCal)
    BY <2>1, CalIsShort DEF CompInv, TimerAssumption
  <2> QED BY <1>1, <2>2, ExactIn DEF CompInv
<1>3. /\ e <= NEVENT /\ (pc = "cal_times" => e < NEVENT) /\ began \in Starts
      /\ elapsed <= (MaxGap + Cost) * (e + ticks) + sinceTick
  BY <1>1 DEF CompInv, PlacesInv
<1>4. CASE CalOldt
  <2>1. /\ pc = "cal_oldt" /\ pc' = "cal" /\ oldt' = elapsed
        /\ UNCHANGED <<sampler, val, cyc, cyc_per_tick, newt, e, clock>>
    BY <1>2, <1>4 DEF CalOldt, Goes
  <2>2. ticks = 0 \/ (ticks = 1 /\ sinceTick = 0)
    BY <2>1 DEF CompInv, CalInv, AtMostOneTick
  <2>3. CalInv'
    BY <1>0, <2>1, <2>2, CompTypes DEF CalInv, clock
  <2> QED BY <1>1, <1>3, <2>1, <2>3
          DEF CompInv, RecordedInv, PlacesInv, RunInv, Started, clock, sampler
<1>5. CASE CalWaits
  <2>1. /\ pc = "cal" /\ pc' = "cal" /\ elapsed - oldt < THRESHOLD
        /\ sinceTick' = sinceTick + 1 /\ elapsed' = elapsed + 1
        /\ UNCHANGED <<sampler, val, cyc, cal, began, ticks>>
    BY <1>2, <1>5 DEF CalWaits, Goes, Cycle
  <2>2. \/ ticks = 0 /\ elapsed - oldt \in 0 .. THRESHOLD
        \/ ticks = 1 /\ elapsed - oldt = sinceTick /\ sinceTick <= THRESHOLD
    BY <1>0, <2>1, CompTypes DEF CompInv, CalInv
  <2>3. CalInv'
    BY <1>0, <2>1, <2>2, CompTypes DEF CalInv, cal
  <2> DEFINE x == (MaxGap + Cost) * (e + ticks)
  <2>4. x \in Int
    BY <1>0, CompTypes
  <2>5. elapsed <= x + sinceTick
    BY <1>3
  <2> HIDE DEF x
  <2>6. elapsed + 1 <= x + (sinceTick + 1)
    BY <1>0, <2>4, <2>5
  <2>7. elapsed' <= (MaxGap + Cost) * (e' + ticks') + sinceTick'
    BY <2>1, <2>6 DEF x, cal
  <2> QED BY <1>1, <1>3, <2>1, <2>3, <2>7
          DEF CompInv, RecordedInv, PlacesInv, RunInv, Started, cal, sampler
<1>6. CASE CalEvent
  <2>1. /\ pc = "cal" /\ pc' = "cal_times" /\ elapsed - oldt >= THRESHOLD /\ e < NEVENT
        /\ newt' = elapsed
        /\ UNCHANGED <<sampler, val, cyc, cyc_per_tick, oldt, e, clock>>
    BY <1>2, <1>6 DEF CalEvent, Goes
  <2>2. CalInv'
    <3>1. \/ ticks = 0 /\ elapsed - oldt \in 0 .. THRESHOLD
          \/ ticks = 0 /\ elapsed - oldt = Cost /\ sinceTick = 0
          \/ ticks = 1 /\ elapsed - oldt = sinceTick /\ sinceTick <= THRESHOLD
          \/ ticks = 1 /\ elapsed - oldt \in Cost .. Cost + THRESHOLD /\ sinceTick = 0
      BY <2>1 DEF CompInv, CalInv
    <3> QED BY <1>0, <2>1, <3>1, CompTypes DEF CalInv, clock
  <2> QED BY <1>1, <1>3, <2>1, <2>2
          DEF CompInv, RecordedInv, PlacesInv, RunInv, Started, clock, sampler
<1>7. CASE CalTicks
  <2>1. /\ pc = "cal_times" /\ pc' = "cal" /\ oldt' = newt
        /\ UNCHANGED <<sampler, val, cyc, newt>>
    BY <1>7 DEF CalTicks, Goes
  <2>2. \/ /\ ticks = 0 /\ elapsed = newt
           /\ newt - oldt <= THRESHOLD \/ sinceTick = 0
        \/ /\ ticks = 1 /\ elapsed = newt
           /\ newt - oldt <= THRESHOLD /\ sinceTick <= THRESHOLD
        \/ /\ ticks = 1 /\ elapsed = newt
           /\ newt - oldt \in Cost .. Cost + THRESHOLD /\ sinceTick = 0
        \/ /\ ticks = 1 /\ elapsed = newt + Cost /\ sinceTick = 0
           /\ newt - oldt <= THRESHOLD
    BY <2>1 DEF CompInv, CalInv
  <2>3. CASE ticks > 0
    <3> DEFINE cpt == (newt - oldt) \div ticks
    <3>1. ticks = 1 /\ cpt = newt - oldt
      BY <1>0, <2>2, <2>3
    <3>2. /\ cyc_per_tick' = IF Recorded(cpt) THEN cpt ELSE cyc_per_tick
          /\ e' = e + 1 /\ ticks' = 0 /\ UNCHANGED <<began, elapsed, work, sinceTick>>
      BY <1>7, <2>3 DEF CalTicks, times
    <3> HIDE DEF cpt
    <3>3. Recorded(cpt) => cpt \in Cost .. Cost + THRESHOLD
      BY <1>0, <2>2, <3>1, CompTypes DEF Recorded
    <3>4. RecordedInv'
      BY <3>2, <3>3 DEF CompInv, RecordedInv
    <3>5. elapsed - newt = 0 \/ (elapsed - newt = Cost /\ sinceTick = 0)
      BY <1>0, <2>2, <3>1, CompTypes
    <3>6. CalInv'
      BY <1>0, <2>1, <3>2, <3>5, CompTypes DEF CalInv
    <3>7. e + 1 <= NEVENT /\ (e + 1) + 0 = e + ticks
      BY <1>0, <1>3, <2>1, <3>1
    <3>8. elapsed' <= (MaxGap + Cost) * (e' + ticks') + sinceTick' /\ e' <= NEVENT
      BY <1>3, <3>2, <3>7
    <3> QED BY <1>1, <1>3, <2>1, <3>2, <3>4, <3>6, <3>8
            DEF CompInv, PlacesInv, RunInv, Started, sampler
  <2>4. CASE ~ (ticks > 0)
    <3>1. UNCHANGED <<cyc_per_tick, e, clock>>
      BY <1>7, <2>4 DEF CalTicks
    <3>2. ticks = 0 /\ elapsed = newt
      BY <1>0, <2>2, <2>4
    <3>3. CalInv'
      BY <1>0, <2>1, <3>1, <3>2, CompTypes DEF CalInv, clock
    <3> QED BY <1>1, <1>3, <2>1, <3>1, <3>3
            DEF CompInv, RecordedInv, PlacesInv, RunInv, Started, clock, sampler
  <2> QED BY <2>3, <2>4
<1> QED BY <1>4, <1>5, <1>6, <1>7

LEMMA StartComp ==
  ASSUME TypeOK, CompInv, StartCounter \/ CalStart
  PROVE  CompInv'
<1>0. /\ ticks \in Nat /\ sinceTick \in Nat /\ NEVENT \in Nat
  BY CompTypes DEF TypeOK
<1>1. /\ UNCHANGED <<config, val, cyc_per_tick, oldt, newt, e, ticks, sinceTick>>
      /\ pc' \in {"exited", "f", "cal_oldt"}
  BY DEF StartCounter, CalStart, start_counter, sampler, cal
<1>2. CASE config.machine = "other"
  <2>1. pc' = "exited"
    BY <1>2 DEF StartCounter, CalStart, start_counter
  <2> QED BY <1>1, <2>1 DEF CompInv, RecordedInv, PlacesInv, RunInv, CalInv, Started
<1>3. CASE config.machine # "other"
  <2>1. began' \in Starts /\ elapsed' = 0 /\ work' = 0
    BY <1>3 DEF StartCounter, CalStart, start_counter
  <2>2. CASE StartCounter
    <3>1. pc = "start" /\ pc' = "f"
      BY <1>3, <2>2 DEF StartCounter, start_counter
    <3>2. config.compensate => AtMostOneTick
      BY <3>1 DEF CompInv, RunInv
    <3>3. RunInv'
      BY <1>0, <1>1, <2>1, <3>1, <3>2, CompTypes DEF RunInv, AtMostOneTick
    <3> QED BY <1>1, <2>1, <3>1, <3>3 DEF CompInv, RecordedInv, PlacesInv, CalInv, Started
  <2>3. CASE CalStart
    <3>1. pc = "cal_start" /\ pc' = "cal_oldt"
      BY <1>3, <2>3 DEF CalStart, start_counter
    <3>2. AtMostOneTick /\ e = 0 /\ config.compensate
      BY <3>1 DEF CompInv, CalInv, PlacesInv
    <3>3. CalInv'
      BY <1>1, <2>1, <3>1, <3>2 DEF CalInv, AtMostOneTick
    <3>4. 0 <= (MaxGap + Cost) * (0 + ticks) + sinceTick
      BY <1>0, <3>2, CompTypes DEF AtMostOneTick
    <3>5. elapsed' <= (MaxGap + Cost) * (e' + ticks') + sinceTick' /\ e' <= NEVENT
      BY <1>0, <1>1, <2>1, <3>2, <3>4
    <3> QED BY <1>1, <2>1, <3>1, <3>2, <3>3, <3>5
            DEF CompInv, RecordedInv, PlacesInv, RunInv, Started
  <2> QED BY <2>2, <2>3
<1> QED BY <1>2, <1>3

LEMMA CompStep ==
  ASSUME TimerAssumption, TypeOK, ReadingIInv, CompInv, [Next]_vars
  PROVE  CompInv'
<1> USE DEF RecordedInv, PlacesInv, RunInv, CalInv, AtMostOneTick, Started
<1>1. CASE UNCHANGED vars
  BY <1>1 DEF vars, sampler, clock, cal, CompInv
<1>2. CASE Setters
  <2>1. pc = "idle" /\ pc' = pc /\ cal' = cal
    BY <1>2 DEF Setters, set_fcyc_clear_cache, set_fcyc_cache_size, set_fcyc_cache_block,
       set_fcyc_compensate, set_fcyc_k, set_fcyc_maxsamples, set_fcyc_epsilon, Set
  <2> QED BY <2>1 DEF CompInv, cal
<1>3. CASE fcyc
  BY <1>3 DEF fcyc, Goes, cal, CompInv
<1>4. CASE Tick
  BY <1>4, TickComp
<1>5. CASE Program
  <2>1. CASE Loop
    BY <2>1 DEF Loop, cal, CompInv
  <2>2. CASE StartTick
    BY <2>2 DEF StartTick, Goes, times, sampler, cal, CompInv
  <2>3. CASE StartCounter
    BY <2>3, StartComp
  <2>4. CASE Runs
    <3>1. /\ pc = "f" /\ pc' = "f" /\ work < MaxWork /\ work' = work + 1
          /\ elapsed' = elapsed + 1 /\ sinceTick' = sinceTick + 1
          /\ UNCHANGED <<sampler, val, cyc, cal, began, ticks>>
      BY <2>4 DEF Runs, Goes, Cycle
    <3>2. /\ {work, elapsed, ticks} \subseteq Nat /\ sinceTick \in Nat
      BY DEF TypeOK
    <3>3. RunInv'
      <4>1. SUFFICES ASSUME config.compensate PROVE RunInv'
        BY <3>1 DEF sampler
      <4>2. /\ work <= MaxWork
            /\ ticks = 0 \/ ticks - 1 <= work - sinceTick
            /\ \/ elapsed = work + Cost * ticks
               \/ ticks >= 1 /\ elapsed = work + Cost * (ticks - 1)
        BY <3>1, <4>1 DEF CompInv
      <4> DEFINE x == Cost * ticks
                 y == Cost * (ticks - 1)
      <4>3. x \in Int /\ y \in Int
        BY <3>2, CompTypes
      <4>4. elapsed = work + x \/ (ticks >= 1 /\ elapsed = work + y)
        BY <4>2
      <4> HIDE DEF x, y
      <4>5. elapsed + 1 = (work + 1) + x \/ (ticks >= 1 /\ elapsed + 1 = (work + 1) + y)
        BY <3>2, <4>3, <4>4
      <4>6. work + 1 <= MaxWork /\ (ticks = 0 \/ ticks - 1 <= (work + 1) - (sinceTick + 1))
        BY <3>1, <3>2, <4>2, CompTypes
      <4>7. (/\ work <= MaxWork
             /\ ticks = 0 \/ ticks - 1 <= work - sinceTick
             /\ \/ elapsed = work + Cost * ticks
                \/ ticks >= 1 /\ elapsed = work + Cost * (ticks - 1))'
        BY <3>1, <4>5, <4>6 DEF x, y
      <4> QED BY <3>1, <4>7
    <3> QED BY <3>1, <3>3 DEF CompInv, sampler, cal
  <2>5. CASE GetCounter
    <3>1. RunInv'
      BY <2>5, RunComp
    <3> QED BY <2>5, <3>1 DEF GetCounter, CompInv, sampler, cal, clock
  <2>6. CASE GetTicks
    <3>1. RunInv'
      BY <2>6, RunComp
    <3> QED BY <2>6, <3>1 DEF GetTicks, Goes, CompInv, sampler, cal, clock
  <2>7. CASE AddSample
    BY <2>7 DEF AddSample, CompInv, cal, clock
  <2>8. CASE Return
    BY <2>8 DEF Return, Goes, CompInv, cal, clock
  <2>9. CASE Callibrate
    BY <2>9 DEF Callibrate, Goes, times, sampler, CompInv
  <2>10. CASE CalStart
    BY <2>10, StartComp
  <2>11. CASE CalOldt
    BY <2>11, CalComp
  <2>12. CASE CalWaits
    BY <2>12, CalComp
  <2>13. CASE CalEvent
    BY <2>13, CalComp
  <2>14. CASE CalTicks
    BY <2>14, CalComp
  <2>15. CASE CalEnds
    BY <2>15 DEF CalEnds, Goes, CompInv, sampler, cal, clock
  <2> QED
    BY <1>5, <2>1, <2>2, <2>3, <2>4, <2>5, <2>6, <2>7, <2>8, <2>9, <2>10, <2>11, <2>12,
       <2>13, <2>14, <2>15 DEF Program
<1> QED
  BY <1>1, <1>2, <1>3, <1>4, <1>5 DEF Next

\* However the timer falls into the measurement and into the calibration before it, a
\* compensated time is not above what the function took, and below it by no more than
\* THRESHOLD cycles a tick and two whole ticks (clock.c:213-248, 252-278).
THEOREM CompensationIsBounded ==
  ASSUME TimerAssumption
  PROVE  Spec => []Compensated
<1>1. Init => CompInv
  BY DEF Init, CompInv, RecordedInv, PlacesInv, RunInv, CalInv, Started
<1>2. Init => ReadingIInv
  BY ReadingInit
<1>3. ReadingIInv /\ [Next]_vars => ReadingIInv'
  BY ReadingStep
<1>4. TypeOK /\ ReadingIInv /\ CompInv /\ [Next]_vars => CompInv'
  BY CompStep
<1>5. CompInv => Compensated
  BY DEF CompInv, RunInv, Compensated
<1>6. Spec => []TypeOK
  BY TypeCorrect
<1> QED BY <1>1, <1>2, <1>3, <1>4, <1>5, <1>6, PTL DEF Spec

=============================================================================
