-------------------------------- MODULE Fcyc --------------------------------
(***************************************************************************)
(* The timing package of lab 6: fcyc.c, which runs a function until the K  *)
(* smallest of its times agree, over the cycle counters of clock.c.        *)
(*                                                                         *)
(* One step is one call of the code that reads a clock, or one cycle of a  *)
(* loop or of the function that is timed.  The timer of the machine may    *)
(* interrupt between any two steps: it then counts a tick for the process  *)
(* and takes Cost cycles.  The ticks are counted from the last time the    *)
(* program noted them, because only differences of times() are used.       *)
(***************************************************************************)
EXTENDS Clock, FiniteSets, Sequences

CONSTANTS
  NEVENT, THRESHOLD, RECORDTHRESH,   \* of callibrate, clock.c:208
  Cost,            \* cycles an interrupt of the timer takes
  MinGap, MaxGap,  \* cycles of the program between two interrupts
  MaxWork,         \* cycles the function f takes at most
  Starts,          \* what the cycle counter may show when it is started
  Configs,         \* the machines and settings of the package
  EpsDen,          \* epsilon is counted in parts of 1 / EpsDen
  NoBuf            \* cache_buf when it is NULL

ASSUME FcycAssumption ==
  /\ {NEVENT, THRESHOLD, RECORDTHRESH, Cost, MinGap, MaxGap, MaxWork} \subseteq Nat
  /\ NEVENT >= 1 /\ THRESHOLD >= 1 /\ MinGap >= 1 /\ MinGap <= MaxGap
  /\ Starts \subseteq Nat /\ EpsDen \in Nat \ {0} /\ NoBuf \notin Nat
  /\ \A c \in Configs :
       /\ c.kbest \in Nat \ {0} /\ c.maxsamples \in Nat /\ c.epsilon \in Nat
       /\ c.compensate \in BOOLEAN /\ c.clear_cache \in BOOLEAN
       /\ c.cache_bytes \in Nat /\ c.cache_block \in Nat /\ c.cache_block >= 4
       /\ c.machine \in {"i386", "alpha", "other"}

VARIABLES
  pc,              \* where the program is
  config,          \* kbest, maxsamples, epsilon, compensate, clear_cache, cache_bytes,
                   \* cache_block
  cache_buf,       \* the bytes of the buffer, or NoBuf
  values,          \* the kbest smallest samples
  samples,         \* all of them, as KEEP_SAMPLES would keep them
  val,             \* the sample being taken
  cyc,             \* cyc_hi and cyc_lo, what start_counter has read
  cyc_per_tick,
  oldt, newt, e,   \* locals of callibrate
  began, elapsed,  \* the counter at start_counter, and the cycles since then
  work,            \* those of them that were not spent in an interrupt
  ticks,           \* tms_utime less oldc or start_tick
  sinceTick        \* cycles of the program since the last interrupt

sampler == <<config, cache_buf, values, samples>>
clock   == <<began, elapsed, work, ticks, sinceTick>>
cal     == <<cyc_per_tick, oldt, newt, e>>
vars    == <<pc, sampler, val, cyc, cal, clock>>

Init ==
  /\ pc = "idle" /\ config \in Configs
  /\ cache_buf = NoBuf /\ values = <<>> /\ samples = <<>>
  /\ val = 0 /\ cyc = [hi |-> 0, lo |-> 0]
  /\ cyc_per_tick = 0 /\ oldt = 0 /\ newt = 0 /\ e = 0
  /\ began = 0 /\ elapsed = 0 /\ work = 0 /\ ticks = 0 /\ sinceTick = 0

-----------------------------------------------------------------------------
(* The machine *)

\* An interrupt of the timer; only a compensating program looks at the ticks.
Tick ==
  /\ pc \notin {"idle", "exited"}
  /\ sinceTick >= MinGap
  /\ sinceTick' = 0 /\ elapsed' = elapsed + Cost
  /\ ticks' = IF config.compensate THEN ticks + 1 ELSE ticks
  /\ UNCHANGED <<pc, sampler, val, cyc, cal, began, work>>

\* A cycle of the program; the timer is not late.
Cycle ==
  /\ sinceTick < MaxGap
  /\ sinceTick' = sinceTick + 1 /\ elapsed' = elapsed + 1 /\ work' = work + 1
  /\ UNCHANGED <<began, ticks>>

Now == access_counter(config.machine, began + elapsed)
Reading == get_counter(cyc, Now)

\* start_counter: however long it is since it was last read.  Where there is no
\* cycle counter it ends the program.
start_counter(from, to) ==
  /\ pc = from
  /\ IF config.machine = "other"
     THEN pc' = "exited" /\ UNCHANGED <<began, elapsed, work, cyc>>
     ELSE /\ pc' = to
          /\ began' \in Starts /\ elapsed' = 0 /\ work' = 0
          /\ cyc' = access_counter(config.machine, began')
  /\ UNCHANGED <<ticks, sinceTick>>

\* Noting the ticks with times().
times ==
  ticks' = 0 /\ UNCHANGED <<began, elapsed, work, sinceTick>>

-----------------------------------------------------------------------------
(* Settings *)

\* A program keeps to the settings of Configs.
Set(field, v) ==
  /\ pc = "idle"
  /\ config' = [config EXCEPT ![field] = v]
  /\ config' \in Configs
  /\ UNCHANGED <<pc, values, samples, val, cyc, cal, clock>>

Settings(field) == {c[field] : c \in Configs}

set_fcyc_clear_cache ==
  \E clear \in Settings("clear_cache") : Set("clear_cache", clear) /\ UNCHANGED cache_buf

\* Seeded fault for TypeOK: the old buffer is kept.
set_fcyc_cache_size_Keeps ==
  \E bytes \in Settings("cache_bytes") : Set("cache_bytes", bytes) /\ UNCHANGED cache_buf

\* The buffer is freed when its size changes.
set_fcyc_cache_size ==
  \E bytes \in Settings("cache_bytes") :
    /\ Set("cache_bytes", bytes)
    /\ cache_buf' = IF bytes # config.cache_bytes THEN NoBuf ELSE cache_buf

set_fcyc_cache_block ==
  \E bytes \in Settings("cache_block") : Set("cache_block", bytes) /\ UNCHANGED cache_buf
set_fcyc_compensate ==
  \E compensate_arg \in Settings("compensate") :
    Set("compensate", compensate_arg) /\ UNCHANGED cache_buf
set_fcyc_k ==
  \E k \in Settings("kbest") : Set("kbest", k) /\ UNCHANGED cache_buf
set_fcyc_maxsamples ==
  \E maxsamples_arg \in Settings("maxsamples") :
    Set("maxsamples", maxsamples_arg) /\ UNCHANGED cache_buf
set_fcyc_epsilon ==
  \E epsilon_arg \in Settings("epsilon") : Set("epsilon", epsilon_arg) /\ UNCHANGED cache_buf

-----------------------------------------------------------------------------
(* The sampler *)

\* calloc: the array holds zeros.
init_sampler ==
  values' = [i \in 0 .. config.kbest - 1 |-> 0] /\ samples' = <<>>

\* Seeded fault for KBest: one exchange only.
Insert_Once(a, pos) ==
  IF pos > 0 /\ a[pos - 1] > a[pos]
  THEN [a EXCEPT ![pos] = a[pos - 1], ![pos - 1] = a[pos]] ELSE a

\* Insertion sort of the value at pos: the larger ones before it move up by one.
Insert(a, pos) ==
  LET x == a[pos]
      at == CHOOSE p \in 0 .. pos :
              /\ p = 0 \/ a[p - 1] <= x
              /\ \A i \in p .. pos - 1 : a[i] > x
  IN  [i \in DOMAIN a |-> IF i = at THEN x
                          ELSE IF i > at /\ i <= pos THEN a[i - 1] ELSE a[i]]

\* Seeded fault for Returns: a sample that is not kept is not counted.
add_sample_Uncounted(x) ==
  LET n    == Len(samples)
      last == config.kbest - 1
  IN  IF n < config.kbest
      THEN /\ values' = Insert([values EXCEPT ![n] = x], n)
           /\ samples' = Append(samples, x)
      ELSE IF x < values[last]
      THEN /\ values' = Insert([values EXCEPT ![last] = x], last)
           /\ samples' = Append(samples, x)
      ELSE UNCHANGED <<values, samples>>

\* A sample takes the next place, or that of the largest value kept if it is smaller.
add_sample(x) ==
  LET n    == Len(samples)
      last == config.kbest - 1
  IN  /\ values' = IF n < config.kbest THEN Insert([values EXCEPT ![n] = x], n)
                   ELSE IF x < values[last] THEN Insert([values EXCEPT ![last] = x], last)
                   ELSE values
      /\ samples' = Append(samples, x)

has_converged(v, n) ==
  /\ n >= config.kbest
  /\ (EpsDen + config.epsilon) * v[0] >= EpsDen * v[config.kbest - 1]

\* clear: reads cache_bytes of the buffer, which is there from the first call on, an
\* int of every cache_block; with a block of less than an int it would not end.
clear == cache_buf' = IF cache_buf = NoBuf THEN config.cache_bytes ELSE cache_buf

-----------------------------------------------------------------------------
(* fcyc *)

Goes(from, to) == pc = from /\ pc' = to

fcyc ==
  /\ Goes("idle", "loop")
  /\ init_sampler
  /\ UNCHANGED <<config, cache_buf, val, cyc, cal, clock>>

\* The top of the loop.
Loop ==
  /\ pc = "loop"
  /\ pc' = IF ~config.compensate THEN "start"
           ELSE IF cyc_per_tick = 0 THEN "callibrate" ELSE "start_comp"
  /\ IF config.clear_cache THEN clear ELSE UNCHANGED cache_buf
  /\ UNCHANGED <<config, values, samples, val, cyc, cal, clock>>

\* start_comp_counter, after callibrate: start_tick is noted first.
StartTick ==
  /\ Goes("start_comp", "start")
  /\ times
  /\ UNCHANGED <<sampler, val, cyc, cal>>

StartCounter == start_counter("start", "f") /\ UNCHANGED <<sampler, val, cal>>

Runs ==
  /\ Goes("f", "f")
  /\ work < MaxWork
  /\ Cycle
  /\ UNCHANGED <<sampler, val, cyc, cal>>

GetCounter ==
  /\ pc = "f"
  /\ pc' = IF config.compensate THEN "get_comp" ELSE "add"
  /\ val' = Reading
  /\ UNCHANGED <<sampler, cyc, cal, clock>>

\* The rest of get_comp_counter.
GetTicks ==
  /\ Goes("get_comp", "add")
  /\ val' = val - ticks * cyc_per_tick
  /\ UNCHANGED <<sampler, cyc, cal, clock>>

AddSample ==
  /\ pc = "add"
  /\ add_sample(val)
  /\ pc' = IF has_converged(values', Len(samples')) \/ Len(samples') >= config.maxsamples
           THEN "done" ELSE "loop"
  /\ UNCHANGED <<config, cache_buf, val, cyc, cal, clock>>

\* The least value is returned and the array freed.
Return ==
  /\ Goes("done", "idle")
  /\ val' = values[0]
  /\ values' = <<>> /\ samples' = <<>>
  /\ UNCHANGED <<config, cache_buf, cyc, cal, clock>>

-----------------------------------------------------------------------------
(* callibrate *)

Callibrate ==
  /\ Goes("callibrate", "cal_start")
  /\ e' = 0 /\ times
  /\ UNCHANGED <<sampler, val, cyc, cyc_per_tick, oldt, newt>>

CalStart == start_counter("cal_start", "cal_oldt") /\ UNCHANGED <<sampler, val, cal>>

CalOldt ==
  /\ Goes("cal_oldt", "cal")
  /\ oldt' = Reading
  /\ UNCHANGED <<sampler, val, cyc, cyc_per_tick, newt, e, clock>>

\* A turn of the loop that finds less than THRESHOLD cycles gone.
CalWaits ==
  /\ Goes("cal", "cal")
  /\ e < NEVENT
  /\ Reading - oldt < THRESHOLD
  /\ Cycle
  /\ UNCHANGED <<sampler, val, cyc, cal>>

\* A turn that finds more, up to the call of times().
CalEvent ==
  /\ Goes("cal", "cal_times")
  /\ e < NEVENT
  /\ Reading - oldt >= THRESHOLD
  /\ newt' = Reading
  /\ UNCHANGED <<sampler, val, cyc, cyc_per_tick, oldt, e, clock>>

\* Seeded fault for Compensated: a quotient below RECORDTHRESH is kept too.
Recorded_All(cpt) == cyc_per_tick = 0 \/ cyc_per_tick > cpt

\* The least quotient above RECORDTHRESH is kept.
Recorded(cpt) == (cyc_per_tick = 0 \/ cyc_per_tick > cpt) /\ cpt > RECORDTHRESH

CalTicks ==
  /\ Goes("cal_times", "cal")
  /\ LET cpt == (newt - oldt) \div ticks
     IN  IF ticks > 0
         THEN /\ cyc_per_tick' = IF Recorded(cpt) THEN cpt ELSE cyc_per_tick
              /\ e' = e + 1
              /\ times
         ELSE UNCHANGED <<cyc_per_tick, e, clock>>
  /\ oldt' = newt
  /\ UNCHANGED <<sampler, val, cyc, newt>>

CalEnds ==
  /\ Goes("cal", "start_comp")
  /\ e >= NEVENT
  /\ UNCHANGED <<sampler, val, cyc, cal, clock>>

-----------------------------------------------------------------------------
Setters == \/ set_fcyc_clear_cache \/ set_fcyc_cache_size \/ set_fcyc_cache_block
           \/ set_fcyc_compensate \/ set_fcyc_k \/ set_fcyc_maxsamples \/ set_fcyc_epsilon

Program == \/ Loop \/ StartTick \/ StartCounter \/ Runs \/ GetCounter \/ GetTicks
           \/ AddSample \/ Return
           \/ Callibrate \/ CalStart \/ CalOldt \/ CalWaits \/ CalEvent \/ CalTicks
           \/ CalEnds

Next == Setters \/ fcyc \/ Program \/ Tick

\* The processor goes on, and the timer is never stopped.
Spec == Init /\ [][Next]_vars /\ WF_vars(Program) /\ WF_vars(Tick)

-----------------------------------------------------------------------------
(* What is to hold *)

Places ==
  {"idle", "loop", "start_comp", "start", "f", "get_comp", "add", "done", "exited",
   "callibrate", "cal_start", "cal_oldt", "cal", "cal_times"}

Sampling == pc \notin {"idle", "exited"}

\* Type of the state: while it is sampling the program has an array of kbest
\* values, and the buffer, when there is one, is as large as it is read.
TypeOK ==
  /\ pc \in Places /\ config \in Configs
  /\ cache_buf \in {NoBuf, config.cache_bytes}
  /\ samples \in Seq(Int)
  /\ Sampling => values \in [0 .. config.kbest - 1 -> Int]
  /\ val \in Int /\ cyc \in [hi : 0 .. Base - 1, lo : 0 .. Base - 1]
  /\ {cyc_per_tick, oldt, newt, e} \subseteq Nat
  /\ {began, elapsed, work, ticks} \subseteq Nat /\ sinceTick \in 0 .. MaxGap

\* The subtraction of two words with a borrow gives the cycles since start_counter,
\* whatever wrapped in between, up to the length of the counter; on the Alpha, whose
\* high word is always 0, as long as the low one does not wrap (clock.c:63-66).
Started == pc \in {"f", "cal_oldt", "cal", "cal_times"}
InRange ==
  IF config.machine = "alpha" THEN (began % Base) + elapsed < Base
                              ELSE elapsed < Base * Base
ReadingExact == Started /\ InRange => Reading = elapsed

\* The array holds the kbest smallest samples in order: less than i of them, and
\* not i or less, are below the i-th (fcyc.c:67-88).
Kept == IF Len(samples) < config.kbest THEN Len(samples) ELSE config.kbest
KBest ==
  Sampling =>
    \A i \in 0 .. Kept - 1 :
      /\ Cardinality({n \in DOMAIN samples : samples[n] < values[i]}) <= i
      /\ Cardinality({n \in DOMAIN samples : samples[n] <= values[i]}) > i

\* A compensated time is never more than what f took, however often the timer
\* struck, and too small by no more than THRESHOLD cycles a tick and two whole ticks,
\* one noted before the counter was started and one after it was read
\* (clock.c:213-248, 252-278).
Compensated ==
  pc = "add" /\ config.compensate /\ cyc_per_tick # 0 =>
    /\ val <= work
    /\ val >= work - ticks * THRESHOLD - 2 * cyc_per_tick

\* Where there is a cycle counter fcyc returns: callibrate sees its NEVENT events
\* and the loop ends at maxsamples, also when the samples never converge.
Returns == pc = "loop" ~> pc \in {"idle", "exited"}
=============================================================================
