------------------------------- MODULE Clock -------------------------------
(***************************************************************************)
(* What the timing routines of lab 6 compute from the clocks they read:    *)
(* the cycle counters of clock.c, and the interval timer and the time of   *)
(* day of ftimer.c.  Durations are exact numbers here; the code keeps them *)
(* in doubles.                                                             *)
(***************************************************************************)
EXTENDS Integers

CONSTANT Base    \* the number of values of an unsigned: 2^32

ASSUME ClockAssumption == Base \in Nat /\ Base >= 2

\* What is read after t cycles.  The counter of the Alpha is one word long.
access_counter(machine, t) ==
  [hi |-> IF machine = "alpha" THEN 0 ELSE (t \div Base) % Base,
   lo |-> t % Base]

\* Seeded fault for ReadingExact: no borrow from the high word.
get_counter_NoBorrow(cyc, now) ==
  (((now.hi - cyc.hi) % Base) * Base) + ((now.lo - cyc.lo) % Base)

\* "Do double precision subtraction" of the words kept by start_counter from the
\* words read now: (1 << 30) * 4 is Base.
get_counter(cyc, now) ==
  LET lo     == (now.lo - cyc.lo) % Base
      borrow == IF lo > now.lo THEN 1 ELSE 0
      hi     == (now.hi - cyc.hi - borrow) % Base
  IN  hi * Base + lo

\* The timers count down from a day; the real one is subtracted from the value
\* the profiling one started with.  Times are pairs of seconds and microseconds,
\* results microseconds.
MAX_ETIME == 86400
first_p == <<MAX_ETIME, 0>>
get_etime(r_curr) == (first_p[1] - r_curr[1]) * 1000000 + (first_p[2] - r_curr[2])

\* The total time of the runs; the code returns its n-th part.
ftimer_itimer(r_start, r_end) == get_etime(r_end) - get_etime(r_start)
ftimer_gettod(stv, etv) == 1000000 * (etv[1] - stv[1]) + (etv[2] - stv[2])

=============================================================================
