----------------------------- MODULE TimerMath -----------------------------
(***************************************************************************)
(* The arithmetic between the intervals of the protocol, which are powers  *)
(* of two of a second, and what the kernel is given: the timers of a port  *)
(* (set_tmo_log, set_tmo_lin, set_tmo_random in port.c), the sample counts *)
(* of the clock (clock_sync_interval), and the frequency and the step of a *)
(* clock (clockadj.c).  A second has NS nanoseconds, fewer than in the     *)
(* code so that the products fit TLC's integers; frequencies are in parts  *)
(* per billion, as in the code.  A shift by the width of its operand or    *)
(* more is undefined; it is taken modulo the width, as processors do.      *)
(***************************************************************************)
EXTENDS Integers

CONSTANTS NS,            \* NS_PER_SEC
          RandomBits,    \* random() % (1 << 15): 15 in the code
          IntBits,       \* sizeof(int) * 8
          LongBits       \* the width of uint64_t

Abs(x) == IF x < 0 THEN -x ELSE x
-----------------------------------------------------------------------------
\* An itimerspec; {0, 0} stops the timer.
Tmo(sec, nsec) == [sec |-> sec, nsec |-> nsec]

\* n << shift and n >> shift in a type of so many bits
Left(n, shift, bits) == (n * 2^(shift % bits)) % 2^bits
Right(n, shift, bits) == n \div 2^(shift % bits)

\* Mutation: the loop shifts once more.
set_tmo_log_once_more(scale, log) ==
  IF log >= 0 THEN Tmo((scale * Left(1, log, IntBits)) % 2^IntBits, 0)
  ELSE LET ns == (scale * (NS \div 2)) \div 2^(-log) IN Tmo(ns \div NS, ns % NS)

\* ns starts at half a second times scale and is halved -log - 1 times.
set_tmo_log(scale, log) ==
  IF log >= 0 THEN Tmo((scale * Left(1, log, IntBits)) % 2^IntBits, 0)
  ELSE LET ns == (scale * (NS \div 2)) \div 2^(-log - 1) IN Tmo(ns \div NS, ns % NS)

set_tmo_lin(seconds) == Tmo(seconds, 0)

\* random is a value of random() % 2^RandomBits.
set_tmo_random(min, span, log, random) ==
  LET Scaled(n) == IF log >= 0 THEN Left(n * NS, log, LongBits) ELSE Right(n * NS, -log, LongBits)
      value == (Scaled(min) + ((Scaled(span) * (random + 1)) % 2^LongBits) \div 2^RandomBits) % 2^LongBits
  IN Tmo(value \div NS, value % NS)

\* The number of samples in an interval of 2^interval seconds when a Sync comes
\* every 2^n seconds.
SampleCount(interval, n) ==
  LET shift == interval - n
  IN 2^(IF shift < 0 THEN 0 ELSE IF shift >= IntBits THEN IntBits - 1 ELSE shift)
-----------------------------------------------------------------------------
\* clockadj_init: the kernel's tick length in microseconds.
clockadj_init(hz) == (1000000 + hz \div 2) \div hz

\* round(freq / 1e3 / hz), halfway cases away from zero.
Ticks(freq, hz) == LET unit == 1000 * hz
                   IN IF freq < 0 THEN -((-freq + unit \div 2) \div unit)
                      ELSE (freq + unit \div 2) \div unit

\* ppb to the kernel's unit, 65.536 = 8192 / 125, in two parts to stay in range.
Scaled65536(ppb) == LET a == Abs(ppb)
                        s == (a \div 125) * 8192 + ((a % 125) * 8192) \div 125
                    IN IF ppb < 0 THEN -s ELSE s

clockadj_set_freq(freq, hz) ==
  LET ticks == Ticks(freq, hz)
  IN [tick |-> ticks + clockadj_init(hz), freq |-> Scaled65536(freq - 1000 * hz * ticks)]

\* The nearest ppb, rounded toward zero.
clockadj_get_freq(tx, hz) ==
  LET a == Abs(tx.freq)
      f == (a \div 8192) * 125 + ((a % 8192) * 125) \div 8192
  IN (IF tx.freq < 0 THEN -f ELSE f) + 1000 * hz * (tx.tick - clockadj_init(hz))

clockadj_step(step) ==
  LET sign == IF step < 0 THEN -1 ELSE 1
      sec  == sign * (Abs(step) \div NS)
      usec == sign * (Abs(step) % NS)
  IN IF usec < 0 THEN Tmo(sec - 1, usec + NS) ELSE Tmo(sec, usec)

\* The kernel's limits (external): 500 ppm, and a tick within 10% of nominal.
Tolerance == 500000
TickAllowed(tick, hz) == tick \in 900000 \div hz .. 1100000 \div hz

\* Mutation: the tick is used whatever hz is.
sysclk_max_freq_any_hz(hz) == (clockadj_init(hz) \div 10) * 1000 * hz

sysclk_max_freq(hz) ==
  IF 2 * Tolerance >= 1000 * hz THEN (clockadj_init(hz) \div 10) * 1000 * hz ELSE Tolerance
=============================================================================
