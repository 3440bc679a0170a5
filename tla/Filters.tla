------------------------------ MODULE Filters ------------------------------
(***************************************************************************)
(* The delay filters (filter.c, mave.c, mmedian.c), which keep their       *)
(* samples in a ring and their result incrementally, and the running       *)
(* statistics (stats.c) of a summary interval.  tmv_t is a count of        *)
(* nanoseconds; statistics are doubles in the code and here multiples of   *)
(* Grain, which every number of values up to MaxCount divides, so that the *)
(* divisions are exact.                                                    *)
(***************************************************************************)
EXTENDS Integers, Sequences, SequencesExt

CONSTANTS MaxLength,     \* the longest ring (delay_filter_length)
          Samples,       \* the delays that are measured, in nanoseconds
          MaxCount,      \* the most values of a summary (summary_interval)
          Grain          \* a multiple of 1..MaxCount: the unit of a statistic

ASSUME GrainAssumption == \A n \in 1..MaxCount : Grain % n = 0

VARIABLES filter,        \* the state of the filter
          recent,        \* history: the samples since the reset, at most filter.len
          stats,         \* the running statistics of the offset
          report,        \* the summary just printed
          seen           \* history: the values since the statistics started

filterVars == <<filter, recent, stats, report, seen>>

\* C division truncates toward zero.
tmv_div(a, n) == IF a < 0 THEN -((-a) \div n) ELSE a \div n

Types == {"moving_average", "moving_median"}

\* filter_create: the ring's positions are 0..len-1, order holds positions.
filter_create(type, len) ==
  [type |-> type, len |-> len, cnt |-> 0, index |-> 0, sum |-> 0,
   val |-> [i \in 0..len - 1 |-> 0], order |-> <<>>, out |-> 0]

mave_accumulate(f, v) ==
  LET sum == f.sum - f.val[f.index] + v
      cnt == IF f.cnt < f.len THEN f.cnt + 1 ELSE f.cnt
  IN [f EXCEPT !.sum = sum, !.cnt = cnt, !.val[f.index] = v,
               !.index = (1 + @) % f.len, !.out = tmv_div(sum, cnt)]

\* Mutation: the sum outlives the samples.
mave_reset_keeping_sum(f) ==
  [f EXCEPT !.cnt = 0, !.index = 0, !.val = [i \in DOMAIN @ |-> 0]]

mave_reset(f) ==
  [f EXCEPT !.cnt = 0, !.index = 0, !.sum = 0, !.val = [i \in DOMAIN @ |-> 0]]

\* The new position goes behind every position whose sample is not larger; the
\* position that is overwritten left the order before.
Ordered(f, val) ==
  LET rest == IF f.cnt < f.len THEN SubSeq(f.order, 1, f.cnt)
              ELSE SelectSeq(f.order, LAMBDA i : i # f.index)
      at   == 1 + Len(SelectSeq(rest, LAMBDA i : val[i] <= val[f.index]))
  IN InsertAt(rest, at, f.index)

mmedian_sample(f, v) ==
  LET val   == [f.val EXCEPT ![f.index] = v]
      order == Ordered(f, val)
      cnt   == Len(order)
      mid(i) == val[order[i]]
  IN [f EXCEPT !.val = val, !.order = order, !.cnt = cnt, !.index = (1 + @) % f.len,
               !.out = IF cnt % 2 = 1 THEN mid(cnt \div 2 + 1)
                       ELSE tmv_div(mid(cnt \div 2) + mid(cnt \div 2 + 1), 2)]

\* Neither the ring nor the order is cleared.
mmedian_reset(f) == [f EXCEPT !.cnt = 0, !.index = 0]

filter_sample(f, v) ==
  IF f.type = "moving_average" THEN mave_accumulate(f, v) ELSE mmedian_sample(f, v)

filter_reset(f) ==
  IF f.type = "moving_average" THEN mave_reset(f) ELSE mmedian_reset(f)
-----------------------------------------------------------------------------
stats_create == [num |-> 0, min |-> 0, max |-> 0, mean |-> 0, sum_sqr |-> 0, sum_diff_sqr |-> 0]

stats_add_value(s, v) ==
  LET mean == s.mean + (v - s.mean) \div (s.num + 1)
  IN [num |-> s.num + 1, min |-> IF s.num = 0 \/ s.min > v THEN v ELSE s.min,
      max |-> IF s.num = 0 \/ s.max < v THEN v ELSE s.max, mean |-> mean,
      sum_sqr |-> s.sum_sqr + v * v,
      sum_diff_sqr |-> s.sum_diff_sqr + (v - s.mean) * (v - mean)]

\* The result, with the radicands (times num) of the two square roots.
stats_get_result(s) ==
  [max_abs |-> IF s.max > -s.min THEN s.max ELSE -s.min, mean |-> s.mean,
   rms |-> s.sum_sqr, stddev |-> s.sum_diff_sqr]

NoReport == [max_abs |-> 0, mean |-> 0, rms |-> 0, stddev |-> -1]
-----------------------------------------------------------------------------
FiltersInit ==
  /\ \E type \in Types, len \in 1..MaxLength : filter = filter_create(type, len)
  /\ recent = <<>> /\ stats = stats_create /\ report = NoReport /\ seen = <<>>

\* tsproc_update_delay passes a raw delay to the filter.
Sample(v) ==
  /\ filter' = filter_sample(filter, v)
  /\ recent' = LET s == Append(recent, v)
               IN IF Len(s) > filter.len THEN Tail(s) ELSE s
  /\ UNCHANGED <<stats, report, seen>>

\* tsproc_reset(full), when the servo steps the clock or a new master is taken.
Reset ==
  /\ recent # <<>>
  /\ filter' = filter_reset(filter)
  /\ recent' = <<>>
  /\ UNCHANGED <<stats, report, seen>>

\* clock_stats_update, with the max_count that clock_sync_interval last set: a
\* full summary is printed and the statistics start again.
Summarise(v, max_count) ==
  LET s    == stats_add_value(stats, v)
      full == s.num >= max_count
  IN /\ report' = IF full THEN stats_get_result(s) ELSE NoReport
     /\ stats' = IF full THEN stats_create ELSE s
     /\ seen' = IF stats.num = 0 THEN <<v>> ELSE Append(seen, v)
     /\ UNCHANGED <<filter, recent>>
-----------------------------------------------------------------------------
Total(s) == FoldLeft(LAMBDA a, b : a + b, 0, s)

\* x is the lower or the upper one of the samples in the middle of s.
IsMiddle(x, s, low) ==
  LET below == Len(SelectSeq(s, LAMBDA y : y < x))
      above == Len(SelectSeq(s, LAMBDA y : y > x))
      n == Len(s)
  IN IF low THEN below < (n + 1) \div 2 /\ above <= n \div 2
     ELSE below <= n \div 2 /\ above < (n + 1) \div 2

\* The filters' incremental results are the mean and the median of the last len
\* samples since the reset, whatever stale samples and positions the rings hold,
\* and a summary describes exactly the values since the one before.
FiltersRight ==
  /\ recent # <<>> =>
       IF filter.type = "moving_average"
       THEN filter.out = tmv_div(Total(recent), Len(recent))
       ELSE \E i, j \in 1..Len(recent) :
              /\ IsMiddle(recent[i], recent, TRUE) /\ IsMiddle(recent[j], recent, FALSE)
              /\ filter.out = tmv_div(recent[i] + recent[j], 2)
  /\ report # NoReport =>
       LET r == report
           n == Len(seen)
           Magnitude(v) == IF v < 0 THEN -v ELSE v
       IN /\ n * r.mean = Total(seen)
          /\ \E i \in 1..n : r.max_abs = Magnitude(seen[i])
          /\ \A i \in 1..n : r.max_abs >= Magnitude(seen[i])
          /\ r.rms = Total([i \in 1..n |-> seen[i] * seen[i]])
          /\ r.stddev = Total([i \in 1..n |-> (seen[i] - r.mean) * (seen[i] - r.mean)])
=============================================================================
