----------------------------- MODULE Algorithms -----------------------------
(***************************************************************************)
(* The pure algorithms against what they should compute: the selection     *)
(* loop of Bmc on every list of foreign masters, the filters on every run  *)
(* of samples, the timer and frequency arithmetic on a range of inputs.    *)
(* They share no state, so a behaviour exercises one of them; a subject    *)
(* that is none of them leaves all of this alone.                          *)
(***************************************************************************)
EXTENDS Bmc, Filters, TimerMath, FiniteSets

CONSTANTS Candidates,    \* the data sets of foreign masters that are heard
          MaxMasters,    \* the longest list that is built
          Offsets,       \* the values of which statistics are kept
          Intervals,     \* intervals: [log, scale, span, random]
          Frequencies,   \* clocks and fractions of the largest frequency: [hz, part]
          Subjects       \* what is exercised

VARIABLES subject,       \* the algorithm
          list,          \* the data sets of the foreign masters in list order
          input          \* the input of the arithmetic

algorithmsVars == <<subject, list, input, filter, recent, stats, report, seen>>

\* A data set received from another port: port_ignore drops what this clock sent.
Foreign == {d \in Dataset : d.sender # d.receiver}

\* A grandmaster announces the same attributes on every path.
Consistent(a, b) == a.identity = b.identity =>
                       SameQuality(a, b) /\ a.priority1 = b.priority1

\* The candidates are received on ports of one clock.
ASSUME CandidatesAssumption ==
  /\ Candidates \subseteq Foreign
  /\ \A a, b \in Candidates : Consistent(a, b) /\ a.receiver.id = b.receiver.id

\* A tenth of the rounded tick more or less is a tick the kernel accepts, as with
\* every USER_HZ in use; the fractions are in five-hundredths.
ASSUME FrequencyAssumption ==
  /\ Frequencies \subseteq [hz : Nat \ {0}, part : -500..500]
  /\ \A f \in Frequencies : \A d \in {-1, 1} :
       TickAllowed(clockadj_init(f.hz) + d * (clockadj_init(f.hz) \div 10), f.hz)

NoInput == [log |-> 0, scale |-> 1, span |-> 1, random |-> 0]

AlgorithmsInit ==
  /\ subject \in Subjects
  /\ list = <<>> /\ input = NoInput
  /\ FiltersInit
  /\ subject # "filters" => filter = filter_create("moving_average", 1)

\* A foreign master is heard for the first time.
Discover(d) ==
  /\ subject = "selection"
  /\ Len(list) < MaxMasters
  /\ \A i \in 1..Len(list) : <<list[i].sender, list[i].receiver>> # <<d.sender, d.receiver>>
  /\ list' = <<d>> \o list
  /\ UNCHANGED <<subject, input, filterVars>>

\* The port is disabled and frees them all (free_foreign_masters).
Disable ==
  /\ list # <<>>
  /\ list' = <<>>
  /\ UNCHANGED <<subject, input, filterVars>>

Filter ==
  /\ subject = "filters"
  /\ UNCHANGED <<subject, list, input>>
  /\ \/ \E v \in Samples : Sample(v)
     \/ Reset

Summary ==
  /\ subject = "statistics"
  /\ UNCHANGED <<subject, list, input>>
  /\ \E v \in Offsets, max_count \in {2, MaxCount} : Summarise(v, max_count)

Compute ==
  /\ input' \in CASE subject = "timers" -> Intervals
                  [] subject = "frequency" -> Frequencies
                  [] OTHER -> {}
  /\ input = NoInput
  /\ UNCHANGED <<subject, list, filterVars>>

Forget == input # NoInput /\ input' = NoInput /\ UNCHANGED <<subject, list, filterVars>>

AlgorithmsNext == Disable \/ (\E d \in Candidates : Discover(d)) \/ Filter \/ Summary \/ Compute \/ Forget

AlgorithmsSpec == AlgorithmsInit /\ [][AlgorithmsNext]_algorithmsVars
-----------------------------------------------------------------------------
\* The single pass of port_compute_best keeps the foreign master that is better
\* than every other one, in whatever order they were discovered, with either
\* comparison.
LoopFindsBest ==
  \A telecom \in BOOLEAN :
    LET winner == BestUpTo(telecom, list)[Len(list)]
    IN \A i \in 1..Len(list) : i = winner \/ clock_dscmp(telecom, list[winner], list[i]) > 0

\* What a timer is set to, from its fields.
Ns(tmo) == tmo.sec * NS + tmo.nsec

\* Exponents from -128 to 127 may be configured (config.c).  A timer gets its interval to
\* the nanosecond, in normalised fields, as long as its seconds fit an int, and is stopped
\* by one of less than a nanosecond; the random one stays within the span above the
\* minimum while its product fits, and is above it while the span is not lost in the
\* shift.  Beyond that nothing is claimed: the code checks neither.  The clock collects as
\* many Sync intervals as its interval has, one at least and 2^(IntBits - 1) at most.  A
\* step's fields are normalised and add up to the step, in either direction.
TimersExact ==
  subject = "timers" =>
    LET log == input.log
        Half(n) == IF log >= 0 THEN n * NS * 2^log ELSE (n * NS) \div 2^(-log)
        exact  == set_tmo_log(input.scale, log)
        random == set_tmo_random(input.scale - 1, input.span, log, input.random)
        step   == (input.random - 1) * NS + log * (NS \div 8)
        stepped == clockadj_step(step)
        count == SampleCount(input.scale, log)
    IN /\ \A tmo \in {exact, random, stepped} : tmo.nsec \in 0..NS - 1
       /\ log < 0 \/ input.scale * 2^log < 2^IntBits => Ns(exact) = Half(input.scale)
       /\ log < 0 \/ (input.scale - 1 + input.span * 2^RandomBits) * 2^log < 2^LongBits \div NS =>
            /\ Ns(random) \in Half(input.scale - 1)..(Half(input.scale - 1) + Half(input.span))
            /\ Half(input.span) >= 2^RandomBits => Ns(random) > Half(input.scale - 1)
       /\ Ns(stepped) = step
       /\ IF log > input.scale THEN count = 1
          ELSE count = 2^(IF input.scale - log >= IntBits THEN IntBits - 1 ELSE input.scale - log)

\* Every frequency a servo may choose, up to the limit it is given, is one the
\* kernel accepts as tick and frequency, and reads back as what was set.
FrequencyFits ==
  (subject = "frequency" /\ input # NoInput) =>
    LET freq == (sysclk_max_freq(input.hz) \div 500) * input.part
        tx   == clockadj_set_freq(freq, input.hz)
    IN /\ TickAllowed(tx.tick, input.hz)
       /\ Abs(tx.freq) <= Scaled65536(Tolerance)
       /\ Abs(clockadj_get_freq(tx, input.hz) - freq) <= 1
=============================================================================
