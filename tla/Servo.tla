------------------------------- MODULE Servo -------------------------------
(***************************************************************************)
(* The discipline of a clock (clock.c clock_synchronize, servo.c, pi.c,    *)
(* linreg.c, nullf.c, ntpshm.c, clockcheck.c): a Sync message is stamped   *)
(* by the clock when it arrives, and later checked and sampled; the answer *)
(* of the servo changes the frequency of the clock or steps it.            *)
(*                                                                         *)
(* The clock's error against the master is in nanoseconds, frequencies in  *)
(* nanoseconds per second; a tick is a second, with one Sync in it.  The   *)
(* gains of the PI servo are those of pi_proportional_const = 1.0 and      *)
(* pi_integral_const = 1.0, with which its arithmetic is in integers.      *)
(* Differences as small as a frequency times a frequency are left out.     *)
(***************************************************************************)
EXTENDS Integers, SequencesExt

CONSTANTS
  NULL,
  Configs,      \* the configurations, see below
  Errors,       \* the errors a clock may start with or be set to
  MaxEvents     \* bound: how often the clock is set by somebody else or exchanged, a
                \* Sync is lost, or ptp4l does not run for a second

VARIABLES
  conf,       \* [type, step, first, maxf, limit, est, osc]: the servo, its thresholds and
              \* limits, the time it takes to estimate a frequency, the oscillator's error
  err,        \* local time minus master time
  freq,       \* the frequency correction of the clock
  queue,      \* messages stamped and not read: the error then, how long ago, and
              \* whether the clock was changed since
  servo,      \* struct servo, its type's state
  check,      \* struct clockcheck
  steps,      \* how often this servo stepped the clock
  alarm,      \* the last check: "ok", "alarm", or "false alarm" when it has no reason
  amiss,      \* what the check cannot know: "no", "once" (the clock was set since the last
              \* check) or "switched" (and its frequency not set since)
  events

vars == <<conf, err, freq, queue, servo, check, steps, alarm, amiss, events>>

Abs(n) == IF n < 0 THEN -n ELSE n

\* sanity_freq_limit is the largest error of an oscillator that works.
ASSUME ServoAssumption ==
  /\ NULL \notin {"ok", "alarm", "false alarm"}
  /\ Errors \subseteq Int /\ Errors # {}
  /\ MaxEvents \in Nat
  /\ \A c \in Configs :
       /\ c.type \in {"pi", "linreg", "nullf", "ntpshm"}
       /\ c.step \in Nat /\ c.first \in Nat /\ c.maxf \in Nat /\ c.limit \in Nat /\ c.est \in Nat
       /\ c.osc \in Int /\ (c.limit # 0 => Abs(c.osc) <= c.limit)

Clamp(n) == IF n > conf.maxf THEN conf.maxf ELSE IF n < -conf.maxf THEN -conf.maxf ELSE n

-----------------------------------------------------------------------------
(* The servos.  A sample is a record of the new servo, its state, and the   *)
(* frequency offset it found.                                               *)

\* drift is the integral part, o0 and age0 the first sample's offset and age, back
\* whether the clock was set back since, so that the second stamp may be below the
\* first; points is what linreg has, dirty how many samples it takes until points
\* of a clock that was set are gone.
servo_create(fadj) ==
  [count |-> 0, drift |-> -fadj, last |-> -fadj, o0 |-> 0, age0 |-> 0, back |-> FALSE,
   points |-> 0, dirty |-> 0, first_update |-> TRUE]

\* Mutation: the servo starts over as if it were new.
servo_reset_first(s) == [s EXCEPT !.count = 0, !.points = 0, !.dirty = 0, !.first_update = TRUE]

servo_reset(s) == [s EXCEPT !.count = 0, !.points = 0, !.dirty = 0]

\* Whether the clock is stepped by the offset.
MustStep(s, off) ==
  \/ s.first_update /\ conf.first # 0 /\ conf.first < Abs(off)
  \/ conf.step # 0 /\ conf.step < Abs(off)

Sample(s, state, adj) == [servo |-> s, state |-> state, adj |-> adj]
Unlocked(s) == Sample(s, "UNLOCKED", s.last)

\* The drift by two samples that are n seconds apart.
FirstDrift(s, off, n) == Clamp(s.drift + (off - s.o0) \div n)

\* Mutation: the integral is not kept.
PiLocked_forgetting(s, off) ==
  LET ppb == off + s.drift + off
  IN Sample([s EXCEPT !.last = Clamp(ppb)], "LOCKED", Clamp(ppb))

\* The proportional and integral terms are both the offset.
PiLocked(s, off) ==
  LET ppb == off + s.drift + off
  IN Sample([s EXCEPT !.drift = IF Clamp(ppb) = ppb THEN @ + off ELSE @, !.last = Clamp(ppb)],
            "LOCKED", Clamp(ppb))

pi_sample(s, off, age) ==
  LET n == s.age0 - age
      drift == FirstDrift(s, off, n)
      again == Unlocked([s EXCEPT !.count = 0])
      second == IF n < conf.est THEN Unlocked(s)
                ELSE Sample([s EXCEPT !.drift = drift, !.last = drift, !.count = 2],
                            IF MustStep(s, off) THEN "JUMP" ELSE "LOCKED", drift)
  IN CASE s.count = 0 ->
            {Unlocked([s EXCEPT !.o0 = off, !.age0 = age, !.back = FALSE, !.count = 1])}
       [] s.count = 1 /\ n <= 0 -> {again}
       [] s.count = 1 /\ n > 0 -> IF s.back THEN {again, second} ELSE {second}
       [] s.count = 2 /\ conf.step # 0 /\ conf.step < Abs(off) -> {again}
       [] OTHER -> {PiLocked(s, off)}

\* Four points are the smallest window; the regression through points of an
\* undisturbed clock is exact, otherwise the line may be anywhere.
MIN_POINTS == 4

MorePoints(n) == IF n < MIN_POINTS THEN n + 1 ELSE n

linreg_sample(s, off) ==
  LET points == MorePoints(s.points)
      t == [s EXCEPT !.points = points, !.dirty = IF @ > 0 THEN @ - 1 ELSE 0]
  IN IF points < MIN_POINTS THEN {Unlocked(t)}
     ELSE {LET adj == Clamp(conf.osc + o)
           IN Sample([t EXCEPT !.last = adj], IF MustStep(s, o) THEN "JUMP" ELSE "LOCKED", adj) :
             o \in IF s.dirty > 0 THEN Errors ELSE {off}}

nullf_sample(s, off) ==
  {Sample(s, IF off = 0 THEN "LOCKED" ELSE IF MustStep(s, off) THEN "JUMP" ELSE "UNLOCKED", 0)}

\* The NTP daemon has the clock in its hands.
ntpshm_sample(s) == {Sample(s, "UNLOCKED", 0)}

TypeSample(s, off, age) ==
  CASE conf.type = "pi" -> pi_sample(s, off, age)
    [] conf.type = "linreg" -> linreg_sample(s, off)
    [] conf.type = "nullf" -> nullf_sample(s, off)
    [] conf.type = "ntpshm" -> ntpshm_sample(s)

servo_sample(s, off, age) ==
  {IF r.state = "UNLOCKED" THEN r ELSE [r EXCEPT !.servo.first_update = FALSE] :
     r \in TypeSample(s, off, age)}

-----------------------------------------------------------------------------
(* clockcheck: the clock is compared with the monotonic clock.             *)

\* last is the error at the last check, lag how old the stamp was then, mono the
\* seconds since.
clockcheck_create == [known |-> FALSE, cur |-> 0, max |-> 0, min |-> 0, last |-> NULL, lag |-> 0, mono |-> 1]

clockcheck_set_freq(c, f) ==
  [c EXCEPT !.max = IF ~c.known \/ @ < f THEN f ELSE @,
            !.min = IF ~c.known \/ @ > f THEN f ELSE @,
            !.cur = f, !.known = TRUE]

clockcheck_step(c, d) == IF c.last = NULL THEN c ELSE [c EXCEPT !.last = @ + d]

\* The seconds between the two stamps.
Interval(c, m) == c.mono - (m.age - c.lag)

Ready(c, m) == c.known /\ c.mono > 0 /\ (c.last # NULL => Interval(c, m) # 0)

\* A stamp that is read late makes the clock look slow, the next one fast.
Insane(c, m) ==
  /\ c.last # NULL
  /\ \/ m.age # c.lag
     \/ m.err - c.last > (c.max + conf.limit) * c.mono
     \/ m.err - c.last < (c.min - conf.limit) * c.mono

Checked(c, m) ==
  IF Ready(c, m)
  THEN [c EXCEPT !.last = m.err, !.lag = m.age, !.mono = 0, !.max = c.cur, !.min = c.cur]
  ELSE c

-----------------------------------------------------------------------------
(* The clock and its surroundings.                                         *)

Message(e) == [err |-> e, age |-> 0, old |-> FALSE]

\* A second passes, and a Sync arrives in it or is lost.  ptp4l reads what there
\* is in every second, but for some.
Tick(arrives) ==
  /\ (arrives /\ queue = <<>>) \/ events < MaxEvents
  /\ err' = err + conf.osc + freq
  /\ queue' = LET q == [i \in DOMAIN queue |-> [queue[i] EXCEPT !.age = @ + 1]]
              IN IF arrives THEN Append(q, Message(err')) ELSE q
  /\ servo' = [servo EXCEPT !.age0 = IF servo.count = 1 THEN @ + 1 ELSE @]
  /\ check' = [check EXCEPT !.mono = IF check.last = NULL THEN @ ELSE @ + 1]
  /\ events' = IF arrives /\ queue = <<>> THEN events ELSE events + 1
  /\ UNCHANGED <<conf, freq, steps, alarm, amiss>>

Aged(q) == [i \in DOMAIN q |-> [q[i] EXCEPT !.old = TRUE]]

\* Somebody sets the clock.
SetClock(e) ==
  /\ events < MaxEvents /\ e # err
  /\ err' = e
  /\ queue' = Aged(queue)
  /\ servo' = [servo EXCEPT !.back = @ \/ e < err, !.dirty = MIN_POINTS]
  /\ amiss' = (IF amiss = "no" THEN "once" ELSE amiss) /\ events' = events + 1
  /\ UNCHANGED <<conf, freq, check, steps, alarm>>

\* The bond's active slave, or the port to follow, has another PHC
\* (clock_switch_phc); the sanity check goes on as it was.
clock_switch_phc(e, f) ==
  /\ events < MaxEvents
  /\ err' = e /\ freq' = f
  /\ servo' = servo_create(f)
  /\ queue' = Aged(queue)
  /\ amiss' = "switched" /\ events' = events + 1
  /\ steps' = 0
  /\ UNCHANGED <<conf, check, alarm>>

\* Mutation: the check is not told of the step.
Adjust_untold(r, off) ==
  CASE r.state = "UNLOCKED" -> [err |-> err, freq |-> freq, check |-> check]
    [] r.state = "JUMP" -> [err |-> err - off, freq |-> -r.adj, check |-> clockcheck_set_freq(check, -r.adj)]
    [] r.state = "LOCKED" -> [err |-> err, freq |-> -r.adj, check |-> clockcheck_set_freq(check, -r.adj)]

\* What the servo's answer does to the clock.
Adjust(r, off) ==
  CASE r.state = "UNLOCKED" -> [err |-> err, freq |-> freq, check |-> check]
    [] r.state = "JUMP" ->
         [err |-> err - off, freq |-> -r.adj,
          check |-> clockcheck_step(clockcheck_set_freq(check, -r.adj), -off)]
    [] r.state = "LOCKED" ->
         [err |-> err, freq |-> -r.adj, check |-> clockcheck_set_freq(check, -r.adj)]

\* Every message is checked when it is read (clock_check_ts); if the clock is not
\* what it should be, the servo starts over, with the samples after it.  An alarm is
\* told apart from one without a reason: the clock is or was amiss, the stamp is from
\* before a step, whoever made it, or this stamp or the one before was read late.
Check ==
  /\ queue # <<>> /\ alarm = NULL
  /\ LET m == Head(queue)
         bad == conf.limit # 0 /\ Ready(check, m) /\ Insane(check, m)
         told == amiss # "no" \/ m.old \/ m.age # 0 \/ check.lag # 0
     IN /\ alarm' = IF ~bad THEN "ok" ELSE IF told THEN "alarm" ELSE "false alarm"
        /\ servo' = IF bad THEN servo_reset(servo) ELSE servo
        /\ check' = Checked(check, m)
        /\ amiss' = IF m.old /\ amiss = "no" THEN "once"
                    ELSE IF ~m.old /\ amiss = "once" /\ Ready(check, m) THEN "no" ELSE amiss
  /\ UNCHANGED <<conf, err, freq, queue, steps, events>>

\* clock_synchronize
clock_synchronize(r) ==
  LET m == Head(queue) IN
  /\ err' = Adjust(r, m.err).err
  /\ freq' = Adjust(r, m.err).freq
  /\ check' = Adjust(r, m.err).check
  /\ servo' = r.servo
  /\ queue' = IF r.state = "JUMP" THEN Aged(Tail(queue)) ELSE Tail(queue)
  /\ steps' = IF r.state = "JUMP" THEN steps + 1 ELSE steps
  /\ alarm' = NULL
  /\ amiss' = IF amiss = "switched" /\ r.state # "UNLOCKED" THEN "once" ELSE amiss
  /\ UNCHANGED <<conf, events>>

Synchronize ==
  /\ queue # <<>> /\ alarm # NULL
  /\ \E r \in servo_sample(servo, Head(queue).err, Head(queue).age) : clock_synchronize(r)

Init ==
  /\ conf \in Configs
  /\ err \in Errors /\ freq = 0
  /\ queue = <<>> /\ servo = servo_create(0) /\ check = clockcheck_create
  /\ steps = 0 /\ alarm = NULL /\ amiss = "no"
  /\ events = 0

Next ==
  \/ \E a \in BOOLEAN : Tick(a)
  \/ \E e \in Errors : SetClock(e)
  \/ \E e \in Errors, f \in {-conf.osc, 0} : clock_switch_phc(e, f)
  \/ Check
  \/ Synchronize

Spec == Init /\ [][Next]_vars

\* Time passes and ptp4l runs.
FairSpec == Spec /\ WF_vars(\E a \in BOOLEAN : Tick(a)) /\ WF_vars(Check \/ Synchronize)

-----------------------------------------------------------------------------
(* Properties.                                                             *)

TypeOK ==
  /\ err \in Int /\ freq \in Int
  /\ servo.count \in 0..2 /\ servo.points \in 0..MIN_POINTS
  /\ alarm \in {NULL, "ok", "alarm", "false alarm"}

\* ptp4l.8 on step_threshold: "When set to 0.0, the servo will never step the
\* clock except on start", also when the check has reset the servo (servo_sample,
\* clock_check_ts).
StepsOnce == conf.step = 0 => steps <= 1

\* An alarm has a reason: the clock was set or exchanged, or the stamp was read late, or
\* it was taken before a step and checked after it.  The last is an alarm although
\* nothing is wrong when the step is ptp4l's own (clockcheck_step has moved last_ts by
\* it, and the stamp is from before); it is not excluded here.  What is excluded is
\* that ptp4l's own steps and frequencies raise an alarm about any other stamp, in
\* whatever order checks, steps and frequencies come (clockcheck_sample,
\* clock_synchronize).
NoFalseAlarm == alarm # "false alarm"

\* The integral part never leaves the range of frequencies, however long the
\* frequency is at its limit, so that the servo does not have to unwind (pi_sample).
WithinLimits == servo.count = 2 => Abs(servo.drift) <= conf.maxf

\* The servo does no more to the clock than its configuration allows (servo_sample).
Restrained == TypeOK /\ StepsOnce /\ WithinLimits

\* Whatever sets, lost and late messages and alarms there were, once they end the
\* servo brings the clock to the master's time and keeps it there.
Converges == <>[](err = 0 \/ conf.type \notin {"pi", "linreg"})
=============================================================================
