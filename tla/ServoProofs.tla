---------------------------- MODULE ServoProofs ----------------------------
(***************************************************************************)
(* A servo does no more to the clock than its configuration allows, for    *)
(* any configurations, any errors of the clock and any sequence of losses, *)
(* late messages, alarms and settings of the clock by others.              *)
(***************************************************************************)
EXTENDS Servo, SequenceTheorems, TLAPS

ServoRecord ==
  [count : 0..2, drift : Int, last : Int, o0 : Int, age0 : Nat, back : BOOLEAN,
   points : 0..MIN_POINTS, dirty : Nat, first_update : BOOLEAN]

Messages == [err : Int, age : Nat, old : BOOLEAN]

\* What is true of a servo: its integral part is within the limits once it is
\* locked, and while it has never acted the clock was not stepped, unless it may
\* always be stepped.
Calm(s) == s.count = 2 => Abs(s.drift) <= conf.maxf

IInv ==
  /\ conf \in Configs /\ TypeOK
  /\ servo \in ServoRecord /\ queue \in Seq(Messages) /\ steps \in Nat
  /\ Calm(servo)
  /\ conf.step = 0 => steps <= 1 /\ (servo.first_update => steps = 0)

\* The errors that the clock may have.
LEMMA ErrorFacts ==
  Errors \subseteq Int
  BY ServoAssumption

\* The limits of a configuration.
LEMMA ConfFacts ==
  ASSUME conf \in Configs
  PROVE  /\ conf.maxf \in Nat /\ conf.step \in Nat /\ conf.first \in Nat /\ conf.est \in Nat
         /\ conf.osc \in Int /\ conf.type \in {"pi", "linreg", "nullf", "ntpshm"}
  BY ServoAssumption

\* Clamp limits.
LEMMA ClampFacts ==
  ASSUME NEW n \in Int, conf.maxf \in Nat
  PROVE  Clamp(n) \in Int /\ Abs(Clamp(n)) <= conf.maxf
  BY DEF Clamp, Abs

\* The midpoint of two frequencies within the limits is within them: this is why
\* the integral part does not wind up.
LEMMA NoWindup ==
  ASSUME NEW d \in Int, NEW off \in Int, conf.maxf \in Nat, Abs(d) <= conf.maxf,
         Clamp(off + d + off) = off + d + off
  PROVE  Abs(d + off) <= conf.maxf
  BY DEF Clamp, Abs

-----------------------------------------------------------------------------
(* The samples of the four types of servos.                                *)

\* What an answer of a servo that was s may be.
Samples == [servo : ServoRecord, state : {"UNLOCKED", "JUMP", "LOCKED"}, adj : Int]

GoodSample(s, r) ==
  /\ r \in Samples /\ Calm(r.servo)
  /\ r.servo.first_update = s.first_update
  /\ r.state = "JUMP" /\ conf.step = 0 => s.first_update

\* A sample with a servo that is as good.
LEMMA SampleIsGood ==
  ASSUME NEW s, NEW t \in ServoRecord, t.first_update = s.first_update, Calm(t),
         NEW state \in {"UNLOCKED", "JUMP", "LOCKED"}, NEW adj \in Int,
         state = "JUMP" /\ conf.step = 0 => s.first_update
  PROVE  GoodSample(s, Sample(t, state, adj))
  BY DEF GoodSample, Sample, Samples

\* The same of a servo that does nothing yet.
LEMMA UnlockedGood ==
  ASSUME NEW s, NEW t \in ServoRecord, t.first_update = s.first_update, Calm(t)
  PROVE  GoodSample(s, Unlocked(t))
  <1>1. t.last \in Int
    BY DEF ServoRecord
  <1> QED  BY <1>1, SampleIsGood DEF Unlocked

\* Only a first update steps the clock if step_threshold is zero.
LEMMA StepsFirst ==
  ASSUME NEW s, NEW off, MustStep(s, off), conf.step = 0
  PROVE  s.first_update
  BY DEF MustStep

\* pi_sample
LEMMA PiGood ==
  ASSUME conf \in Configs, NEW s \in ServoRecord, Calm(s), NEW off \in Int, NEW age \in Nat,
         NEW r \in pi_sample(s, off, age)
  PROVE  GoodSample(s, r)
  <1> DEFINE n == s.age0 - age
             drift == FirstDrift(s, off, n)
             ppb == off + s.drift + off
             new == IF Clamp(ppb) = ppb THEN s.drift + off ELSE s.drift
             zero == 0
             one == 1
             two == 2
             first == [s EXCEPT !.o0 = off, !.age0 = age, !.back = FALSE, !.count = one]
             again == [s EXCEPT !.count = zero]
             found == [s EXCEPT !.drift = drift, !.last = drift, !.count = two]
             state == IF MustStep(s, off) THEN "JUMP" ELSE "LOCKED"
             locked == [s EXCEPT !.drift = new, !.last = Clamp(ppb)]
  <1>1. /\ s.count \in 0..2 /\ s.age0 \in Nat /\ s.drift \in Int /\ s.o0 \in Int
        /\ conf.maxf \in Nat /\ ppb \in Int /\ n \in Int
    BY ConfFacts DEF ServoRecord
  <1>2. \/ r = Unlocked(first)
        \/ r = Unlocked(again)
        \/ r = Unlocked(s)
        \/ n > 0 /\ r = Sample(found, state, drift)
        \/ s.count = 2 /\ r = Sample(locked, "LOCKED", Clamp(ppb))
    <2>1. CASE s.count = 0
      BY <2>1 DEF pi_sample
    <2>2. CASE s.count = 1 /\ n <= 0
      BY <2>2 DEF pi_sample
    <2>3. CASE s.count = 1 /\ n > 0 /\ n < conf.est
      BY <1>1, <2>3 DEF pi_sample
    <2>4. CASE s.count = 1 /\ n > 0 /\ n >= conf.est
      <3> HIDE DEF drift, state
      <3> QED  BY <1>1, <2>4, ConfFacts DEF pi_sample, drift, state
    <2>5. CASE s.count = 2
      BY <2>5 DEF pi_sample, PiLocked
    <2> QED  BY <1>1, <2>1, <2>2, <2>3, <2>4, <2>5, ConfFacts
  <1>0. zero \in 0..2 /\ one \in 0..2 /\ two \in 0..2 /\ one # 2 /\ zero # 2
    OBVIOUS
  <1> HIDE DEF zero, one, two
  <1>3. first \in ServoRecord /\ first.first_update = s.first_update /\ first.count = one
    BY <1>0 DEF ServoRecord
  <1>4. again \in ServoRecord /\ again.first_update = s.first_update /\ again.count = zero
    BY <1>0 DEF ServoRecord
  <1>5. ASSUME n > 0
        PROVE  GoodSample(s, Sample(found, state, drift))
    <2>1. drift \in Int /\ Abs(drift) <= conf.maxf
      <3>1. (off - s.o0) \div n \in Int
        BY <1>1, <1>5
      <3>2. s.drift + (off - s.o0) \div n \in Int
        BY <1>1, <3>1
      <3> QED  BY <1>1, <3>2, ClampFacts DEF FirstDrift
    <2> HIDE DEF drift, n
    <2>2. found \in ServoRecord /\ found.first_update = s.first_update /\ found.drift = drift
      BY <1>0, <2>1 DEF ServoRecord
    <2>3. state \in {"JUMP", "LOCKED"} /\ (state = "JUMP" /\ conf.step = 0 => s.first_update)
      BY StepsFirst
    <2> HIDE DEF found, state
    <2>4. Calm(found)
      BY <2>1, <2>2 DEF Calm
    <2> QED  BY <2>1, <2>2, <2>3, <2>4, SampleIsGood
  <1>6. ASSUME s.count = 2
        PROVE  GoodSample(s, Sample(locked, "LOCKED", Clamp(ppb)))
    <2>1. Clamp(ppb) \in Int
      BY <1>1, ClampFacts
    <2>2. new \in Int /\ Abs(new) <= conf.maxf
      BY <1>1, <1>6, NoWindup DEF Calm
    <2> HIDE DEF ppb, new
    <2>3. locked \in ServoRecord /\ locked.first_update = s.first_update /\ locked.drift = new
      BY <2>1, <2>2 DEF ServoRecord
    <2> HIDE DEF locked
    <2>4. Calm(locked)
      BY <2>2, <2>3 DEF Calm
    <2> QED  BY <2>1, <2>3, <2>4, SampleIsGood
  <1> HIDE DEF first, again, found, locked, state, drift, n, ppb
  <1>7. Calm(first) /\ Calm(again)
    BY <1>0, <1>3, <1>4 DEF Calm
  <1> QED  BY <1>2, <1>3, <1>4, <1>5, <1>6, <1>7, UnlockedGood

\* linreg_sample
LEMMA LinregGood ==
  ASSUME conf \in Configs, NEW s \in ServoRecord, Calm(s), NEW off \in Int,
         NEW r \in linreg_sample(s, off)
  PROVE  GoodSample(s, r)
  <1> DEFINE points == MorePoints(s.points)
             dirty == IF s.dirty > 0 THEN s.dirty - 1 ELSE 0
             t == [s EXCEPT !.points = points, !.dirty = dirty]
  <1>1. points \in 0..MIN_POINTS /\ dirty \in Nat
    BY DEF ServoRecord, MorePoints, MIN_POINTS
  <1>2. r = Unlocked(t) \/
        \E o \in Errors \cup {off} :
           r = Sample([t EXCEPT !.last = Clamp(conf.osc + o)],
                      IF MustStep(s, o) THEN "JUMP" ELSE "LOCKED", Clamp(conf.osc + o))
    BY DEF linreg_sample
  <1> HIDE DEF points, dirty
  <1>3. t \in ServoRecord /\ t.first_update = s.first_update /\ Calm(t)
    BY <1>1 DEF ServoRecord, Calm
  <1> HIDE DEF t
  <1>4. ASSUME NEW o \in Errors \cup {off},
               r = Sample([t EXCEPT !.last = Clamp(conf.osc + o)],
                          IF MustStep(s, o) THEN "JUMP" ELSE "LOCKED", Clamp(conf.osc + o))
        PROVE  GoodSample(s, r)
    <2> DEFINE adj == Clamp(conf.osc + o)
               u == [t EXCEPT !.last = adj]
               state == IF MustStep(s, o) THEN "JUMP" ELSE "LOCKED"
    <2>1. conf.osc + o \in Int /\ conf.maxf \in Nat
      BY ConfFacts, ErrorFacts
    <2>2. adj \in Int
      BY <2>1, ClampFacts
    <2>3. r = Sample(u, state, adj)
      BY <1>4
    <2> HIDE DEF adj
    <2>4. u \in ServoRecord /\ u.first_update = s.first_update /\ Calm(u)
      BY <1>3, <2>2 DEF ServoRecord, Calm
    <2>5. state \in {"JUMP", "LOCKED"} /\ (state = "JUMP" /\ conf.step = 0 => s.first_update)
      BY StepsFirst
    <2> HIDE DEF u, state
    <2> QED  BY <2>2, <2>3, <2>4, <2>5, SampleIsGood
  <1> QED  BY <1>2, <1>3, <1>4, UnlockedGood

\* servo_sample: after an answer that acts on the clock, the next one is not the
\* first.
LEMMA SampleGood ==
  ASSUME conf \in Configs, NEW s \in ServoRecord, Calm(s), NEW off \in Int, NEW age \in Nat,
         NEW r \in servo_sample(s, off, age)
  PROVE  /\ r.servo \in ServoRecord /\ Calm(r.servo) /\ r.adj \in Int
         /\ r.state \in {"UNLOCKED", "JUMP", "LOCKED"}
         /\ r.servo.first_update => s.first_update
         /\ r.state = "JUMP" => ~r.servo.first_update /\ (conf.step = 0 => s.first_update)
  <1>1. PICK q \in TypeSample(s, off, age) :
          r = IF q.state = "UNLOCKED" THEN q ELSE [q EXCEPT !.servo.first_update = FALSE]
    BY DEF servo_sample
  <1>2. GoodSample(s, q)
    <2>1. CASE conf.type = "pi"
      BY <2>1, PiGood DEF TypeSample
    <2>2. CASE conf.type = "linreg"
      BY <2>2, LinregGood DEF TypeSample
    <2>3. CASE conf.type = "nullf"
      <3> DEFINE state == IF off = 0 THEN "LOCKED"
                          ELSE IF MustStep(s, off) THEN "JUMP" ELSE "UNLOCKED"
      <3>1. q = Sample(s, state, 0)
        BY <2>3 DEF TypeSample, nullf_sample
      <3>2. state \in {"UNLOCKED", "JUMP", "LOCKED"}
            /\ (state = "JUMP" /\ conf.step = 0 => s.first_update)
        BY StepsFirst
      <3> HIDE DEF state
      <3>3. 0 \in Int
        OBVIOUS
      <3> QED  BY <3>1, <3>2, <3>3, SampleIsGood
    <2>4. CASE conf.type = "ntpshm"
      <3>1. q = Sample(s, "UNLOCKED", 0) /\ 0 \in Int
        BY <2>4 DEF TypeSample, ntpshm_sample
      <3> QED  BY <3>1, SampleIsGood
    <2> QED  BY <2>1, <2>2, <2>3, <2>4, ConfFacts
  <1>3. CASE q.state = "UNLOCKED"
    BY <1>1, <1>2, <1>3 DEF GoodSample, Samples
  <1>4. CASE q.state # "UNLOCKED"
    <2> DEFINE t == [q.servo EXCEPT !.first_update = FALSE]
    <2>1. t \in ServoRecord /\ t.first_update = FALSE /\ Calm(t)
      BY <1>2 DEF GoodSample, Samples, ServoRecord, Calm
    <2>2. r.servo = t /\ r.state = q.state /\ r.adj = q.adj
      BY <1>1, <1>2, <1>4 DEF GoodSample, Samples
    <2> HIDE DEF t
    <2> QED  BY <1>2, <2>1, <2>2 DEF GoodSample, Samples
  <1> QED  BY <1>3, <1>4

-----------------------------------------------------------------------------
(* The steps.                                                              *)

\* The messages of a clock that was set are messages.
LEMMA AgedQueue ==
  ASSUME NEW q \in Seq(Messages)
  PROVE  Aged(q) \in Seq(Messages)
  <1>2. DOMAIN q = 1..Len(q) /\ Len(q) \in Nat
    BY LenProperties
  <1>1. \A i \in DOMAIN q : [q[i] EXCEPT !.old = TRUE] \in Messages
    <2> SUFFICES ASSUME NEW i \in 1..Len(q) PROVE [q[i] EXCEPT !.old = TRUE] \in Messages
      BY <1>2
    <2>1. q[i] \in Messages
      BY <1>2, ElementOfSeq
    <2> QED  BY <2>1 DEF Messages
  <1> DEFINE f(i) == [q[i] EXCEPT !.old = TRUE]
             n == Len(q)
  <1>3. Aged(q) = [i \in 1..n |-> f(i)]
    BY <1>2 DEF Aged
  <1>4. n \in Nat /\ \A i \in 1..n : f(i) \in Messages
    BY <1>1, <1>2
  <1> HIDE DEF f, n
  <1> QED  BY <1>3, <1>4

\* A servo that differs from the last one in its measurements only.
LEMMA Measuring ==
  ASSUME IInv, servo' \in ServoRecord, UNCHANGED <<conf, steps>>,
         servo'.first_update = servo.first_update, Calm(servo)'
  PROVE  /\ conf' \in Configs /\ servo' \in ServoRecord /\ steps' \in Nat /\ Calm(servo)'
         /\ conf'.step = 0 => steps' <= 1 /\ (servo'.first_update => steps' = 0)
  BY DEF IInv

\* The invariant from its parts.
LEMMA Parts ==
  ASSUME conf' \in Configs, servo' \in ServoRecord, steps' \in Nat, Calm(servo)',
         conf'.step = 0 => steps' <= 1 /\ (servo'.first_update => steps' = 0),
         err' \in Int, freq' \in Int, queue' \in Seq(Messages),
         alarm' \in {NULL, "ok", "alarm", "false alarm"}
  PROVE  IInv'
  BY DEF IInv, TypeOK, ServoRecord

\* A second passes.
LEMMA TickStep ==
  ASSUME IInv, NEW arrives \in BOOLEAN, Tick(arrives)
  PROVE  IInv'
  <1> DEFINE older(i) == [queue[i] EXCEPT !.age = @ + 1]
             n == Len(queue)
             q == [i \in 1..n |-> older(i)]
             age == IF servo.count = 1 THEN servo.age0 + 1 ELSE servo.age0
  <1>1. n \in Nat /\ DOMAIN queue = 1..n /\ \A i \in 1..n : queue[i] \in Messages
    BY LenProperties DEF IInv
  <1>2. \A i \in 1..n : older(i) \in Messages
    <2> SUFFICES ASSUME NEW i \in 1..n PROVE older(i) \in Messages
      OBVIOUS
    <2> DEFINE a == queue[i].age + 1
    <2>1. queue[i] \in Messages /\ a \in Nat
      BY <1>1 DEF Messages
    <2> HIDE DEF a
    <2>2. [queue[i] EXCEPT !.age = a] \in Messages
      BY <2>1 DEF Messages
    <2>3. older(i) = [queue[i] EXCEPT !.age = a]
      BY <2>1 DEF a, Messages
    <2> QED  BY <2>2, <2>3
  <1>3. err' \in Int /\ freq' \in Int
    <2>1. conf.osc \in Int /\ err \in Int /\ freq \in Int
      BY ConfFacts DEF IInv, TypeOK
    <2>2. err' = err + conf.osc + freq /\ freq' = freq
      BY DEF Tick
    <2> QED  BY <2>1, <2>2
  <1>4. queue' = IF arrives THEN Append(q, Message(err')) ELSE q
    BY <1>1 DEF Tick
  <1>5. Message(err') \in Messages
    BY <1>3 DEF Message, Messages
  <1>6. q \in Seq(Messages)
    <2> HIDE DEF older, n
    <2> QED  BY <1>1, <1>2
  <1>7. queue' \in Seq(Messages)
    <2> HIDE DEF q
    <2> QED  BY <1>4, <1>5, <1>6
  <1>8. servo \in ServoRecord /\ age \in Nat /\ Calm(servo)
    BY DEF IInv, ServoRecord
  <1>9. servo' = [servo EXCEPT !.age0 = age]
    BY <1>8 DEF Tick, ServoRecord
  <1>10. UNCHANGED <<conf, steps, alarm>>
    BY DEF Tick
  <1> HIDE DEF age, q
  <1>11. servo' \in ServoRecord /\ servo'.first_update = servo.first_update /\ Calm(servo)'
    BY <1>8, <1>9, <1>10 DEF ServoRecord, Calm
  <1>12. alarm' \in {NULL, "ok", "alarm", "false alarm"}
    BY <1>10 DEF IInv, TypeOK
  <1> QED  BY <1>3, <1>7, <1>10, <1>11, <1>12, Measuring, Parts

\* Somebody sets the clock.
LEMMA SetClockStep ==
  ASSUME IInv, NEW e \in Errors, SetClock(e)
  PROVE  IInv'
  <1> DEFINE back == servo.back \/ e < err
             four == MIN_POINTS
  <1>1. err' \in Int /\ freq' \in Int
    BY ErrorFacts DEF IInv, TypeOK, SetClock
  <1>2. queue' \in Seq(Messages)
    BY AgedQueue DEF IInv, SetClock
  <1>3. servo \in ServoRecord /\ Calm(servo) /\ back \in BOOLEAN /\ four \in Nat
    BY ErrorFacts DEF IInv, ServoRecord, MIN_POINTS, TypeOK
  <1>4. servo' = [servo EXCEPT !.back = back, !.dirty = four]
    BY <1>3 DEF SetClock, ServoRecord
  <1>5. UNCHANGED <<conf, steps, alarm>>
    BY DEF SetClock
  <1> HIDE DEF back, four
  <1>6. servo' \in ServoRecord /\ servo'.first_update = servo.first_update /\ Calm(servo)'
    BY <1>3, <1>4, <1>5 DEF ServoRecord, Calm
  <1>7. alarm' \in {NULL, "ok", "alarm", "false alarm"}
    BY <1>5 DEF IInv, TypeOK
  <1> QED  BY <1>1, <1>2, <1>5, <1>6, <1>7, Measuring, Parts

\* A new servo.
LEMMA NewServo ==
  ASSUME NEW f \in Int
  PROVE  /\ servo_create(f) \in ServoRecord
         /\ servo_create(f).count = 0
  <1> DEFINE d == -f
             zero == 0
  <1>1. d \in Int /\ zero \in 0..2 /\ zero \in Int /\ zero \in Nat /\ zero \in 0..MIN_POINTS
    BY DEF MIN_POINTS
  <1>2. servo_create(f) =
          [count |-> zero, drift |-> d, last |-> d, o0 |-> zero, age0 |-> zero, back |-> FALSE,
           points |-> zero, dirty |-> zero, first_update |-> TRUE]
    BY DEF servo_create
  <1>3. zero = 0
    OBVIOUS
  <1> HIDE DEF d, zero
  <1> QED  BY <1>1, <1>2, <1>3 DEF ServoRecord

\* The clock is exchanged, and its servo with it.
LEMMA SwitchStep ==
  ASSUME IInv, NEW e \in Errors, NEW f \in {-conf.osc, 0}, clock_switch_phc(e, f)
  PROVE  IInv'
  <1>1. err' \in Int
    BY ErrorFacts DEF clock_switch_phc
  <1>2. f \in Int /\ freq' = f
    BY ConfFacts DEF IInv, clock_switch_phc
  <1>3. queue' \in Seq(Messages)
    BY AgedQueue DEF IInv, clock_switch_phc
  <1>4. servo' \in ServoRecord /\ Calm(servo)'
    BY <1>2, NewServo DEF clock_switch_phc, Calm
  <1>5. conf' \in Configs /\ steps' = 0 /\ alarm' \in {NULL, "ok", "alarm", "false alarm"}
    BY DEF IInv, TypeOK, clock_switch_phc
  <1>6. steps' \in Nat /\ (conf'.step = 0 => steps' <= 1 /\ (servo'.first_update => steps' = 0))
    <2>1. steps' = 0
      BY <1>5
    <2>2. steps' \in Nat /\ steps' <= 1
      BY <2>1, SMT
    <2> QED  BY <2>1, <2>2, Zenon
  <1>7. freq' \in Int
    BY <1>2
  <1> QED  BY <1>1, <1>3, <1>4, <1>5, <1>6, <1>7, Parts

\* A message is checked, and the servo may be reset; it is no new servo.
LEMMA CheckStep ==
  ASSUME IInv, Check
  PROVE  IInv'
  <1> DEFINE zero == 0
             reset == [servo EXCEPT !.count = zero, !.points = zero, !.dirty = zero]
  <1>1. err' \in Int /\ freq' \in Int /\ queue' \in Seq(Messages)
    BY DEF IInv, TypeOK, Check
  <1>2. servo \in ServoRecord /\ Calm(servo) /\ UNCHANGED <<conf, steps>>
    BY DEF IInv, Check
  <1>3. servo' = servo \/ servo' = reset
    BY DEF Check, servo_reset
  <1>4. alarm' \in {NULL, "ok", "alarm", "false alarm"}
    BY DEF Check
  <1>5. zero \in 0..2 /\ zero \in Nat /\ zero \in 0..MIN_POINTS /\ zero # 2
    BY DEF MIN_POINTS
  <1> HIDE DEF zero
  <1>6. reset \in ServoRecord /\ reset.count = zero /\ reset.first_update = servo.first_update
    BY <1>2, <1>5 DEF ServoRecord
  <1> HIDE DEF reset
  <1>7. servo' \in ServoRecord /\ servo'.first_update = servo.first_update /\ Calm(servo)'
    BY <1>2, <1>3, <1>5, <1>6 DEF Calm
  <1> QED  BY <1>1, <1>2, <1>4, <1>7, Measuring, Parts

\* The servo's answer is applied.
LEMMA SynchronizeStep ==
  ASSUME IInv, Synchronize
  PROVE  IInv'
  <1> DEFINE m == Head(queue)
  <1>1. m \in Messages /\ Tail(queue) \in Seq(Messages)
    BY DEF IInv, Synchronize
  <1>2. PICK r \in servo_sample(servo, m.err, m.age) : clock_synchronize(r)
    BY DEF Synchronize
  <1>3. m.err \in Int /\ m.age \in Nat
    BY <1>1 DEF Messages
  <1>4. conf \in Configs /\ servo \in ServoRecord /\ Calm(servo) /\ steps \in Nat
        /\ err \in Int /\ freq \in Int
    BY DEF IInv, TypeOK
  <1> HIDE DEF m
  <1>5. /\ r.servo \in ServoRecord /\ Calm(r.servo) /\ r.adj \in Int
        /\ r.state \in {"UNLOCKED", "JUMP", "LOCKED"}
        /\ r.servo.first_update => servo.first_update
        /\ r.state = "JUMP" => ~r.servo.first_update /\ (conf.step = 0 => servo.first_update)
    BY <1>2, <1>3, <1>4, SampleGood
  <1>6. err' \in Int /\ freq' \in Int
    <2>1. err' = Adjust(r, m.err).err /\ freq' = Adjust(r, m.err).freq
      BY <1>2 DEF clock_synchronize, m
    <2>2. Adjust(r, m.err).err \in Int /\ Adjust(r, m.err).freq \in Int
      <3> DEFINE e == err - m.err
                 f == -r.adj
      <3>1. e \in Int /\ f \in Int
        BY <1>3, <1>4, <1>5
      <3> HIDE DEF e, f
      <3> QED  BY <1>4, <1>5, <3>1 DEF Adjust, e, f
    <2> QED  BY <2>1, <2>2
  <1>7. queue' \in Seq(Messages)
    BY <1>1, <1>2, AgedQueue DEF clock_synchronize
  <1>8. servo' = r.servo /\ conf' = conf /\ alarm' = NULL
        /\ steps' = IF r.state = "JUMP" THEN steps + 1 ELSE steps
    BY <1>2 DEF clock_synchronize
  <1>9. steps' \in Nat /\ (conf.step = 0 => steps' <= 1 /\ (servo'.first_update => steps' = 0))
    BY <1>4, <1>5, <1>8 DEF IInv
  <1>10. Calm(servo)'
    BY <1>5, <1>8 DEF Calm
  <1> QED  BY <1>4, <1>5, <1>6, <1>7, <1>8, <1>9, <1>10, Parts

-----------------------------------------------------------------------------
(* The theorems.                                                           *)

\* It holds at first.
LEMMA InitHolds == Init => IInv
  <1> SUFFICES ASSUME Init PROVE IInv
    OBVIOUS
  <1>1. servo \in ServoRecord /\ servo.count = 0
    BY NewServo DEF Init
  <1>2. err \in Int /\ freq \in Int /\ conf \in Configs /\ alarm = NULL /\ steps = 0
    BY ErrorFacts DEF Init
  <1>3. queue \in Seq(Messages)
    BY DEF Init
  <1>4. servo.points \in 0..MIN_POINTS /\ servo.count \in 0..2
    BY <1>1 DEF ServoRecord
  <1> QED  BY <1>1, <1>2, <1>3, <1>4 DEF IInv, TypeOK, Calm

\* The inductive invariant: the types, the integral part of a locked servo within
\* its limits, and a first update still to come only while the clock was not
\* stepped (servo_sample, servo_reset, clock_switch_phc).
THEOREM Invariant == Spec => []IInv
  <1>2. IInv /\ [Next]_vars => IInv'
    <2> SUFFICES ASSUME IInv, [Next]_vars PROVE IInv'
      OBVIOUS
    <2>1. ASSUME NEW a \in BOOLEAN, Tick(a) PROVE IInv'
      BY <2>1, TickStep
    <2>2. ASSUME NEW e \in Errors, SetClock(e) PROVE IInv'
      BY <2>2, SetClockStep
    <2>3. ASSUME NEW e \in Errors, NEW f \in {-conf.osc, 0}, clock_switch_phc(e, f) PROVE IInv'
      BY <2>3, SwitchStep
    <2>4. CASE Check
      BY <2>4, CheckStep
    <2>5. CASE Synchronize
      BY <2>5, SynchronizeStep
    <2>6. CASE UNCHANGED vars
      BY <2>6 DEF vars, IInv, TypeOK, Calm
    <2> QED  BY <2>1, <2>2, <2>3, <2>4, <2>5, <2>6 DEF Next
  <1> QED  BY InitHolds, <1>2, PTL DEF Spec

\* Restrained: the clock is stepped at most once by a servo whose step_threshold is
\* zero, also when the sanity check has reset it, and the integral part of the PI
\* servo stays within the frequency's limits (servo_sample, pi_sample).
THEOREM ServoRestrained == Spec => []Restrained
  <1>1. IInv => Restrained
    BY DEF IInv, Restrained, StepsOnce, Calm, WithinLimits
  <1> QED  BY <1>1, Invariant, PTL

-----------------------------------------------------------------------------
(* The sanity check.                                                       *)

CheckRecord ==
  [known : BOOLEAN, cur : Int, max : Int, min : Int, last : Int \cup {NULL}, lag : Nat, mono : Nat]

\* How far the clock may have gone in n seconds with a frequency between lo and hi.
Within(d, lo, hi, n) == d <= (hi + conf.limit) * n /\ d >= (lo - conf.limit) * n

\* A stamp of this second that is still good is the clock's time.
Fresh == \A i \in DOMAIN queue : queue[i].age = 0 /\ ~queue[i].old => queue[i].err = err

\* The check knows the clock's frequency, and since the last check every step and every
\* frequency it was given, if nobody else sets the clock.
Watched ==
  /\ check \in CheckRecord /\ amiss \in {"no", "once", "switched"}
  /\ check.known /\ amiss # "switched" => check.cur = freq
  /\ check.known => check.min <= check.cur /\ check.cur <= check.max
  /\ check.last # NULL => check.known
  /\ amiss = "no" /\ check.last # NULL /\ check.lag = 0 /\ conf.limit # 0 =>
       Within(err - check.last, check.min, check.max, check.mono)

WInv == IInv /\ Fresh /\ Watched /\ NoFalseAlarm

\* The limit of the check is a limit of the oscillator.
LEMMA LimitFacts ==
  ASSUME conf \in Configs
  PROVE  /\ conf.limit \in Nat /\ conf.osc \in Int
         /\ conf.limit # 0 => conf.osc <= conf.limit /\ conf.osc >= -conf.limit
  <1>1. conf.limit \in Nat /\ conf.osc \in Int /\ (conf.limit # 0 => Abs(conf.osc) <= conf.limit)
    BY ServoAssumption
  <1> QED  BY <1>1 DEF Abs

\* One second more.
LEMMA WithinLater ==
  ASSUME conf \in Configs, conf.limit # 0, NEW d \in Int, NEW lo \in Int, NEW hi \in Int, NEW n \in Nat,
         NEW f \in Int, lo <= f, f <= hi, Within(d, lo, hi, n)
  PROVE  Within(d + conf.osc + f, lo, hi, n + 1)
  <1> DEFINE a == hi + conf.limit
             b == lo - conf.limit
  <1>1. a \in Int /\ b \in Int /\ d <= a * n /\ d >= b * n /\ conf.osc \in Int
        /\ conf.osc + f <= a /\ conf.osc + f >= b
    BY LimitFacts DEF Within
  <1> HIDE DEF a, b
  <1>2. a * (n + 1) = a * n + a /\ b * (n + 1) = b * n + b /\ a * n \in Int /\ b * n \in Int
    BY <1>1
  <1>3. d + conf.osc + f <= a * (n + 1) /\ d + conf.osc + f >= b * (n + 1)
    BY <1>1, <1>2
  <1> QED  BY <1>3 DEF Within, a, b

\* More frequencies.
LEMMA WithinMore ==
  ASSUME conf \in Configs, NEW d \in Int, NEW lo \in Int, NEW hi \in Int, NEW n \in Nat,
         NEW lo2 \in Int, NEW hi2 \in Int, lo2 <= lo, hi <= hi2, Within(d, lo, hi, n)
  PROVE  Within(d, lo2, hi2, n)
  <1> DEFINE a == hi + conf.limit
             b == lo - conf.limit
             u == hi2 - hi
             v == lo - lo2
  <1>1. /\ a \in Int /\ b \in Int /\ u \in Nat /\ v \in Nat /\ d <= a * n /\ d >= b * n
        /\ hi2 + conf.limit = a + u /\ lo2 - conf.limit = b - v
    BY LimitFacts DEF Within
  <1> HIDE DEF a, b, u, v
  <1>2. /\ (a + u) * n = a * n + u * n /\ (b - v) * n = b * n - v * n
        /\ u * n \in Nat /\ v * n \in Nat /\ a * n \in Int /\ b * n \in Int
    BY <1>1
  <1>3. d <= (a + u) * n /\ d >= (b - v) * n
    BY <1>1, <1>2
  <1> QED  BY <1>1, <1>3 DEF Within

\* The messages of a clock that was set are no longer good.
LEMMA AgedOld ==
  ASSUME NEW q \in Seq(Messages), NEW i \in DOMAIN Aged(q)
  PROVE  Aged(q)[i].old
  <1>1. DOMAIN q = 1..Len(q) /\ i \in DOMAIN q
    BY LenProperties DEF Aged
  <1>2. q[i] \in Messages
    BY <1>1, ElementOfSeq
  <1>3. Aged(q)[i] = [q[i] EXCEPT !.old = TRUE]
    BY <1>1 DEF Aged
  <1> QED  BY <1>2, <1>3 DEF Messages

\* A second passes.
LEMMA TickWatched ==
  ASSUME WInv, NEW arrives \in BOOLEAN, Tick(arrives)
  PROVE  WInv'
  <1>1. IInv'
    BY TickStep DEF WInv
  <1>2. /\ err \in Int /\ freq \in Int /\ queue \in Seq(Messages) /\ conf \in Configs
        /\ check \in CheckRecord
    BY DEF WInv, Watched, IInv, TypeOK
  <1>3. /\ err' = err + conf.osc + freq /\ UNCHANGED <<conf, freq, alarm, amiss>>
        /\ check' = [check EXCEPT !.mono = IF check.last = NULL THEN @ ELSE @ + 1]
    BY DEF Tick
  <1>4. Fresh'
    <2> DEFINE older(i) == [queue[i] EXCEPT !.age = @ + 1]
               n == Len(queue)
               q == [i \in 1..n |-> older(i)]
    <2>1. n \in Nat /\ DOMAIN queue = 1..n /\ \A i \in 1..n : queue[i] \in Messages
      BY <1>2, LenProperties
    <2>2. queue' = IF arrives THEN Append(q, Message(err')) ELSE q
      BY <2>1 DEF Tick
    <2>3. \A i \in 1..n : older(i) \in Messages /\ older(i).age # 0
      <3> SUFFICES ASSUME NEW i \in 1..n PROVE older(i) \in Messages /\ older(i).age # 0
        OBVIOUS
      <3> DEFINE a == queue[i].age + 1
      <3>1. queue[i] \in Messages /\ a \in Nat /\ a # 0
        BY <2>1 DEF Messages
      <3>2. older(i) = [queue[i] EXCEPT !.age = a]
        BY <3>1 DEF Messages
      <3> HIDE DEF a, older
      <3> QED  BY <3>1, <3>2 DEF Messages
    <2>4. q \in Seq(Messages) /\ Len(q) = n
      <3> HIDE DEF older, n
      <3> QED  BY <2>1, <2>3
    <2>5. \A i \in 1..n : q[i].age # 0
      <3> HIDE DEF older
      <3> QED  BY <2>3
    <2>6. Message(err').err = err'
      BY DEF Message
    <2> HIDE DEF q, n, older
    <2>7. SUFFICES ASSUME NEW i \in DOMAIN queue', queue'[i].age = 0 PROVE queue'[i].err = err'
      BY DEF Fresh
    <2>8. DOMAIN q = 1..n
      BY <2>4, LenProperties
    <2>9. CASE ~arrives
      BY <2>2, <2>5, <2>7, <2>8, <2>9
    <2>10. CASE arrives
      <3> DEFINE m == Message(err')
      <3>1. queue' = Append(q, m)
        BY <2>2, <2>10
      <3> HIDE DEF m
      <3>2. DOMAIN queue' = 1..(n + 1) /\ queue'[n + 1] = m /\ \A j \in 1..n : queue'[j] = q[j]
        BY <2>1, <2>4, <3>1, LenProperties
      <3>3. i \notin 1..n
        BY <2>5, <2>7, <3>2
      <3>4. i = n + 1
        BY <2>1, <3>2, <3>3
      <3> QED  BY <2>6, <3>2, <3>4 DEF m
    <2> QED  BY <2>9, <2>10
  <1>5. Watched'
    <2> DEFINE mono == IF check.last = NULL THEN check.mono ELSE check.mono + 1
    <2>1. check' = [check EXCEPT !.mono = mono] /\ mono \in Nat
      BY <1>2, <1>3 DEF CheckRecord
    <2>2. check.last # NULL => mono = check.mono + 1
      OBVIOUS
    <2> HIDE DEF mono
    <2>3. /\ check' \in CheckRecord /\ check'.known = check.known /\ check'.cur = check.cur
          /\ check'.max = check.max /\ check'.min = check.min /\ check'.last = check.last
          /\ check'.lag = check.lag /\ check'.mono = mono
      BY <1>2, <2>1 DEF CheckRecord
    <2>4. ASSUME amiss = "no", check.last # NULL, check.lag = 0, conf.limit # 0
          PROVE  Within(err' - check.last, check.min, check.max, mono)
      <3> DEFINE d == err - check.last
      <3>1. /\ Within(d, check.min, check.max, check.mono)
            /\ check.min <= freq /\ freq <= check.max
        BY <2>4 DEF WInv, Watched
      <3>2. /\ d \in Int /\ check.min \in Int /\ check.max \in Int /\ check.mono \in Nat
            /\ err' - check.last = d + conf.osc + freq
        BY <1>2, <1>3, <2>4, LimitFacts DEF CheckRecord
      <3> HIDE DEF d
      <3>3. Within(d + conf.osc + freq, check.min, check.max, check.mono + 1)
        BY <1>2, <2>4, <3>1, <3>2, WithinLater
      <3> QED  BY <2>2, <2>4, <3>2, <3>3
    <2>5. Within(err' - check.last, check.min, check.max, mono) =>
            Within(err - check.last, check.min, check.max, check.mono)'
      BY <1>3, <2>3 DEF Within
    <2> QED  BY <1>3, <2>3, <2>4, <2>5 DEF WInv, Watched
  <1> QED  BY <1>1, <1>3, <1>4, <1>5 DEF WInv, NoFalseAlarm

\* Somebody sets the clock, or it is exchanged: the check does not know.
LEMMA SetWatched ==
  ASSUME WInv, NEW e \in Errors,
         SetClock(e) \/ \E f \in {-conf.osc, 0} : clock_switch_phc(e, f)
  PROVE  WInv'
  <1>1. IInv'
    BY SetClockStep, SwitchStep DEF WInv
  <1>2. queue' = Aged(queue) /\ queue \in Seq(Messages) /\ UNCHANGED <<conf, check, alarm>>
    BY DEF WInv, IInv, SetClock, clock_switch_phc
  <1>3. Fresh'
    BY <1>2, AgedOld DEF Fresh
  <1>4. amiss \in {"no", "once", "switched"}
    BY DEF WInv, Watched
  <1>5. /\ amiss' \in {"once", "switched"}
        /\ amiss' # "switched" => amiss # "switched" /\ freq' = freq
    BY <1>4 DEF SetClock, clock_switch_phc
  <1>6. Watched'
    BY <1>2, <1>5 DEF WInv, Watched
  <1> QED  BY <1>1, <1>2, <1>3, <1>6 DEF WInv, NoFalseAlarm

\* A stamp that is good and was read at once does not look insane.
LEMMA CheckWatched ==
  ASSUME WInv, Check
  PROVE  WInv'
  <1> DEFINE m == Head(queue)
             bad == conf.limit # 0 /\ Ready(check, m) /\ Insane(check, m)
             told == amiss # "no" \/ m.old \/ m.age # 0 \/ check.lag # 0
  <1>1. IInv'
    BY CheckStep DEF WInv
  <1>2. /\ alarm' = (IF ~bad THEN "ok" ELSE IF told THEN "alarm" ELSE "false alarm")
        /\ check' = Checked(check, m)
        /\ amiss' = (IF m.old /\ amiss = "no" THEN "once"
                     ELSE IF ~m.old /\ amiss = "once" /\ Ready(check, m) THEN "no" ELSE amiss)
        /\ UNCHANGED <<conf, err, freq, queue, steps, events>> /\ queue # <<>>
    BY DEF Check
  <1>3. /\ err \in Int /\ freq \in Int /\ queue \in Seq(Messages) /\ conf \in Configs
        /\ check \in CheckRecord /\ amiss \in {"no", "once", "switched"} /\ Watched
    BY DEF WInv, Watched, IInv, TypeOK
  <1>4. m \in Messages /\ m = queue[1] /\ 1 \in DOMAIN queue
    <2>1. DOMAIN queue = 1..Len(queue) /\ Len(queue) \in Nat
      BY <1>3, LenProperties
    <2>2. Len(queue) # 0
      BY <1>2, <1>3, EmptySeq
    <2>3. queue \in Seq(Messages) /\ queue # <<>>
      BY <1>2, <1>3
    <2>4. m \in Messages
      BY <2>3
    <2>5. m = queue[1]
      BY <2>3, HeadTailProperties
    <2> QED  BY <2>1, <2>2, <2>4, <2>5
  <1>5. m.err \in Int /\ m.age \in Nat /\ m.old \in BOOLEAN /\ (m.age = 0 /\ ~m.old => m.err = err)
    BY <1>4 DEF Messages, WInv, Fresh
  <1> HIDE DEF m
  <1>6. Fresh'
    BY <1>2 DEF WInv, Fresh
  <1>7. bad => told
    <2> SUFFICES ASSUME conf.limit # 0, Insane(check, m), amiss = "no", ~m.old, m.age = 0, check.lag = 0
                 PROVE  FALSE
      OBVIOUS
    <2>1. check.last # NULL /\ m.err = err
      BY <1>5 DEF Insane
    <2>2. Within(err - check.last, check.min, check.max, check.mono)
      BY <1>3, <2>1 DEF Watched
    <2>3. /\ err - check.last \in Int /\ (check.max + conf.limit) * check.mono \in Int
          /\ (check.min - conf.limit) * check.mono \in Int
      BY <1>3, <2>1, LimitFacts DEF CheckRecord
    <2> QED  BY <2>1, <2>2, <2>3 DEF Insane, Within
  <1>8. NoFalseAlarm'
    BY <1>2, <1>7 DEF NoFalseAlarm
  <1>9. Watched'
    <2>1. CASE ~Ready(check, m)
      <3>1. check' = check
        BY <1>2, <2>1 DEF Checked
      <3>2. amiss' \in {"no", "once", "switched"} /\ (amiss' = "no" => amiss = "no") /\ (amiss' = "switched" <=> amiss = "switched")
        BY <1>2, <1>3, <2>1
      <3> QED  BY <1>2, <1>3, <3>1, <3>2 DEF Watched, Within
    <2>2. CASE Ready(check, m)
      <3> DEFINE cur == check.cur
                 e == m.err
                 age == m.age
                 zero == 0
      <3>1. check' = [check EXCEPT !.last = e, !.lag = age, !.mono = zero, !.max = cur, !.min = cur]
        BY <1>2, <2>2 DEF Checked
      <3>2. cur \in Int /\ e \in Int /\ age \in Nat /\ zero \in Nat /\ zero = 0
        BY <1>3, <1>5 DEF CheckRecord
      <3> HIDE DEF cur, e, age, zero
      <3>3. /\ check' \in CheckRecord /\ check'.known = check.known /\ check'.cur = check.cur
            /\ check'.last = e /\ check'.lag = age /\ check'.mono = zero /\ check'.max = cur /\ check'.min = cur
        BY <1>3, <3>1, <3>2 DEF CheckRecord
      <3>4. check.known
        BY <2>2 DEF Ready
      <3>5. amiss' \in {"no", "once", "switched"} /\ (amiss' = "no" => ~m.old) /\ (amiss' = "switched" <=> amiss = "switched")
        BY <1>2, <1>3, <1>5
      <3>6. ASSUME amiss' = "no", age = 0 PROVE Within(err - check.last, check.min, check.max, check.mono)'
        <4>1. e = err
          BY <1>5, <3>5, <3>6 DEF e, age
        <4>2. conf.limit \in Nat
          BY <1>3, LimitFacts
        <4>3. err - e = 0 /\ (cur + conf.limit) * 0 = 0 /\ (cur - conf.limit) * 0 = 0
          BY <1>3, <3>2, <4>1, <4>2
        <4>4. 0 <= 0 /\ 0 >= 0
          OBVIOUS
        <4> QED  BY <1>2, <3>2, <3>3, <4>3, <4>4 DEF Within
      <3>7. cur <= cur /\ check'.cur = cur
        BY <3>2, <3>3 DEF cur
      <3> QED  BY <1>2, <1>3, <3>3, <3>4, <3>5, <3>6, <3>7 DEF Watched
    <2> QED  BY <2>1, <2>2
  <1> QED  BY <1>1, <1>6, <1>8, <1>9 DEF WInv

\* What the check is told of a new frequency.
LEMMA SetFreq ==
  ASSUME Watched, conf \in Configs, NEW f \in Int, NEW c, c = clockcheck_set_freq(check, f)
  PROVE  /\ c \in CheckRecord /\ c.known /\ c.cur = f /\ c.min <= f /\ f <= c.max
         /\ c.last = check.last /\ c.lag = check.lag /\ c.mono = check.mono
         /\ check.known => c.min <= check.min /\ check.max <= c.max
  <1> DEFINE hi == IF ~check.known \/ check.max < f THEN f ELSE check.max
             lo == IF ~check.known \/ check.min > f THEN f ELSE check.min
  <1>1. check \in CheckRecord /\ check.max \in Int /\ check.min \in Int
    BY DEF Watched, CheckRecord
  <1>2. c = [check EXCEPT !.max = hi, !.min = lo, !.cur = f, !.known = TRUE]
    BY <1>1 DEF clockcheck_set_freq, CheckRecord
  <1>3. /\ hi \in Int /\ lo \in Int /\ lo <= f /\ f <= hi
        /\ check.known => lo <= check.min /\ check.max <= hi
    BY <1>1
  <1> HIDE DEF hi, lo
  <1>4. /\ c \in CheckRecord /\ c.known /\ c.cur = f /\ c.min = lo /\ c.max = hi
        /\ c.last = check.last /\ c.lag = check.lag /\ c.mono = check.mono
    BY <1>1, <1>2, <1>3 DEF CheckRecord
  <1> QED  BY <1>3, <1>4

\* The check is told of a new frequency and of a step.
LEMMA SynchronizeWatched ==
  ASSUME WInv, Synchronize
  PROVE  WInv'
  <1> DEFINE m == Head(queue)
  <1>1. IInv'
    BY SynchronizeStep DEF WInv
  <1>2. PICK r \in servo_sample(servo, m.err, m.age) : clock_synchronize(r)
    BY DEF Synchronize
  <1>3. /\ err \in Int /\ freq \in Int /\ queue \in Seq(Messages) /\ conf \in Configs
        /\ check \in CheckRecord /\ amiss \in {"no", "once", "switched"} /\ Watched
        /\ servo \in ServoRecord /\ Calm(servo) /\ queue # <<>>
    BY DEF WInv, Watched, IInv, TypeOK, Synchronize
  <1>4. m \in Messages /\ Tail(queue) \in Seq(Messages)
    BY <1>3
  <1>5. m.err \in Int /\ m.age \in Nat
    BY <1>4 DEF Messages
  <1>6. r.state \in {"UNLOCKED", "JUMP", "LOCKED"} /\ r.adj \in Int
    BY <1>2, <1>3, <1>5, SampleGood
  <1>7. /\ err' = Adjust(r, m.err).err /\ freq' = Adjust(r, m.err).freq /\ check' = Adjust(r, m.err).check
        /\ queue' = (IF r.state = "JUMP" THEN Aged(Tail(queue)) ELSE Tail(queue))
        /\ alarm' = NULL /\ conf' = conf
        /\ amiss' = IF amiss = "switched" /\ r.state # "UNLOCKED" THEN "once" ELSE amiss
    BY <1>2 DEF clock_synchronize
  <1> DEFINE off == m.err
             f == -r.adj
             c == clockcheck_set_freq(check, f)
  <1>8. off \in Int /\ f \in Int
    BY <1>5, <1>6
  <1>9. /\ r.state = "UNLOCKED" => err' = err /\ freq' = freq /\ check' = check
        /\ r.state = "LOCKED" => err' = err /\ freq' = f /\ check' = c
        /\ r.state = "JUMP" => err' = err - off /\ freq' = f /\ check' = clockcheck_step(c, -off)
    BY <1>6, <1>7 DEF Adjust
  <1> HIDE DEF m, off, f, c
  <1>10. NoFalseAlarm'
    BY <1>7, ServoAssumption DEF NoFalseAlarm
  <1>11. Fresh'
    <2>1. CASE r.state = "JUMP"
      BY <1>4, <1>7, <2>1, AgedOld DEF Fresh
    <2>2. CASE r.state # "JUMP"
      <3>1. err' = err /\ queue' = Tail(queue)
        BY <1>6, <1>7, <1>9, <2>2
      <3>2. \A i \in DOMAIN Tail(queue) : i + 1 \in DOMAIN queue /\ Tail(queue)[i] = queue[i + 1]
        BY <1>3
      <3> QED  BY <3>1, <3>2 DEF WInv, Fresh
    <2> QED  BY <2>1, <2>2
  <1>12. Watched'
    <2>1. CASE r.state = "UNLOCKED"
      <3>1. UNCHANGED <<err, freq, check, conf, amiss>>
        BY <1>7, <1>9, <2>1
      <3> QED  BY <1>3, <3>1 DEF Watched, Within
    <2>2. ASSUME r.state # "UNLOCKED" PROVE amiss' \in {"no", "once"} /\ (amiss' = "no" => amiss = "no")
      BY <1>3, <1>7, <2>2
    <2>3. /\ c \in CheckRecord /\ c.known /\ c.cur = f /\ c.min <= f /\ f <= c.max
          /\ c.last = check.last /\ c.lag = check.lag /\ c.mono = check.mono
          /\ check.known => c.min <= check.min /\ check.max <= c.max
      BY <1>3, <1>8, SetFreq DEF c
    <2>4. ASSUME amiss = "no", check.last # NULL, check.lag = 0, conf.limit # 0
          PROVE  Within(err - check.last, c.min, c.max, check.mono)
      <3>1. Within(err - check.last, check.min, check.max, check.mono) /\ check.known
        BY <1>3, <2>4 DEF Watched
      <3>2. /\ err - check.last \in Int /\ check.min \in Int /\ check.max \in Int /\ check.mono \in Nat
            /\ c.min \in Int /\ c.max \in Int
        BY <1>3, <2>3, <2>4 DEF CheckRecord
      <3> QED  BY <1>3, <2>3, <3>1, <3>2, WithinMore
    <2>5. CASE r.state = "LOCKED"
      <3>1. err' = err /\ freq' = f /\ check' = c /\ amiss' \in {"no", "once"} /\ (amiss' = "no" => amiss = "no") /\ conf' = conf
        BY <1>7, <1>9, <2>2, <2>5
      <3>2. Within(err - check.last, c.min, c.max, check.mono) =>
              Within(err - check.last, check.min, check.max, check.mono)'
        BY <2>3, <3>1 DEF Within
      <3> QED  BY <2>3, <2>4, <3>1, <3>2 DEF Watched
    <2>6. CASE r.state = "JUMP"
      <3>1. /\ err' = err - off /\ freq' = f /\ check' = clockcheck_step(c, -off) /\ amiss' \in {"no", "once"}
            /\ (amiss' = "no" => amiss = "no") /\ conf' = conf
        BY <1>7, <1>9, <2>2, <2>6
      <3>2. CASE c.last = NULL
        <4>1. check' = c
          BY <3>1, <3>2 DEF clockcheck_step
        <4> QED  BY <2>3, <3>1, <3>2, <4>1 DEF Watched
      <3>3. CASE c.last # NULL
        <4> DEFINE l == c.last + (-off)
        <4>1. check' = [c EXCEPT !.last = l]
          BY <3>1, <3>3 DEF clockcheck_step
        <4>2. c.last \in Int /\ l \in Int
          BY <1>8, <2>3, <3>3 DEF CheckRecord
        <4>3. (err - off) - l = err - check.last
          BY <1>3, <1>8, <2>3, <4>2
        <4> HIDE DEF l
        <4>4. /\ check' \in CheckRecord /\ check'.known = c.known /\ check'.cur = c.cur /\ check'.min = c.min
              /\ check'.max = c.max /\ check'.last = l /\ check'.lag = c.lag /\ check'.mono = c.mono
          BY <2>3, <4>1, <4>2 DEF CheckRecord
        <4>5. Within(err - check.last, c.min, c.max, check.mono) =>
                Within(err - check.last, check.min, check.max, check.mono)'
          BY <2>3, <3>1, <4>3, <4>4 DEF Within
        <4> QED  BY <2>3, <2>4, <3>1, <3>3, <4>4, <4>5 DEF Watched
      <3> QED  BY <3>2, <3>3
    <2> QED  BY <1>6, <2>1, <2>5, <2>6
  <1> QED  BY <1>1, <1>10, <1>11, <1>12 DEF WInv

\* The sanity check never takes the servo's own steps and frequencies for a fault of the
\* clock, for any limits, in whatever order stamps are read, the clock is stepped, its
\* frequency is set and others set or exchange it (clockcheck_sample,
\* clockcheck_set_freq, clockcheck_step, clock_synchronize).
THEOREM AlarmsAreTrue == Spec => []NoFalseAlarm
  <1>1. Init => WInv
    <2> SUFFICES ASSUME Init PROVE WInv
      OBVIOUS
    <2>1. Init => IInv
      BY InitHolds
    <2>2. queue = <<>> /\ alarm = NULL /\ amiss = "no"
      BY DEF Init
    <2>3. check \in CheckRecord /\ ~check.known /\ check.last = NULL
      BY DEF Init, clockcheck_create, CheckRecord
    <2>4. Fresh
      BY <2>2 DEF Fresh
    <2>5. Watched
      BY <2>2, <2>3 DEF Watched
    <2>6. NoFalseAlarm
      BY <2>2, ServoAssumption DEF NoFalseAlarm
    <2> QED  BY <2>1, <2>4, <2>5, <2>6 DEF WInv
  <1>2. WInv /\ [Next]_vars => WInv'
    <2> SUFFICES ASSUME WInv, [Next]_vars PROVE WInv'
      OBVIOUS
    <2>1. ASSUME NEW a \in BOOLEAN, Tick(a) PROVE WInv'
      BY <2>1, TickWatched
    <2>2. ASSUME NEW e \in Errors, SetClock(e) PROVE WInv'
      BY <2>2, SetWatched
    <2>3. ASSUME NEW e \in Errors, NEW f \in {-conf.osc, 0}, clock_switch_phc(e, f) PROVE WInv'
      BY <2>3, SetWatched
    <2>4. CASE Check
      BY <2>4, CheckWatched
    <2>5. CASE Synchronize
      BY <2>5, SynchronizeWatched
    <2>6. CASE UNCHANGED vars
      <3>1. IInv' = IInv /\ Fresh' = Fresh /\ Watched' = Watched /\ NoFalseAlarm' = NoFalseAlarm
        BY <2>6 DEF vars, IInv, TypeOK, Calm, Fresh, Watched, Within, NoFalseAlarm
      <3> QED  BY <3>1 DEF WInv
    <2> QED  BY <2>1, <2>2, <2>3, <2>4, <2>5, <2>6 DEF Next
  <1>3. WInv => NoFalseAlarm
    BY DEF WInv
  <1> QED  BY <1>1, <1>2, <1>3, PTL DEF Spec
=============================================================================
