-------------------------- MODULE LeapSecondProofs --------------------------
(***************************************************************************)
(* Over a leap second the clock has the right time in every second, and    *)
(* every update uses the right offset, for a day of any length, however    *)
(* early or late the grandmaster announces and whenever the program is     *)
(* started again (not in the last seconds before midnight), within the     *)
(* times of LeapAssumption.                                                *)
(***************************************************************************)
EXTENDS LeapSecond, TLAPS

\* The leap second, and what UTC would be without it.
Leap == conf.leap
OldUtc == tai - Offset

\* What the grandmaster announces before it sets the flag, while it is set, and after.
Before == [leap |-> 0, offset |-> Offset]
Flag   == [leap |-> Leap, offset |-> Offset]
After  == [leap |-> 0, offset |-> Offset + Leap]

KernelStates == {"OK", "INS", "DEL", "WAIT"}
KernelRecords == [bit : {0, Leap}, state : KernelStates, tai : Int]
ArmedFor == IF Leap = 1 THEN "INS" ELSE "DEL"

-----------------------------------------------------------------------------
(* The inductive invariant.                                                *)

Types ==
  /\ conf \in Configs
  /\ tai \in Int /\ clk \in Int /\ slew \in Int
  /\ kern \in KernelRecords
  /\ gm \in {Before, Flag, After}
  /\ node \in [leap : {0, Leap}, offset : Int]
  /\ proc \in Process \cup {None}
  /\ Running => proc.leap_set \in {0, Leap} /\ proc.leap \in {0, Leap} /\ proc.bit \in {0, Leap}
  /\ stale \in 0..1 /\ idle \in 0..2
  /\ OldUtc > Split

\* The grandmaster keeps to its times.
Schedule ==
  /\ gm = Before => OldUtc <= Day - 6
  /\ gm = Flag => OldUtc <= Day + Split - 2
  /\ gm = After => OldUtc >= Day - 2

\* The program is at most a second behind.
Known ==
  /\ node \in {Before, Flag, After}
  /\ node = Before => gm # After /\ OldUtc <= Day - 6 + stale
  /\ node = Flag => gm # Before /\ OldUtc <= Day + Split - 2 + stale
  /\ node = After => gm = After

\* What the program has told the kernel or the servo.
Told ==
  /\ proc.state = "UNLOCKED" => /\ proc.leap_set = 0 /\ proc.leap = 0 /\ proc.bit = 0
                                /\ proc.used = None /\ proc.ref = None /\ proc.utc_offset_set = 0
                                /\ slew = 0
  /\ proc.state = "LOCKED" => proc.used # None /\ proc.ref # None
  /\ IF KernelLeap THEN proc.leap = 0 /\ proc.bit = proc.leap_set
     ELSE proc.bit = 0 /\ proc.leap = proc.leap_set
  /\ conf.toUtc => /\ kern.bit = proc.bit
                   /\ kern.bit = 0 => idle = 0 \/ kern.state = "OK"
  /\ slew # 0 => idle = 0

\* A program that was not started late makes its first update in time.
InTime ==
  proc.state = "UNLOCKED" /\ ~proc.late => tai >= LeapTime \/ tai <= LeapTime - 5 + idle

\* The offset of the last update follows from what the program knew then.
UsedOffset ==
  /\ proc.used \in {Offset, Offset + Leap}
  /\ conf.traceable => proc.utc_offset_set = proc.used
  /\ ~KernelLeap => proc.ref = proc.used
  /\ proc.leap_set = Leap => proc.used = Offset /\ node # Before /\ clk + slew <= Day + idle
  /\ proc.leap_set = 0 /\ node = Before => proc.used = Offset
  /\ proc.leap_set = 0 /\ node = After => proc.used = Offset + Leap
  /\ proc.leap_set = 0 /\ node = Flag =>
       \/ proc.used = Offset /\ OldUtc <= Day - 5 + idle
       \/ /\ proc.used = Offset + Leap
          /\ clk + slew >= Day \/ (conf.toUtc /\ clk + slew = Day - 1 /\ idle = 0)
  /\ ~proc.late /\ proc.used = Offset + Leap => tai >= LeapTime

\* Without the kernel's help the clock is where the last update puts it; with it, it
\* is right, and the kernel is ready two seconds before the leap second.
Disciplined ==
  /\ ~KernelLeap /\ conf.toUtc => clk + slew = tai - proc.used
  /\ KernelLeap =>
       /\ clk = Utc /\ slew = 0 /\ (conf.traceable => kern.tai = TrueOffset)
       /\ proc.leap_set = Leap =>
            IF tai < LeapTime
            THEN \/ kern.state = ArmedFor
                 \/ kern.state = "OK" /\ idle = 0 /\ tai <= LeapTime - 2
            ELSE kern.state = "WAIT"

\* Where the source has UTC, the kernel applies the leap second that it was told of.
SourceUtc ==
  /\ clk = Utc /\ slew = 0
  /\ gm = Before => kern.bit = 0 /\ kern.state = "OK"
  /\ gm # Before =>
       /\ kern.bit = Leap
       /\ IF tai < LeapTime THEN kern.state = ArmedFor \/ (kern.state = "OK" /\ OldUtc <= Day - 6)
          ELSE kern.state = "WAIT"

\* The program knows of the leap second and its clock is its own doing.
Informed == Running /\ Knowable
Settled == Informed /\ (~proc.late \/ ~KernelLeap) /\ proc.state = "LOCKED"

IInv ==
  /\ Types
  /\ Schedule
  /\ ~conf.toUtc => SourceUtc
  /\ IF Running THEN Told ELSE slew = 0
  /\ Informed => Known /\ InTime
  /\ Settled => UsedOffset /\ Disciplined

-----------------------------------------------------------------------------
(* Facts about the constants, the configuration and midnight.              *)

\* The constants, as the proofs use them.
LEMMA Constants ==
  /\ Day \in Nat /\ Split \in Nat /\ Split >= 2 /\ Split + 7 <= Day
  /\ Offset \in Nat /\ Offset > 1 /\ None \notin Int /\ None \notin Process
  /\ \A t \in SetTimes : t \in Int /\ Split < t /\ t <= Day - 6
  /\ \A t \in ClearTimes : t \in Int /\ Day - 2 <= t /\ t <= Day + Split - 2
  BY LeapAssumption

\* A configuration.
LEMMA ConfFacts ==
  ASSUME conf \in Configs
  PROVE  /\ Leap \in {-1, 1} /\ conf.toUtc \in BOOLEAN /\ conf.traceable \in BOOLEAN
         /\ conf.kernel_leap \in BOOLEAN /\ conf.steps \in BOOLEAN
         /\ ~conf.toUtc => Knowable /\ ~KernelLeap
         /\ Knowable => conf.user = "phc2sys" \/ conf.traceable \/ Leap = 1
  <1>1. conf \in [user : {"ptp4l", "phc2sys"}, kernel_leap : BOOLEAN, leap : {-1, 1},
                  traceable : BOOLEAN, toUtc : BOOLEAN, steps : BOOLEAN]
        /\ (conf.toUtc \/ conf.user = "phc2sys")
    BY LeapAssumption
  <1> QED  BY <1>1 DEF Leap, Knowable, KernelLeap

\* The leap second is at midnight, or a second before it is left out.
LEMMA LeapTimeFacts ==
  ASSUME conf \in Configs, tai \in Int
  PROVE  /\ LeapTime \in Int
         /\ Leap = 1 => LeapTime = Offset + Day
         /\ Leap = -1 => LeapTime = Offset + Day - 1
         /\ tai < LeapTime => TrueOffset = Offset /\ Utc = OldUtc
         /\ tai >= LeapTime => TrueOffset = Offset + Leap /\ Utc = OldUtc - Leap
  <1>1. Leap \in {-1, 1}
    BY ConfFacts
  <1> QED  BY <1>1, Constants DEF LeapTime, TrueOffset, Utc, OldUtc, Leap

\* The remainder of a time of the first or of the second day.
LEMMA TimeOfDay ==
  ASSUME NEW x \in Int, x >= 0, x < 2 * Day
  PROVE  x % Day = IF x < Day THEN x ELSE x - Day
  <1>1. Day \in Nat /\ Day > 0
    BY Constants
  <1> QED  BY <1>1

\* Only the last second before midnight is ambiguous.
LEMMA Ambiguous ==
  ASSUME NEW x \in Int, x > Split, x <= Day + Split
  PROVE  is_utc_ambiguous(x) <=> x = Day - 1
  <1>1. x >= 0 /\ x < 2 * Day
    BY Constants
  <1>2. x % Day = IF x < Day THEN x ELSE x - Day
    BY <1>1, TimeOfDay
  <1> QED  BY <1>2, Constants DEF is_utc_ambiguous

\* Before midnight the flag that is known is used, after midnight none.
LEMMA StatusAt ==
  ASSUME NEW x \in Int, x > Split, x <= Day + Split, NEW set, NEW leap, NEW offset
  PROVE  leap_second_status(x, set, leap, offset).status =
           IF x < Day THEN (IF set = 0 THEN leap ELSE set) ELSE 0
  <1>1. x >= 0 /\ x < 2 * Day
    BY Constants
  <1>2. x % Day = IF x < Day THEN x ELSE x - Day
    BY <1>1, TimeOfDay
  <1>3. x % Day > Split <=> x < Day
    BY <1>2, Constants
  <1> QED  BY <1>3 DEF leap_second_status

\* The offset follows from the status.
LEMMA OffsetOf ==
  ASSUME NEW x, NEW set, NEW leap, NEW offset, NEW s,
         s = leap_second_status(x, set, leap, offset).status
  PROVE  leap_second_status(x, set, leap, offset).offset =
           IF leap = 0 /\ s # 0 THEN offset - s
           ELSE IF leap # 0 /\ s = 0 THEN offset + leap ELSE offset
  BY DEF leap_second_status

-----------------------------------------------------------------------------
(* The state.                                                              *)

\* The three announcements are different.
LEMMA Announcements ==
  ASSUME conf \in Configs
  PROVE  /\ Before.leap = 0 /\ Before.offset = Offset
         /\ Flag.leap = Leap /\ Flag.offset = Offset /\ Leap # 0
         /\ After.leap = 0 /\ After.offset = Offset + Leap /\ Offset + Leap # Offset
         /\ Before # Flag /\ Before # After /\ Flag # After
         /\ Leap \in Int /\ Offset + Leap \in Int /\ Offset + Leap > 0
  <1>1. Leap \in {-1, 1} /\ Offset \in Nat /\ Offset > 1
    BY ConfFacts, Constants
  <1>2. /\ Before.leap = 0 /\ Before.offset = Offset
        /\ Flag.leap = Leap /\ Flag.offset = Offset
        /\ After.leap = 0 /\ After.offset = Offset + Leap
    BY DEF Before, Flag, After
  <1>3. Leap # 0 /\ Offset + Leap # Offset /\ Leap \in Int /\ Offset + Leap \in Int /\ Offset + Leap > 0
    BY <1>1
  <1> QED  BY <1>2, <1>3

\* The types of a running program's fields.
LEMMA ProcFields ==
  ASSUME Types, Running
  PROVE  /\ proc.late \in BOOLEAN /\ proc.state \in {"UNLOCKED", "LOCKED"}
         /\ proc.leap_set \in {0, Leap} /\ proc.leap \in {0, Leap} /\ proc.bit \in {0, Leap}
         /\ proc.utc_offset_set \in Int /\ proc.used \in Int \cup {None} /\ proc.ref \in Int \cup {None}
  <1>1. proc \in Process
    BY DEF Types, Running
  <1>2. /\ proc.late \in BOOLEAN /\ proc.state \in {"UNLOCKED", "LOCKED"}
        /\ proc.utc_offset_set \in Int /\ proc.used \in Int \cup {None} /\ proc.ref \in Int \cup {None}
    BY <1>1 DEF Process
  <1> QED  BY <1>2 DEF Types

\* What an update finds: the status and the offset (leap_second_status).
Status == IF Handled THEN leap_second_status(UpdateTime, proc.leap_set, node.leap, node.offset)
          ELSE [status |-> proc.leap_set, offset |-> node.offset]

\* They are of their types, whatever the time.
LEMMA StatusTypes ==
  ASSUME Types, Running
  PROVE  Status.status \in {0, Leap} /\ Status.offset \in Int
  <1>1. /\ proc.leap_set \in {0, Leap} /\ node.leap \in {0, Leap} /\ node.offset \in Int
        /\ Leap \in Int /\ conf \in Configs
    <2>1. node \in [leap : {0, Leap}, offset : Int] /\ conf \in Configs
      BY DEF Types
    <2> QED  BY <2>1, ProcFields, Announcements
  <1>2. CASE Handled
    <2> DEFINE ls == leap_second_status(UpdateTime, proc.leap_set, node.leap, node.offset)
    <2>1. ls.status \in {0, Leap}
      BY <1>1 DEF leap_second_status
    <2>2. ls.offset = IF node.leap = 0 /\ ls.status # 0 THEN node.offset - ls.status
                      ELSE IF node.leap # 0 /\ ls.status = 0 THEN node.offset + node.leap ELSE node.offset
      BY OffsetOf
    <2>3. Status = ls
      BY <1>2 DEF Status
    <2> HIDE DEF ls
    <2> QED  BY <1>1, <2>1, <2>2, <2>3
  <1>3. CASE ~Handled
    BY <1>1, <1>3 DEF Status
  <1> QED  BY <1>2, <1>3

\* The time an update compares with midnight, and that it is not far from it.
LEMMA UpdateTimeFacts ==
  ASSUME IInv, Informed, ~proc.late \/ ~KernelLeap, idle > 0, Handled
  PROVE  /\ UpdateTime \in Int /\ UpdateTime > Split /\ UpdateTime <= Day + Split
         /\ conf.toUtc /\ proc.state = "UNLOCKED" => UpdateTime = OldUtc /\ node = Flag
         /\ conf.toUtc /\ proc.state = "LOCKED" /\ ~KernelLeap => UpdateTime = tai - proc.used
         /\ ~conf.toUtc \/ (KernelLeap /\ proc.state = "LOCKED") => UpdateTime = Utc
  <1>0. /\ Types /\ Running /\ Knowable /\ Told /\ Known /\ conf \in Configs
        /\ tai \in Int /\ clk \in Int /\ slew \in Int /\ idle \in 0..2 /\ stale \in 0..1
        /\ OldUtc > Split
    BY DEF IInv, Types, Informed
  <1>1. /\ Leap \in {-1, 1} /\ conf.toUtc \in BOOLEAN /\ (~conf.toUtc => ~KernelLeap)
        /\ proc.state \in {"UNLOCKED", "LOCKED"} /\ proc.leap_set \in {0, Leap}
    BY <1>0, ConfFacts, ProcFields
  <1>2. slew = 0
    BY <1>0 DEF Told
  <1>3. proc.leap_set = 0 => node = Flag
    BY <1>0, Announcements DEF Handled, Known
  <1>4. node = Flag => OldUtc <= Day + Split - 1
    <2>1. OldUtc \in Int
      BY <1>0, Constants DEF OldUtc
    <2> QED  BY <1>0, <2>1, Constants DEF Known
  <1>5. OldUtc \in Int /\ (tai < LeapTime => Utc = OldUtc) /\ (tai >= LeapTime => Utc = OldUtc - Leap)
        /\ LeapTime \in Int /\ (Leap = 1 => LeapTime = Offset + Day) /\ (Leap = -1 => LeapTime = Offset + Day - 1)
        /\ tai = OldUtc + Offset
    BY <1>0, LeapTimeFacts, Constants DEF OldUtc
  <1>6. Utc \in Int /\ Utc > Split /\ (node = Flag => Utc <= Day + Split)
    BY <1>0, <1>1, <1>4, <1>5, Constants
  <1>7. CASE conf.toUtc /\ proc.state = "UNLOCKED"
    <2>1. proc.leap_set = 0
      BY <1>0, <1>7 DEF Told
    <2>2. node = Flag /\ node.offset = Offset
      BY <1>0, <1>3, <2>1, Announcements
    <2>3. UpdateTime = OldUtc
      BY <1>7, <2>2 DEF UpdateTime, OldUtc
    <2> QED  BY <1>0, <1>4, <1>5, <1>7, <2>2, <2>3, Constants DEF KernelLeap
  <1>8. CASE ~(conf.toUtc /\ proc.state = "UNLOCKED")
    <2>1. UpdateTime = clk
      BY <1>8 DEF UpdateTime
    <2>2. CASE proc.state = "LOCKED"
      <3>1. UsedOffset /\ Disciplined
        BY <1>0, <2>2 DEF IInv, Settled, Informed
      <3>2. CASE conf.toUtc /\ ~KernelLeap
        <4>1. clk = tai - proc.used /\ proc.used \in {Offset, Offset + Leap}
          BY <1>0, <1>2, <3>1, <3>2 DEF Disciplined, UsedOffset
        <4>2. CASE proc.leap_set = Leap
          <5>1. clk <= Day + idle /\ proc.used = Offset
            BY <1>0, <1>2, <3>1, <4>2 DEF UsedOffset
          <5> QED  BY <1>0, <1>5, <2>1, <2>2, <3>2, <4>1, <5>1, Constants
        <4>3. CASE proc.leap_set = 0
          <5>1. node = Flag /\ (proc.used = Offset \/ (proc.used = Offset + Leap /\ clk >= Day))
            BY <1>0, <1>2, <1>3, <3>1, <4>3 DEF UsedOffset
          <5> QED  BY <1>0, <1>1, <1>4, <1>5, <2>1, <2>2, <3>2, <4>1, <5>1, Constants
        <4> QED  BY <1>1, <4>2, <4>3
      <3>3. CASE ~(conf.toUtc /\ ~KernelLeap)
        <4>1. clk = Utc
          BY <1>0, <3>1, <3>3 DEF Disciplined, IInv, SourceUtc
        <4>2. proc.leap_set = Leap => clk <= Day + idle
          BY <1>0, <1>2, <3>1 DEF UsedOffset
        <4>3. clk <= Day + Split
          BY <1>0, <1>1, <1>3, <1>6, <4>1, <4>2, Constants
        <4> QED  BY <1>0, <1>1, <1>6, <2>1, <2>2, <3>3, <4>1, <4>3
      <3> QED  BY <3>2, <3>3
    <2>3. CASE proc.state = "UNLOCKED"
      <3>1. ~conf.toUtc /\ clk = Utc /\ node = Flag
        BY <1>0, <1>3, <1>8, <2>3 DEF IInv, SourceUtc, Told
      <3> QED  BY <1>1, <1>6, <2>1, <2>3, <3>1
    <2> QED  BY <1>1, <2>2, <2>3
  <1> QED  BY <1>7, <1>8

\* UTC passes midnight at the leap second.
LEMMA UtcMidnight ==
  ASSUME conf \in Configs, tai \in Int
  PROVE  /\ Utc <= Day - 2 => tai < LeapTime /\ OldUtc = Utc
         /\ Utc >= Day => tai >= LeapTime /\ OldUtc - Leap = Utc
         /\ OldUtc <= Day - 2 => tai < LeapTime
         /\ OldUtc >= Day => tai >= LeapTime
  <1>1. Leap \in {-1, 1} /\ Day \in Nat /\ Offset \in Nat /\ OldUtc \in Int /\ tai = OldUtc + Offset
    BY ConfFacts, Constants DEF OldUtc
  <1> QED  BY <1>1, LeapTimeFacts

\* What an update finds is right: the flag while it is not yet midnight, and the offset
\* that is true and that the servo's points are about to be moved to.
LEMMA StatusRight ==
  ASSUME IInv, Informed, ~proc.late \/ ~KernelLeap, idle > 0,
         ~(Handled /\ is_utc_ambiguous(UpdateTime)),
         NEW s, s = Status.status, NEW o, o = Status.offset
  PROVE  /\ s = Leap => o = Offset /\ node # Before /\ OldUtc <= Day - 2 /\ (~conf.toUtc => clk <= Day - 2)
         /\ s = 0 => o = IF node = Before THEN Offset ELSE Offset + Leap
         /\ s = 0 /\ node = Flag => IF conf.toUtc THEN OldUtc - Leap >= Day - 1 ELSE clk >= Day
         /\ proc.state = "LOCKED" =>
              o = IF proc.leap_set # 0 /\ s = 0 THEN proc.used + proc.leap_set ELSE proc.used
         /\ ~proc.late => o = TrueOffset
  <1>0. /\ Types /\ Running /\ Knowable /\ Told /\ Known /\ InTime /\ Schedule /\ conf \in Configs
        /\ tai \in Int /\ clk \in Int /\ slew \in Int /\ idle \in 0..2 /\ stale \in 0..1
    BY DEF IInv, Types, Informed
  <1>1. /\ Leap \in {-1, 1} /\ conf.toUtc \in BOOLEAN /\ (~conf.toUtc => ~KernelLeap)
        /\ proc.state \in {"UNLOCKED", "LOCKED"} /\ proc.leap_set \in {0, Leap}
        /\ OldUtc \in Int /\ tai = OldUtc + Offset
    BY <1>0, ConfFacts, ProcFields, Constants DEF OldUtc
  <1>2. slew = 0
    BY <1>0 DEF Told
  <1>3. proc.state = "UNLOCKED" => proc.leap_set = 0
    BY <1>0 DEF Told
  <1>4. proc.state = "LOCKED" => UsedOffset /\ Disciplined
    BY <1>0 DEF IInv, Settled, Informed
  <1>5. proc.leap_set = Leap => proc.state = "LOCKED" /\ proc.used = Offset /\ node # Before
    BY <1>0, <1>1, <1>3, <1>4, Announcements DEF UsedOffset
  <1>6. CASE ~Handled
    <2>1. node.leap = 0 /\ proc.leap_set = 0 /\ s = 0 /\ o = node.offset
      BY <1>6 DEF Handled, Status
    <2>2. node \in {Before, After} /\ o = (IF node = Before THEN Offset ELSE Offset + Leap)
      BY <1>0, <2>1, Announcements DEF Known
    <2>3. node # Flag /\ Leap # 0
      BY <1>0, <2>2, Announcements
    <2>4. proc.state = "LOCKED" => o = proc.used
      BY <1>4, <2>1, <2>2 DEF UsedOffset
    <2>5. ~proc.late => o = TrueOffset
      <3>1. CASE node = Before
        <4>1. OldUtc <= Day - 2
          BY <1>0, <1>1, <3>1, Constants DEF Known
        <4> QED  BY <1>0, <2>2, <3>1, <4>1, UtcMidnight, LeapTimeFacts
      <3>2. CASE node = After /\ ~proc.late
        <4>1. OldUtc >= Day - 2
          BY <1>0, <3>2 DEF Known, Schedule
        <4>2. tai >= LeapTime
          <5>1. CASE proc.state = "LOCKED"
            BY <1>4, <2>1, <3>2, <5>1 DEF UsedOffset
          <5>2. CASE proc.state = "UNLOCKED"
            <6>1. tai >= LeapTime \/ tai <= LeapTime - 3
              BY <1>0, <3>2, <5>2, LeapTimeFacts DEF InTime
            <6> QED  BY <1>0, <1>1, <4>1, <6>1, LeapTimeFacts, Constants
          <5> QED  BY <1>1, <5>1, <5>2
        <4> QED  BY <1>0, <2>2, <3>2, <4>2, LeapTimeFacts, Announcements
      <3> QED  BY <2>2, <3>1, <3>2
    <2> QED  BY <2>1, <2>2, <2>3, <2>4, <2>5
  <1>7. CASE Handled
    <2> DEFINE x == UpdateTime
    <2>1. /\ x \in Int /\ x > Split /\ x <= Day + Split
          /\ conf.toUtc /\ proc.state = "UNLOCKED" => x = OldUtc /\ node = Flag
          /\ conf.toUtc /\ proc.state = "LOCKED" /\ ~KernelLeap => x = tai - proc.used
          /\ ~conf.toUtc \/ (KernelLeap /\ proc.state = "LOCKED") => x = Utc
      BY <1>7, UpdateTimeFacts
    <2>2. x # Day - 1
      BY <1>7, <2>1, Ambiguous
    <2>3. proc.state = "LOCKED" \/ ~conf.toUtc => x = clk
      BY <1>1 DEF UpdateTime
    <2>4. s = IF x < Day THEN (IF proc.leap_set = 0 THEN node.leap ELSE proc.leap_set) ELSE 0
      BY <1>7, <2>1, StatusAt DEF Status
    <2>5. o = IF node.leap = 0 /\ s # 0 THEN node.offset - s
              ELSE IF node.leap # 0 /\ s = 0 THEN node.offset + node.leap ELSE node.offset
      BY <1>7, OffsetOf DEF Status
    <2> HIDE DEF x
    <2>6. proc.leap_set = 0 => node = Flag
      BY <1>0, <1>7, Announcements DEF Handled, Known
    <2>7. node \in {Flag, After} /\ (node = After => proc.leap_set = Leap)
      BY <1>0, <1>1, <1>5, <2>6, Announcements DEF Known
    <2>8. node.leap = (IF node = Flag THEN Leap ELSE 0) /\ node.offset = (IF node = Flag THEN Offset ELSE Offset + Leap)
      BY <1>0, <2>7, Announcements
    <2>9. proc.state = "LOCKED" /\ proc.leap_set = 0 =>
             (proc.used = Offset /\ OldUtc <= Day - 3) \/ (proc.used = Offset + Leap /\ x >= Day)
      BY <1>0, <1>1, <1>2, <1>4, <2>3, <2>6, Constants DEF UsedOffset
    <2>10. CASE x < Day
      <3>1. s = Leap /\ Leap # 0 /\ x <= Day - 2
        BY <1>0, <1>1, <2>1, <2>2, <2>4, <2>6, <2>7, <2>8, <2>10, Constants, Announcements
      <3>2. o = Offset
        BY <1>0, <1>1, <2>5, <2>8, <3>1, Constants
      <3>3. proc.state = "LOCKED" => proc.used = Offset
        BY <1>1, <1>5, <2>9, <2>10, <2>1, Constants
      <3>4. OldUtc <= Day - 2 /\ tai < LeapTime
        BY <1>0, <1>1, <2>1, <3>1, <3>3, UtcMidnight, Constants
      <3>5. ~conf.toUtc => clk <= Day - 2
        BY <1>1, <2>3, <3>1
      <3>6. o = TrueOffset
        BY <1>0, <3>2, <3>4, LeapTimeFacts
      <3>7. node # Before
        BY <1>0, <2>7, Announcements
      <3> QED  BY <3>1, <3>2, <3>3, <3>4, <3>5, <3>6, <3>7
    <2>11. CASE x >= Day
      <3>1. s = 0 /\ Leap # 0
        BY <1>0, <2>1, <2>4, <2>11, Constants, Announcements
      <3>2. o = Offset + Leap
        BY <1>1, <2>5, <2>8, <3>1, Constants
      <3>3. node # Before
        BY <1>0, <2>7, Announcements
      <3>4. proc.leap_set = 0 /\ proc.state = "LOCKED" => proc.used = Offset + Leap
        <4>1. proc.state = "LOCKED" /\ proc.used = Offset /\ OldUtc <= Day - 3 => FALSE
          BY <1>0, <1>1, <2>1, <2>11, UtcMidnight, LeapTimeFacts, Constants
        <4> QED  BY <2>9, <4>1
      <3>5. IF conf.toUtc THEN OldUtc - Leap >= Day - 1 ELSE clk >= Day
        <4>1. CASE conf.toUtc
          <5>1. proc.state = "LOCKED" => proc.used \in {Offset, Offset + Leap}
            BY <1>4 DEF UsedOffset
          <5> QED  BY <1>0, <1>1, <2>1, <2>11, <4>1, <5>1, UtcMidnight, Constants
        <4>2. CASE ~conf.toUtc
          BY <2>3, <2>11, <4>2
        <4> QED  BY <1>1, <4>1, <4>2
      <3>6. ~proc.late => tai >= LeapTime
        <4>1. CASE proc.state = "LOCKED" /\ proc.used = Offset + Leap
          BY <1>4, <4>1 DEF UsedOffset
        <4>2. CASE proc.state = "LOCKED" /\ proc.used = Offset
          BY <1>0, <1>1, <2>1, <2>11, <4>2, UtcMidnight, Constants
        <4>3. CASE proc.state = "UNLOCKED"
          BY <1>0, <1>1, <2>1, <2>11, <4>3, UtcMidnight
        <4> QED  BY <1>1, <1>4, <4>1, <4>2, <4>3 DEF UsedOffset
      <3>7. ~proc.late => o = TrueOffset
        BY <1>0, <3>2, <3>6, LeapTimeFacts
      <3>8. proc.state = "LOCKED" =>
              o = IF proc.leap_set # 0 /\ s = 0 THEN proc.used + proc.leap_set ELSE proc.used
        BY <1>1, <1>5, <3>1, <3>2, <3>4
      <3> QED  BY <3>1, <3>2, <3>3, <3>5, <3>7, <3>8
    <2> QED  BY <2>1, <2>10, <2>11, Constants
  <1> QED  BY <1>6, <1>7

-----------------------------------------------------------------------------
(* What the steps do.                                                      *)

\* Nothing that is derived from the configuration changes.
LEMMA Fixed ==
  ASSUME conf' = conf
  PROVE  /\ Leap' = Leap /\ Before' = Before /\ Flag' = Flag /\ After' = After
         /\ LeapTime' = LeapTime /\ KernelLeap' = KernelLeap /\ Knowable' = Knowable
         /\ KernelRecords' = KernelRecords /\ ArmedFor' = ArmedFor
  BY DEF Leap, Before, Flag, After, LeapTime, KernelLeap, Knowable, KernelRecords, ArmedFor

\* Nor is anything derived from the time while it stands still.
LEMMA TimeStands ==
  ASSUME conf' = conf, tai' = tai
  PROVE  OldUtc' = OldUtc /\ TrueOffset' = TrueOffset /\ Utc' = Utc
  BY DEF OldUtc, TrueOffset, Utc, LeapTime

\* A program that can know of the leap second reads what the grandmaster announces.
LEMMA ReadsGm ==
  ASSUME conf \in Configs, Knowable, gm \in {Before, Flag, After}
  PROVE  /\ TimeProperties(Offset) = gm
         /\ Known => TimeProperties(node.offset) = gm
  <1>1. /\ gm \in [leap : Int, offset : Int] /\ Offset \in Nat /\ Leap \in {-1, 1}
    BY ConfFacts, Constants DEF Before, Flag, After
  <1>2. CASE conf.user = "phc2sys" \/ conf.traceable
    BY <1>2 DEF TimeProperties
  <1>3. CASE Leap = 1
    <2>1. \A x \in Int : gm.offset > x \/ gm.offset = x => TimeProperties(x) = gm
      BY <1>1 DEF TimeProperties
    <2>2. gm.offset > Offset \/ gm.offset = Offset
      BY <1>1, <1>3, Announcements
    <2>3. Known => node.offset \in Int /\ (gm.offset > node.offset \/ gm.offset = node.offset)
      BY <1>1, <1>3, Announcements DEF Known
    <2> QED  BY <1>1, <2>1, <2>2, <2>3
  <1> QED  BY <1>2, <1>3, ConfFacts

\* Telling the kernel or the servo of a new status.
LEMMA SetLeapEffect ==
  ASSUME Types, Running, Told, NEW s \in {0, Leap}, NEW p, p = SetLeap(proc, s)
  PROVE  /\ p \in Process
         /\ p.late = proc.late /\ p.leap_set = s /\ p.utc_offset_set = proc.utc_offset_set
         /\ p.leap = (IF KernelLeap THEN 0 ELSE s) /\ p.bit = (IF KernelLeap THEN s ELSE 0)
         /\ p.ref = IF ~KernelLeap /\ proc.ref # None /\ proc.leap_set # 0 /\ s = 0
                    THEN proc.ref + proc.leap_set ELSE proc.ref
  <1>1. /\ proc \in Process /\ s \in -1..1 /\ None \notin Int /\ proc.leap_set \in -1..1
        /\ proc.ref \in Int \cup {None}
        /\ IF KernelLeap THEN proc.leap = 0 /\ proc.bit = proc.leap_set
           ELSE proc.bit = 0 /\ proc.leap = proc.leap_set
    BY ConfFacts, ProcFields, Constants DEF Types, Running, Told
  <1>2. CASE proc.leap_set = s
    <2>1. p = proc
      BY <1>2 DEF SetLeap
    <2> QED  BY <1>1, <1>2, <2>1
  <1>3. CASE proc.leap_set # s /\ KernelLeap
    <2>1. p = [proc EXCEPT !.leap_set = s, !.bit = s]
      BY <1>3 DEF SetLeap
    <2> QED  BY <1>1, <1>3, <2>1 DEF Process
  <1>4. CASE proc.leap_set # s /\ ~KernelLeap
    <2> DEFINE r == IF proc.ref # None /\ proc.leap_set # 0 /\ s = 0 THEN proc.ref + proc.leap_set ELSE proc.ref
    <2>1. p = [[proc EXCEPT !.leap = s, !.ref = r] EXCEPT !.leap_set = s]
      BY <1>1, <1>4 DEF SetLeap, linreg_leap
    <2>2. r \in Int \cup {None}
      BY <1>1
    <2> HIDE DEF r
    <2>3. /\ p \in Process
          /\ p.late = proc.late /\ p.leap_set = s /\ p.utc_offset_set = proc.utc_offset_set
          /\ p.leap = s /\ p.bit = proc.bit /\ p.ref = r
      BY <1>1, <2>1, <2>2 DEF Process
    <2> QED  BY <1>1, <1>4, <2>3 DEF r
  <1> QED  BY <1>2, <1>3, <1>4

\* The update of the clock, the kernel and the program's state.
LEMMA UpdateEffect ==
  ASSUME Types, Running, Told, Update, NEW s, s = Status.status, NEW o, o = Status.offset
  PROVE  /\ proc' \in Process
         /\ proc'.late = proc.late /\ proc'.state = "LOCKED" /\ proc'.leap_set = s /\ proc'.used = o
         /\ proc'.leap = (IF KernelLeap THEN 0 ELSE s) /\ proc'.bit = (IF KernelLeap THEN s ELSE 0)
         /\ conf.traceable => proc'.utc_offset_set = o
         /\ proc'.ref = IF proc.ref = None THEN o
                        ELSE IF ~KernelLeap /\ proc.leap_set # 0 /\ s = 0 THEN proc.ref + proc.leap_set ELSE proc.ref
         /\ kern' \in KernelRecords /\ kern'.state = kern.state
         /\ kern'.bit = IF conf.toUtc THEN proc'.bit ELSE kern.bit
         /\ kern'.tai = IF conf.traceable /\ conf.toUtc /\ proc.utc_offset_set # o THEN o ELSE kern.tai
         /\ ~conf.toUtc => clk' = clk /\ slew' = 0
         /\ conf.toUtc => /\ clk' + slew' = tai - o
                          /\ proc.state = "UNLOCKED" \/ clk = tai - o => clk' = tai - o /\ slew' = 0
         /\ clk' \in Int /\ slew' \in Int
         /\ idle > 0 /\ ~(Handled /\ is_utc_ambiguous(UpdateTime)) /\ idle' = 0
         /\ UNCHANGED <<conf, tai, gm, node, stale, crashes>>
  <1> DEFINE p == SetLeap(proc, s)
             tell == conf.traceable /\ p.utc_offset_set # o
             err == clk - (tai - o)
             step == proc.state = "UNLOCKED" \/ (conf.steps /\ err # 0)
             k == [kern EXCEPT !.bit = IF KernelLeap /\ p.leap_set # proc.leap_set THEN p.bit ELSE @,
                               !.tai = IF tell /\ conf.toUtc THEN o ELSE @]
  <1>1. /\ proc' = [p EXCEPT !.state = "LOCKED", !.used = o,
                             !.utc_offset_set = IF tell THEN o ELSE @,
                             !.ref = IF @ = None THEN o ELSE @]
        /\ kern' = IF conf.toUtc THEN [k EXCEPT !.bit = p.bit] ELSE k
        /\ clk' = IF conf.toUtc /\ step THEN tai - o ELSE clk
        /\ slew' = IF conf.toUtc /\ ~step THEN -err ELSE 0
        /\ idle > 0 /\ ~(Handled /\ is_utc_ambiguous(UpdateTime)) /\ idle' = 0
        /\ UNCHANGED <<conf, tai, gm, node, stale, crashes>>
    BY DEF Update, Status, sysclk_set_sync
  <1>2. /\ s \in {0, Leap} /\ o \in Int /\ tai \in Int /\ clk \in Int /\ conf \in Configs
        /\ kern \in KernelRecords /\ None \notin Int /\ Leap \in {-1, 1} /\ conf.toUtc \in BOOLEAN
        /\ proc.leap_set \in {0, Leap}
    BY StatusTypes, Constants, ConfFacts, ProcFields DEF Types
  <1>3. /\ p \in Process
        /\ p.late = proc.late /\ p.leap_set = s /\ p.utc_offset_set = proc.utc_offset_set
        /\ p.leap = (IF KernelLeap THEN 0 ELSE s) /\ p.bit = (IF KernelLeap THEN s ELSE 0)
        /\ p.ref = IF ~KernelLeap /\ proc.ref # None /\ proc.leap_set # 0 /\ s = 0
                   THEN proc.ref + proc.leap_set ELSE proc.ref
    BY <1>2, SetLeapEffect
  <1>4. p.ref = None <=> proc.ref = None
    BY <1>2, <1>3, ProcFields
  <1>5. /\ clk' \in Int /\ slew' \in Int /\ (~conf.toUtc => clk' = clk /\ slew' = 0)
        /\ conf.toUtc => /\ clk' + slew' = tai - o
                         /\ proc.state = "UNLOCKED" \/ clk = tai - o => clk' = tai - o /\ slew' = 0
    BY <1>1, <1>2
  <1> HIDE DEF p, step, err
  <1>6. /\ proc' \in Process
        /\ proc'.late = p.late /\ proc'.state = "LOCKED" /\ proc'.leap_set = p.leap_set /\ proc'.used = o
        /\ proc'.leap = p.leap /\ proc'.bit = p.bit
        /\ proc'.ref = IF p.ref = None THEN o ELSE p.ref
        /\ proc'.utc_offset_set = IF tell THEN o ELSE p.utc_offset_set
    <2> DEFINE uo == IF tell THEN o ELSE p.utc_offset_set
               rf == IF p.ref = None THEN o ELSE p.ref
    <2>1. proc' = [p EXCEPT !.state = "LOCKED", !.used = o, !.utc_offset_set = uo, !.ref = rf]
      BY <1>1, <1>3 DEF Process
    <2>2. uo \in Int /\ rf \in Int \cup {None}
      BY <1>2, <1>3 DEF Process
    <2> HIDE DEF uo, rf
    <2>3. /\ proc' \in Process
          /\ proc'.late = p.late /\ proc'.state = "LOCKED" /\ proc'.leap_set = p.leap_set /\ proc'.used = o
          /\ proc'.leap = p.leap /\ proc'.bit = p.bit /\ proc'.ref = rf /\ proc'.utc_offset_set = uo
      BY <1>2, <1>3, <2>1, <2>2 DEF Process
    <2> QED  BY <2>3 DEF uo, rf
  <1>7. /\ kern' \in KernelRecords /\ kern'.state = kern.state
        /\ kern'.bit = IF conf.toUtc THEN p.bit ELSE kern.bit
        /\ kern'.tai = IF tell /\ conf.toUtc THEN o ELSE kern.tai
    <2> DEFINE nb == IF conf.toUtc THEN p.bit ELSE kern.bit
               nt == IF tell /\ conf.toUtc THEN o ELSE kern.tai
    <2>1. ~conf.toUtc => ~KernelLeap
      BY DEF KernelLeap
    <2>2. kern' = [kern EXCEPT !.bit = nb, !.tai = nt]
      BY <1>1, <1>2, <2>1 DEF KernelRecords
    <2>3. nb \in {0, Leap} /\ nt \in Int
      BY <1>2, <1>3 DEF KernelRecords
    <2> HIDE DEF nb, nt
    <2>4. kern' \in KernelRecords /\ kern'.state = kern.state /\ kern'.bit = nb /\ kern'.tai = nt
      BY <1>2, <2>2, <2>3 DEF KernelRecords
    <2> QED  BY <2>4 DEF nb, nt
  <1> QED  BY <1>1, <1>3, <1>4, <1>5, <1>6, <1>7

\* How far the kernel moves the clock in a second.
Advance == IF Insert THEN 0 ELSE IF Delete THEN 2 ELSE 1

\* A kernel without a leap bit counts on.
LEMMA KernelIdle ==
  ASSUME kern \in KernelRecords, kern.bit = 0
  PROVE  /\ Advance = 1
         /\ second_overflow \in KernelRecords /\ second_overflow.bit = 0
         /\ second_overflow.state = "OK" /\ second_overflow.tai = kern.tai
  <1>1. ~Insert /\ ~Delete
    BY DEF Insert, Delete
  <1>2. Armed = "OK"
    BY DEF Armed
  <1>3. second_overflow = [kern EXCEPT !.state = "OK"]
    BY <1>1, <1>2 DEF second_overflow
  <1> QED  BY <1>1, <1>3 DEF Advance, KernelRecords, KernelStates

\* A kernel in any state keeps its type and its bit.
LEMMA KernelTypes ==
  ASSUME conf \in Configs, kern \in KernelRecords, clk \in Int
  PROVE  /\ second_overflow \in KernelRecords /\ second_overflow.bit = kern.bit
         /\ Advance \in 0..2
  <1>1. Armed \in KernelStates /\ kern.tai + kern.bit \in Int
    BY ConfFacts DEF Armed, KernelStates, KernelRecords
  <1> DEFINE nt == kern.tai + kern.bit
  <1>2. \/ second_overflow = [kern EXCEPT !.state = "WAIT", !.tai = nt]
        \/ second_overflow = kern
        \/ second_overflow = [kern EXCEPT !.state = Armed]
    BY DEF second_overflow, KernelRecords
  <1> HIDE DEF nt
  <1>3. nt \in Int /\ "WAIT" \in KernelStates
    BY <1>1 DEF nt, KernelStates
  <1>4. second_overflow \in KernelRecords /\ second_overflow.bit = kern.bit
    BY <1>1, <1>2, <1>3 DEF KernelRecords
  <1> QED  BY <1>4 DEF Advance

\* A kernel that was told of the leap second in time applies it when it is due, once,
\* and moves CLOCK_TAI along.
LEMMA KernelApplies ==
  ASSUME conf \in Configs, tai \in Int, OldUtc > Split, kern \in KernelRecords,
         kern.bit = Leap, clk = Utc,
         tai < LeapTime => kern.state = ArmedFor \/ (kern.state = "OK" /\ tai <= LeapTime - 2),
         tai >= LeapTime => kern.state = "WAIT"
  PROVE  /\ tai + 1 < LeapTime => /\ Advance = 1
                                  /\ second_overflow.state = ArmedFor
                                  /\ second_overflow.tai = kern.tai
         /\ tai + 1 = LeapTime => /\ Advance = 1 - Leap
                                  /\ clk + Advance = Day - (IF Leap = 1 THEN 1 ELSE 0)
                                  /\ second_overflow.state = "WAIT"
                                  /\ second_overflow.tai = kern.tai + Leap
         /\ tai + 1 > LeapTime => Advance = 1 /\ second_overflow = kern
  <1>1. /\ Leap \in {-1, 1} /\ OldUtc \in Int /\ tai = OldUtc + Offset /\ Day \in Nat /\ Offset \in Nat
        /\ Split \in Nat /\ Split + 7 <= Day
        /\ LeapTime \in Int /\ (Leap = 1 => LeapTime = Offset + Day)
        /\ (Leap = -1 => LeapTime = Offset + Day - 1) /\ (tai < LeapTime => clk = OldUtc)
    BY ConfFacts, LeapTimeFacts, Constants DEF OldUtc
  <1>2. kern.state \in KernelStates /\ kern.tai \in Int /\ Armed = ArmedFor /\ kern.bit # 0
        /\ ArmedFor # "OK" /\ ArmedFor # "WAIT"
    BY <1>1 DEF Armed, ArmedFor, KernelRecords
  <1>3. CASE tai + 1 < LeapTime
    <2>1. clk = OldUtc /\ clk + 1 \in 1..(Day - 1) /\ (Leap = -1 => clk + 2 \in 1..(Day - 1))
      BY <1>1, <1>3
    <2>2. (clk + 1) % Day # 0 /\ (Leap = -1 => (clk + 2) % Day # 0)
      <3>1. \A x \in 1..(Day - 1) : x % Day = x
        BY <1>1
      <3> QED  BY <1>1, <2>1, <3>1
    <2>3. ~Insert /\ ~Delete
      BY <1>1, <2>2 DEF Insert, Delete
    <2>4. kern.state # "WAIT"
      BY <1>1, <1>2, <1>3
    <2>5. second_overflow = [kern EXCEPT !.state = Armed]
      BY <2>3, <2>4 DEF second_overflow
    <2> QED  BY <1>1, <1>2, <1>3, <2>3, <2>5 DEF Advance, KernelRecords
  <1>4. CASE tai + 1 = LeapTime
    <2>1. clk = OldUtc /\ kern.state = ArmedFor
      BY <1>1, <1>4
    <2>2. (Leap = 1 => clk + 1 = Day) /\ (Leap = -1 => clk + 2 = Day)
      BY <1>1, <1>4, <2>1
    <2>3. Day % Day = 0
      BY <1>1
    <2>4. (Leap = 1 => Insert) /\ (Leap = -1 => Delete /\ ~Insert)
      BY <1>1, <2>1, <2>2, <2>3 DEF Insert, Delete, ArmedFor
    <2> DEFINE nt == kern.tai + Leap
    <2>5. second_overflow = [kern EXCEPT !.state = "WAIT", !.tai = nt]
      BY <1>1, <1>2, <2>4 DEF second_overflow, KernelRecords
    <2> HIDE DEF nt
    <2>6. second_overflow.state = "WAIT" /\ second_overflow.tai = nt
      BY <2>5 DEF KernelRecords
    <2>7. Advance = 1 - Leap
      BY <1>1, <2>4 DEF Advance
    <2> QED  BY <1>1, <1>4, <2>2, <2>6, <2>7 DEF nt
  <1>5. CASE tai + 1 > LeapTime
    <2>1. kern.state = "WAIT"
      BY <1>1, <1>5
    <2>2. ~Insert /\ ~Delete
      BY <2>1 DEF Insert, Delete
    <2>3. second_overflow = kern
      BY <1>2, <2>1, <2>2 DEF second_overflow
    <2> QED  BY <1>1, <1>5, <2>2, <2>3 DEF Advance
  <1> QED  BY <1>1, <1>3, <1>4, <1>5

-----------------------------------------------------------------------------
(* Every step keeps the invariant.                                         *)

\* The invariant holds at first.
LEMMA InitInv == Init => IInv
  <1> SUFFICES ASSUME Init PROVE IInv
    OBVIOUS
  <1>1. /\ conf \in Configs /\ tai = Offset + Split + 1 /\ slew = 0 /\ proc = None
        /\ kern = [bit |-> 0, state |-> "OK", tai |-> 0]
        /\ gm = Before /\ node = gm /\ stale = 0 /\ idle = 0
    BY DEF Init, Before
  <1>2. OldUtc = Split + 1 /\ tai \in Int /\ ~Running /\ ~Informed /\ ~Settled
    BY <1>1, Constants DEF OldUtc, Running, Informed, Settled
  <1>3. tai < LeapTime /\ Utc \in Int
    BY <1>1, <1>2, LeapTimeFacts, ConfFacts, Constants
  <1>4. clk \in Int /\ (~conf.toUtc => clk = Utc)
    <2>1. PICK e \in Errors : clk = IF conf.toUtc THEN Utc + e ELSE Utc
      BY DEF Init
    <2> QED  BY <1>1, <1>3, <2>1, LeapAssumption
  <1>5. kern \in KernelRecords /\ kern.bit = 0 /\ kern.state = "OK"
    BY <1>1 DEF KernelRecords, KernelStates
  <1>6. node \in [leap : {0, Leap}, offset : Int]
    BY <1>1, Constants DEF Before
  <1>7. Types
    BY <1>1, <1>2, <1>4, <1>5, <1>6, Constants DEF Types
  <1>8. Schedule
    BY <1>1, <1>2, Announcements, Constants DEF Schedule
  <1>9. ~conf.toUtc => SourceUtc
    BY <1>1, <1>4, <1>5 DEF SourceUtc
  <1> QED  BY <1>1, <1>2, <1>7, <1>8, <1>9 DEF IInv

\* The flag is set while there is time.
LEMMA GmSetInv == IInv /\ GmSet => IInv'
  <1> SUFFICES ASSUME IInv, GmSet PROVE IInv'
    OBVIOUS
  <1>1. /\ Types /\ Schedule /\ conf \in Configs /\ gm \in {Before, Flag, After} /\ tai \in Int
        /\ kern \in KernelRecords
    BY DEF IInv, Types
  <1>2. /\ gm = Before /\ OldUtc \in SetTimes /\ stale' = 0
        /\ kern' = IF conf.toUtc THEN kern ELSE [kern EXCEPT !.bit = Leap, !.state = Armed]
        /\ UNCHANGED <<conf, tai, clk, slew, node, proc, idle, crashes>>
    BY <1>1, Announcements DEF GmSet, OldUtc, Leap
  <1>3. gm' = Flag
    BY <1>1, <1>2 DEF GmSet, Before, Flag, Leap
  <1>4. /\ Leap' = Leap /\ Before' = Before /\ Flag' = Flag /\ After' = After
        /\ LeapTime' = LeapTime /\ KernelLeap' = KernelLeap /\ Knowable' = Knowable
        /\ KernelRecords' = KernelRecords /\ ArmedFor' = ArmedFor
        /\ OldUtc' = OldUtc /\ TrueOffset' = TrueOffset /\ Utc' = Utc
    BY <1>2, Fixed, TimeStands
  <1>5. /\ OldUtc <= Day - 6 /\ OldUtc \in Int /\ Before # Flag /\ Flag # After /\ Before # After
        /\ Day \in Nat /\ Split \in Nat
    BY <1>1, <1>2, Constants, Announcements
  <1>6. kern' \in KernelRecords /\ (~conf.toUtc => kern'.bit = Leap /\ kern'.state = "OK")
    <2>1. CASE conf.toUtc
      BY <1>1, <1>2, <2>1
    <2>2. CASE ~conf.toUtc
      <3>1. kern.bit = 0
        BY <1>2, <2>2 DEF IInv, SourceUtc
      <3>2. Armed = "OK"
        BY <3>1 DEF Armed
      <3> QED  BY <1>1, <1>2, <2>2, <3>2 DEF KernelRecords, KernelStates
    <2> QED  BY <2>1, <2>2
  <1>7. Types'
    BY <1>1, <1>2, <1>3, <1>4, <1>6 DEF Types, Running
  <1>8. Schedule'
    BY <1>3, <1>4, <1>5 DEF Schedule
  <1>9. (~conf.toUtc => SourceUtc)'
    <2>1. tai < LeapTime
      BY <1>1, <1>5, UtcMidnight
    <2> QED  BY <1>2, <1>3, <1>4, <1>5, <1>6, <2>1 DEF IInv, SourceUtc
  <1>10. (IF Running THEN Told ELSE slew = 0)'
    BY <1>2, <1>4 DEF IInv, Running, Told
  <1>11. (Informed => Known /\ InTime)'
    <2>1. Informed' = Informed
      BY <1>2, <1>4 DEF Informed, Running
    <2>2. ASSUME Informed PROVE Known' /\ InTime'
      <3>1. Known /\ InTime
        BY <2>2 DEF IInv
      <3> QED  BY <1>2, <1>3, <1>4, <1>5, <3>1 DEF Known, InTime
    <2> QED  BY <2>1, <2>2
  <1>12. (Settled => UsedOffset /\ Disciplined)'
    <2>1. Settled' = Settled
      BY <1>2, <1>4 DEF Settled, Informed, Running
    <2>2. ASSUME Settled PROVE UsedOffset' /\ Disciplined'
      <3>1. UsedOffset /\ Disciplined
        BY <2>2 DEF IInv
      <3>2. UsedOffset'
        BY <1>2, <1>4, <3>1 DEF UsedOffset
      <3>3. KernelLeap => kern' = kern
        BY <1>2 DEF KernelLeap
      <3>4. Disciplined'
        BY <1>2, <1>4, <3>1, <3>3 DEF Disciplined
      <3> QED  BY <3>2, <3>4
    <2> QED  BY <2>1, <2>2
  <1> QED  BY <1>7, <1>8, <1>9, <1>10, <1>11, <1>12 DEF IInv

\* The flag is cleared and the offset changed.
LEMMA GmClearInv == IInv /\ GmClear => IInv'
  <1> SUFFICES ASSUME IInv, GmClear PROVE IInv'
    OBVIOUS
  <1>1. /\ Types /\ Schedule /\ conf \in Configs /\ gm \in {Before, Flag, After} /\ tai \in Int
        /\ stale \in 0..1
    BY DEF IInv, Types
  <1>2. /\ gm = Flag /\ OldUtc \in ClearTimes /\ stale' = 0 /\ gm' = After
        /\ UNCHANGED <<conf, tai, clk, slew, kern, node, proc, idle, crashes>>
    BY <1>1, Announcements DEF GmClear, OldUtc, Leap, After
  <1>4. /\ Leap' = Leap /\ Before' = Before /\ Flag' = Flag /\ After' = After
        /\ LeapTime' = LeapTime /\ KernelLeap' = KernelLeap /\ Knowable' = Knowable
        /\ KernelRecords' = KernelRecords /\ ArmedFor' = ArmedFor
        /\ OldUtc' = OldUtc /\ TrueOffset' = TrueOffset /\ Utc' = Utc
    BY <1>2, Fixed, TimeStands
  <1>5. /\ OldUtc >= Day - 2 /\ OldUtc <= Day + Split - 2 /\ OldUtc \in Int
        /\ Before # Flag /\ Flag # After /\ Before # After /\ Day \in Nat /\ Split \in Nat
    BY <1>1, <1>2, Constants, Announcements
  <1>7. Types'
    BY <1>1, <1>2, <1>4 DEF Types, Running
  <1>8. Schedule'
    BY <1>2, <1>4, <1>5 DEF Schedule
  <1>9. (~conf.toUtc => SourceUtc)'
    BY <1>2, <1>4, <1>5 DEF IInv, SourceUtc
  <1>10. (IF Running THEN Told ELSE slew = 0)'
    BY <1>2, <1>4 DEF IInv, Running, Told
  <1>11. (Informed => Known /\ InTime)'
    <2>1. Informed' = Informed
      BY <1>2, <1>4 DEF Informed, Running
    <2>2. ASSUME Informed PROVE Known' /\ InTime'
      <3>1. Known /\ InTime
        BY <2>2 DEF IInv
      <3>2. node # Before
        BY <1>1, <1>5, <3>1 DEF Known
      <3>3. node \in {Before, Flag, After} /\ node # After
        BY <1>2, <1>5, <3>1 DEF Known
      <3>4. Known'
        BY <1>2, <1>4, <1>5, <3>2, <3>3 DEF Known
      <3>5. InTime'
        BY <1>2, <1>4, <3>1 DEF InTime
      <3> QED  BY <3>4, <3>5
    <2> QED  BY <2>1, <2>2
  <1>12. (Settled => UsedOffset /\ Disciplined)'
    BY <1>2, <1>4 DEF IInv, Settled, Informed, Running, UsedOffset, Disciplined
  <1> QED  BY <1>7, <1>8, <1>9, <1>10, <1>11, <1>12 DEF IInv

\* What the program reads is of its type, whatever the grandmaster announces.
LEMMA ReadTypes ==
  ASSUME Types, NEW x \in Int
  PROVE  TimeProperties(x) \in [leap : {0, Leap}, offset : Int]
  <1>1. gm \in [leap : {0, Leap}, offset : Int]
    BY Announcements, Constants DEF Types, Before, Flag, After
  <1> QED  BY <1>1 DEF TimeProperties

\* The program is started, and if that is not in the last seconds before midnight it
\* has time enough.
LEMMA StartInv == IInv /\ Start => IInv'
  <1> SUFFICES ASSUME IInv, Start PROVE IInv'
    OBVIOUS
  <1>1. /\ Types /\ Schedule /\ conf \in Configs /\ gm \in {Before, Flag, After} /\ tai \in Int
        /\ kern \in KernelRecords /\ slew = 0
    BY DEF IInv, Types, Start
  <1>2. /\ proc' = Started /\ node' = TimeProperties(Offset)
        /\ kern' = IF conf.toUtc THEN [kern EXCEPT !.bit = 0] ELSE kern
        /\ stale' = 0 /\ idle' = 0
        /\ UNCHANGED <<conf, tai, clk, slew, gm, crashes>>
    BY DEF Start
  <1>4. /\ Leap' = Leap /\ Before' = Before /\ Flag' = Flag /\ After' = After
        /\ LeapTime' = LeapTime /\ KernelLeap' = KernelLeap /\ Knowable' = Knowable
        /\ KernelRecords' = KernelRecords /\ ArmedFor' = ArmedFor
        /\ OldUtc' = OldUtc /\ TrueOffset' = TrueOffset /\ Utc' = Utc
    BY <1>2, Fixed, TimeStands
  <1>5. /\ OldUtc \in Int /\ Before # Flag /\ Flag # After /\ Before # After
        /\ Day \in Nat /\ Split \in Nat /\ Offset \in Nat /\ LeapTime \in Int
    BY <1>1, Constants, Announcements, LeapTimeFacts DEF OldUtc
  <1>6. /\ proc' \in Process /\ proc'.state = "UNLOCKED" /\ proc'.leap_set = 0 /\ proc'.leap = 0
        /\ proc'.bit = 0 /\ proc'.used = None /\ proc'.ref = None /\ proc'.utc_offset_set = 0
        /\ proc'.late = (tai \in (LeapTime - 4)..(LeapTime - 1))
    <2> DEFINE l == tai \in (LeapTime - 4)..(LeapTime - 1)
    <2>1. l \in BOOLEAN
      OBVIOUS
    <2>2. proc' = [late |-> l, state |-> "UNLOCKED", leap_set |-> 0, utc_offset_set |-> 0, leap |-> 0,
                   bit |-> 0, used |-> None, ref |-> None]
      BY <1>2 DEF Started
    <2> HIDE DEF l
    <2>3. /\ proc' \in Process /\ proc'.state = "UNLOCKED" /\ proc'.leap_set = 0 /\ proc'.leap = 0
          /\ proc'.bit = 0 /\ proc'.used = None /\ proc'.ref = None /\ proc'.utc_offset_set = 0
          /\ proc'.late = l
      BY <2>1, <2>2 DEF Process
    <2> QED  BY <2>3 DEF l
  <1>7. kern' \in KernelRecords /\ (conf.toUtc => kern'.bit = 0) /\ (~conf.toUtc => kern' = kern)
    BY <1>1, <1>2 DEF KernelRecords
  <1>8. Types'
    <2>1. node' \in [leap : {0, Leap}, offset : Int]
      BY <1>1, <1>2, <1>5, ReadTypes
    <2> QED  BY <1>1, <1>2, <1>4, <1>6, <1>7, <2>1 DEF Types, Running
  <1>9. Schedule'
    BY <1>1, <1>2, <1>4 DEF Schedule
  <1>10. (~conf.toUtc => SourceUtc)'
    BY <1>2, <1>4, <1>7 DEF IInv, SourceUtc
  <1>11. (IF Running THEN Told ELSE slew = 0)'
    <2>1. Told'
      BY <1>1, <1>2, <1>4, <1>6, <1>7 DEF Told
    <2> QED  BY <1>1, <1>2, <2>1
  <1>12. (Informed => Known /\ InTime)'
    <2> SUFFICES ASSUME Knowable PROVE Known' /\ InTime'
      BY <1>4 DEF Informed
    <2>1. node' = gm
      BY <1>1, <1>2, ReadsGm
    <2>2. Known'
      BY <1>1, <1>2, <1>4, <1>5, <2>1 DEF Known, Schedule
    <2>3. ~proc'.late => tai \notin (LeapTime - 4)..(LeapTime - 1)
      BY <1>6
    <2>4. tai \notin (LeapTime - 4)..(LeapTime - 1) => tai >= LeapTime \/ tai <= LeapTime - 5 + 0
      BY <1>1, <1>5
    <2>5. InTime'
      BY <1>2, <1>4, <2>3, <2>4 DEF InTime
    <2> QED  BY <2>2, <2>5
  <1>13. ~Settled'
    BY <1>6 DEF Settled
  <1> QED  BY <1>8, <1>9, <1>10, <1>11, <1>12, <1>13 DEF IInv

\* A crash loses what the program knew; the kernel goes on.
LEMMA CrashInv == IInv /\ Crash => IInv'
  <1> SUFFICES ASSUME IInv, Crash PROVE IInv'
    OBVIOUS
  <1>1. /\ Types /\ Schedule
        /\ proc' = None /\ slew' = 0 /\ stale' = 0 /\ idle' = 0
        /\ UNCHANGED <<conf, tai, clk, kern, gm, node>>
    BY DEF IInv, Crash
  <1>4. /\ Leap' = Leap /\ Before' = Before /\ Flag' = Flag /\ After' = After
        /\ LeapTime' = LeapTime /\ KernelLeap' = KernelLeap /\ Knowable' = Knowable
        /\ KernelRecords' = KernelRecords /\ ArmedFor' = ArmedFor
        /\ OldUtc' = OldUtc /\ TrueOffset' = TrueOffset /\ Utc' = Utc
    BY <1>1, Fixed, TimeStands
  <1>5. ~Running' /\ ~Informed' /\ ~Settled'
    BY <1>1 DEF Running, Informed, Settled
  <1>6. Types'
    BY <1>1, <1>4, <1>5 DEF Types
  <1>7. Schedule'
    BY <1>1, <1>4 DEF Schedule
  <1>8. (~conf.toUtc => SourceUtc)'
    BY <1>1, <1>4 DEF IInv, SourceUtc
  <1> QED  BY <1>1, <1>5, <1>6, <1>7, <1>8 DEF IInv

\* The program learns what the grandmaster announces.
LEMMA ReadTimeInv == IInv /\ ReadTime => IInv'
  <1> SUFFICES ASSUME IInv, ReadTime PROVE IInv'
    OBVIOUS
  <1>1. /\ Types /\ Schedule /\ conf \in Configs /\ gm \in {Before, Flag, After} /\ tai \in Int
        /\ stale \in 0..1 /\ idle \in 0..2 /\ node.offset \in Int
    BY DEF IInv, Types
  <1>2. /\ Running /\ Behind /\ node' = TimeProperties(node.offset) /\ stale' = 0
        /\ UNCHANGED <<conf, tai, clk, slew, kern, gm, proc, idle, crashes>>
    BY DEF ReadTime
  <1>4. /\ Leap' = Leap /\ Before' = Before /\ Flag' = Flag /\ After' = After
        /\ LeapTime' = LeapTime /\ KernelLeap' = KernelLeap /\ Knowable' = Knowable
        /\ KernelRecords' = KernelRecords /\ ArmedFor' = ArmedFor
        /\ OldUtc' = OldUtc /\ TrueOffset' = TrueOffset /\ Utc' = Utc
    BY <1>2, Fixed, TimeStands
  <1>5. /\ OldUtc \in Int /\ Before # Flag /\ Flag # After /\ Before # After
        /\ Day \in Nat /\ Split \in Nat
    BY <1>1, Constants, Announcements DEF OldUtc
  <1>6. Types'
    <2>1. node' \in [leap : {0, Leap}, offset : Int]
      BY <1>1, <1>2, ReadTypes
    <2> QED  BY <1>1, <1>2, <1>4, <2>1 DEF Types, Running
  <1>7. Schedule'
    BY <1>1, <1>2, <1>4 DEF Schedule
  <1>8. (~conf.toUtc => SourceUtc)'
    BY <1>2, <1>4 DEF IInv, SourceUtc
  <1>9. (IF Running THEN Told ELSE slew = 0)'
    BY <1>2, <1>4 DEF IInv, Running, Told
  <1>10. ASSUME Informed PROVE Known /\ InTime /\ node' = gm /\ node # gm
    <2>1. Known /\ InTime /\ Knowable
      BY <1>10 DEF IInv, Informed
    <2>2. TimeProperties(node.offset) = gm
      BY <1>1, <2>1, ReadsGm
    <2> QED  BY <1>2, <2>1, <2>2 DEF Behind
  <1>11. (Informed => Known /\ InTime)'
    <2> SUFFICES ASSUME Informed PROVE Known' /\ InTime'
      BY <1>2, <1>4 DEF Informed, Running
    <2>1. Known'
      BY <1>1, <1>2, <1>4, <1>5, <1>10 DEF Known, Schedule
    <2>2. InTime'
      BY <1>2, <1>4, <1>10 DEF InTime
    <2> QED  BY <2>1, <2>2
  <1>12. (Settled => UsedOffset /\ Disciplined)'
    <2> SUFFICES ASSUME Settled PROVE UsedOffset' /\ Disciplined'
      BY <1>2, <1>4 DEF Settled, Informed, Running
    <2>1. UsedOffset /\ Disciplined /\ Known /\ node' = gm /\ node # gm
      BY <1>10 DEF IInv, Settled
    <2>2. Disciplined'
      BY <1>2, <1>4, <2>1 DEF Disciplined
    <2>3. CASE gm = Flag
      <3>1. node = Before /\ OldUtc <= Day - 5
        BY <1>1, <1>5, <2>1, <2>3 DEF Known
      <3>2. OldUtc <= Day - 5 + idle
        BY <1>1, <1>5, <3>1
      <3>3. proc.leap_set # Leap /\ (proc.leap_set = 0 => proc.used = Offset)
        BY <2>1, <3>1 DEF UsedOffset
      <3> QED  BY <1>2, <1>4, <1>5, <2>1, <2>2, <2>3, <3>2, <3>3 DEF UsedOffset
    <2>4. CASE gm = After
      <3>1. node = Flag /\ OldUtc >= Day - 2
        BY <1>1, <1>5, <2>1, <2>4 DEF Known, Schedule
      <3>2. ~(OldUtc <= Day - 5 + idle)
        BY <1>1, <1>5, <3>1
      <3>3. proc.leap_set = 0 => proc.used = Offset + Leap
        BY <2>1, <3>1, <3>2 DEF UsedOffset
      <3> QED  BY <1>2, <1>4, <1>5, <2>1, <2>2, <2>4, <3>3 DEF UsedOffset
    <2>5. gm # Before
      BY <1>5, <2>1 DEF Known
    <2> QED  BY <1>1, <2>3, <2>4, <2>5
  <1> QED  BY <1>6, <1>7, <1>8, <1>9, <1>11, <1>12 DEF IInv

\* An update that is suspended is made up for a second later at the latest.
LEMMA SuspendInv == IInv /\ Suspend => IInv'
  <1> SUFFICES ASSUME IInv, Suspend PROVE IInv'
    OBVIOUS
  <1>1. /\ Types /\ Schedule /\ conf \in Configs /\ tai \in Int /\ clk \in Int /\ slew \in Int
        /\ stale \in 0..1 /\ idle \in 0..2 /\ Told
    BY DEF IInv, Types, Suspend
  <1>2. /\ Running /\ idle > 0 /\ Handled /\ is_utc_ambiguous(UpdateTime) /\ idle' = 0
        /\ UNCHANGED <<conf, tai, clk, slew, kern, gm, node, proc, stale, crashes>>
    BY DEF Suspend
  <1>4. /\ Leap' = Leap /\ Before' = Before /\ Flag' = Flag /\ After' = After
        /\ LeapTime' = LeapTime /\ KernelLeap' = KernelLeap /\ Knowable' = Knowable
        /\ KernelRecords' = KernelRecords /\ ArmedFor' = ArmedFor
        /\ OldUtc' = OldUtc /\ TrueOffset' = TrueOffset /\ Utc' = Utc
    BY <1>2, Fixed, TimeStands
  <1>5. /\ OldUtc \in Int /\ tai = OldUtc + Offset /\ Before # Flag /\ Flag # After /\ Before # After
        /\ Day \in Nat /\ Split \in Nat /\ Offset \in Nat /\ LeapTime \in Int /\ Leap \in {-1, 1}
        /\ LeapTime = Offset + Day \/ LeapTime = Offset + Day - 1
        /\ slew = 0 /\ proc.state \in {"UNLOCKED", "LOCKED"} /\ proc.leap_set \in {0, Leap}
        /\ conf.toUtc \in BOOLEAN /\ (~conf.toUtc => ~KernelLeap)
    BY <1>1, <1>2, Constants, Announcements, ConfFacts, ProcFields, LeapTimeFacts DEF OldUtc, Told
  <1>6. Types'
    BY <1>1, <1>2, <1>4 DEF Types, Running
  <1>7. Schedule'
    BY <1>1, <1>2, <1>4 DEF Schedule
  <1>8. (~conf.toUtc => SourceUtc)'
    BY <1>2, <1>4 DEF IInv, SourceUtc
  <1>9. (IF Running THEN Told ELSE slew = 0)'
    <2>1. Told'
      BY <1>1, <1>2, <1>4, <1>5 DEF Told
    <2> QED  BY <1>2, <2>1 DEF Running
  <1>10. ASSUME Informed, ~proc.late \/ ~KernelLeap
         PROVE  /\ UpdateTime = Day - 1
                /\ conf.toUtc /\ proc.state = "UNLOCKED" => UpdateTime = OldUtc /\ node = Flag
                /\ conf.toUtc /\ proc.state = "LOCKED" /\ ~KernelLeap => UpdateTime = tai - proc.used
                /\ ~conf.toUtc \/ (KernelLeap /\ proc.state = "LOCKED") => UpdateTime = Utc
    <2>1. /\ UpdateTime \in Int /\ UpdateTime > Split /\ UpdateTime <= Day + Split
          /\ conf.toUtc /\ proc.state = "UNLOCKED" => UpdateTime = OldUtc /\ node = Flag
          /\ conf.toUtc /\ proc.state = "LOCKED" /\ ~KernelLeap => UpdateTime = tai - proc.used
          /\ ~conf.toUtc \/ (KernelLeap /\ proc.state = "LOCKED") => UpdateTime = Utc
      BY <1>2, <1>10, UpdateTimeFacts
    <2>2. UpdateTime = Day - 1
      BY <1>2, <2>1, Ambiguous
    <2> QED  BY <2>1, <2>2
  <1>11. (Informed => Known /\ InTime)'
    <2> SUFFICES ASSUME Informed PROVE Known' /\ InTime'
      BY <1>2, <1>4 DEF Informed, Running
    <2>1. Known /\ InTime
      BY DEF IInv
    <2>2. Known'
      BY <1>2, <1>4, <2>1 DEF Known
    <2>3. ASSUME proc.state = "UNLOCKED", ~proc.late PROVE tai >= LeapTime
      <3>1. tai >= LeapTime \/ tai <= LeapTime - 3
        BY <1>1, <1>5, <2>1, <2>3 DEF InTime
      <3>2. tai < LeapTime => Utc = OldUtc
        BY <1>1, LeapTimeFacts
      <3>3. tai < LeapTime => OldUtc = Day - 1
        BY <1>5, <1>10, <2>3, <3>2
      <3> QED  BY <1>1, <1>5, <3>1, <3>3
    <2>4. InTime'
      BY <1>2, <1>4, <2>3 DEF InTime
    <2> QED  BY <2>2, <2>4
  <1>12. (Settled => UsedOffset /\ Disciplined)'
    <2> SUFFICES ASSUME Settled PROVE UsedOffset' /\ Disciplined'
      BY <1>2, <1>4 DEF Settled, Informed, Running
    <2>1. UsedOffset /\ Disciplined /\ Known /\ proc.state = "LOCKED" /\ Informed
          /\ (~proc.late \/ ~KernelLeap)
      BY DEF IInv, Settled
    <2>2. UpdateTime = clk
      BY <1>5, <2>1 DEF UpdateTime
    <2>3. clk = Day - 1
      BY <1>10, <2>1, <2>2
    <2>4. Disciplined'
      <3>1. idle # 0
        BY <1>1, <1>2
      <3> QED  BY <1>2, <1>4, <1>5, <2>1, <3>1 DEF Disciplined
    <2>5. proc.leap_set = 0 /\ node = Flag => proc.used = Offset + Leap /\ conf.toUtc
      <3> SUFFICES ASSUME proc.leap_set = 0, node = Flag PROVE proc.used = Offset + Leap /\ conf.toUtc
        OBVIOUS
      <3>1. idle # 0
        BY <1>1, <1>2
      <3>2. \/ proc.used = Offset /\ OldUtc <= Day - 5 + idle
            \/ proc.used = Offset + Leap /\ clk + slew >= Day
        BY <2>1, <3>1 DEF UsedOffset
      <3>3. ~(proc.used = Offset /\ OldUtc <= Day - 5 + idle)
        <4> SUFFICES ASSUME proc.used = Offset, OldUtc <= Day - 3 PROVE FALSE
          BY <1>1, <1>5
        <4>1. OldUtc = clk
          <5>1. tai < LeapTime
            BY <1>1, <1>5, UtcMidnight
          <5>2. Utc = OldUtc
            BY <1>1, <5>1, LeapTimeFacts
          <5> QED  BY <1>5, <1>10, <2>1, <2>2, <5>2
        <4> QED  BY <1>5, <2>3, <4>1
      <3>4. ~(clk + slew >= Day)
        BY <1>5, <2>3
      <3> QED  BY <3>2, <3>3, <3>4
    <2>6. clk + slew <= Day + 0 /\ clk + slew = Day - 1
      BY <1>5, <2>3
    <2>7. UsedOffset'
      BY <1>2, <1>4, <2>1, <2>5, <2>6 DEF UsedOffset
    <2> QED  BY <2>4, <2>7
  <1> QED  BY <1>6, <1>7, <1>8, <1>9, <1>11, <1>12 DEF IInv

\* An update uses the right offset and tells the kernel or the servo in time.
LEMMA UpdateInv == IInv /\ Update => IInv'
  <1> SUFFICES ASSUME IInv, Update PROVE IInv'
    OBVIOUS
  <1> DEFINE s == Status.status
             o == Status.offset
  <1>1. /\ Types /\ Schedule /\ Running /\ Told /\ conf \in Configs /\ tai \in Int /\ clk \in Int
        /\ stale \in 0..1 /\ idle \in 0..2
    BY DEF IInv, Types, Update
  <1>2. s \in {0, Leap} /\ o \in Int
    BY <1>1, StatusTypes
  <1>3. /\ proc' \in Process
        /\ proc'.late = proc.late /\ proc'.state = "LOCKED" /\ proc'.leap_set = s /\ proc'.used = o
        /\ proc'.leap = (IF KernelLeap THEN 0 ELSE s) /\ proc'.bit = (IF KernelLeap THEN s ELSE 0)
        /\ conf.traceable => proc'.utc_offset_set = o
        /\ proc'.ref = IF proc.ref = None THEN o
                       ELSE IF ~KernelLeap /\ proc.leap_set # 0 /\ s = 0 THEN proc.ref + proc.leap_set ELSE proc.ref
        /\ kern' \in KernelRecords /\ kern'.state = kern.state
        /\ kern'.bit = IF conf.toUtc THEN proc'.bit ELSE kern.bit
        /\ kern'.tai = IF conf.traceable /\ conf.toUtc /\ proc.utc_offset_set # o THEN o ELSE kern.tai
        /\ ~conf.toUtc => clk' = clk /\ slew' = 0
        /\ conf.toUtc => /\ clk' + slew' = tai - o
                         /\ proc.state = "UNLOCKED" \/ clk = tai - o => clk' = tai - o /\ slew' = 0
        /\ clk' \in Int /\ slew' \in Int
        /\ idle > 0 /\ ~(Handled /\ is_utc_ambiguous(UpdateTime)) /\ idle' = 0
        /\ UNCHANGED <<conf, tai, gm, node, stale, crashes>>
    BY <1>1, UpdateEffect
  <1>4. ASSUME Informed, ~proc.late \/ ~KernelLeap
        PROVE  /\ s = Leap => o = Offset /\ node # Before /\ OldUtc <= Day - 2 /\ (~conf.toUtc => clk <= Day - 2)
               /\ s = 0 => o = IF node = Before THEN Offset ELSE Offset + Leap
               /\ s = 0 /\ node = Flag => IF conf.toUtc THEN OldUtc - Leap >= Day - 1 ELSE clk >= Day
               /\ proc.state = "LOCKED" =>
                    o = IF proc.leap_set # 0 /\ s = 0 THEN proc.used + proc.leap_set ELSE proc.used
               /\ ~proc.late => o = TrueOffset
    BY <1>3, <1>4, StatusRight
  <1> HIDE DEF s, o
  <1>5. /\ Leap' = Leap /\ Before' = Before /\ Flag' = Flag /\ After' = After
        /\ LeapTime' = LeapTime /\ KernelLeap' = KernelLeap /\ Knowable' = Knowable
        /\ KernelRecords' = KernelRecords /\ ArmedFor' = ArmedFor
        /\ OldUtc' = OldUtc /\ TrueOffset' = TrueOffset /\ Utc' = Utc
    BY <1>3, Fixed, TimeStands
  <1>6. /\ OldUtc \in Int /\ tai = OldUtc + Offset /\ Before # Flag /\ Flag # After /\ Before # After
        /\ Day \in Nat /\ Offset \in Nat /\ Offset + Leap # Offset /\ Leap # 0 /\ None \notin Int /\ Offset > 1
        /\ LeapTime \in Int /\ Leap \in {-1, 1}
        /\ (Leap = 1 => LeapTime = Offset + Day) /\ (Leap = -1 => LeapTime = Offset + Day - 1)
        /\ proc.state \in {"UNLOCKED", "LOCKED"} /\ proc.leap_set \in {0, Leap}
        /\ proc.ref \in Int \cup {None}
        /\ conf.toUtc \in BOOLEAN /\ (~conf.toUtc => ~KernelLeap)
    BY <1>1, Constants, Announcements, ConfFacts, ProcFields, LeapTimeFacts DEF OldUtc
  <1>7. Types'
    <2>1. proc'.leap \in {0, Leap} /\ proc'.bit \in {0, Leap}
      BY <1>2, <1>3
    <2> QED  BY <1>1, <1>2, <1>3, <1>5, <2>1 DEF Types
  <1>8. Schedule'
    BY <1>1, <1>3, <1>5 DEF Schedule
  <1>9. (~conf.toUtc => SourceUtc)'
    BY <1>3, <1>5 DEF IInv, SourceUtc
  <1>10. (IF Running THEN Told ELSE slew = 0)'
    <2>1. proc'.used # None /\ proc'.ref # None
      BY <1>2, <1>3, <1>6
    <2>2. Running'
      BY <1>3, Constants DEF Running
    <2>3. Told'
      BY <1>2, <1>3, <1>5, <2>1 DEF Told
    <2> QED  BY <2>2, <2>3
  <1>11. (Informed => Known /\ InTime)'
    <2> SUFFICES ASSUME Informed PROVE Known' /\ InTime'
      BY <1>1, <1>5 DEF Informed
    <2>1. Known
      BY DEF IInv
    <2> QED  BY <1>3, <1>5, <2>1 DEF Known, InTime
  <1>12. (Settled => UsedOffset /\ Disciplined)'
    <2> SUFFICES ASSUME Informed, ~proc.late \/ ~KernelLeap PROVE UsedOffset' /\ Disciplined'
      BY <1>1, <1>3, <1>5 DEF Settled, Informed
    <2>1. Known /\ InTime
      BY DEF IInv
    <2>2. proc.state = "LOCKED" => UsedOffset /\ Disciplined
      BY DEF IInv, Settled
    <2>3. o \in {Offset, Offset + Leap}
      BY <1>2, <1>4
    <2>4. ~proc.late /\ o = Offset + Leap => tai >= LeapTime
      BY <1>1, <1>4, <1>6, LeapTimeFacts
    <2>5. ~KernelLeap => proc'.ref = o
      <3>1. CASE proc.state = "UNLOCKED"
        BY <1>1, <1>3, <3>1 DEF Told
      <3>2. CASE proc.state = "LOCKED"
        <4>1. proc.ref # None /\ (~KernelLeap => proc.ref = proc.used)
          BY <1>1, <2>2, <3>2 DEF Told, UsedOffset
        <4> QED  BY <1>3, <1>4, <3>2, <4>1
      <3> QED  BY <1>6, <3>1, <3>2
    <2>6. s = Leap => clk' + slew' <= Day + 0
      BY <1>1, <1>3, <1>4, <1>6
    <2>7. s = 0 /\ node = Flag => /\ o = Offset + Leap
                                  /\ clk' + slew' >= Day \/ (conf.toUtc /\ clk' + slew' = Day - 1)
      <3> SUFFICES ASSUME s = 0, node = Flag
                   PROVE  /\ o = Offset + Leap
                          /\ clk' + slew' >= Day \/ (conf.toUtc /\ clk' + slew' = Day - 1)
        OBVIOUS
      <3>1. o = Offset + Leap /\ (IF conf.toUtc THEN OldUtc - Leap >= Day - 1 ELSE clk >= Day)
        BY <1>4, <1>6
      <3>2. CASE conf.toUtc
        <4>1. clk' + slew' = OldUtc - Leap /\ OldUtc - Leap >= Day - 1
          <5>1. clk' + slew' = tai - (Offset + Leap) /\ OldUtc - Leap >= Day - 1
            BY <1>3, <3>1, <3>2
          <5>2. tai - (Offset + Leap) = OldUtc - Leap
            BY <1>6
          <5> QED  BY <5>1, <5>2
        <4>2. \A x \in Int : x >= Day - 1 => x >= Day \/ x = Day - 1
          BY <1>6
        <4>3. OldUtc - Leap \in Int
          BY <1>6
        <4> QED  BY <3>1, <3>2, <4>1, <4>2, <4>3
      <3>3. CASE ~conf.toUtc
        BY <1>1, <1>3, <3>1, <3>3
      <3> QED  BY <1>6, <3>2, <3>3
    <2>8. UsedOffset'
      BY <1>2, <1>3, <1>4, <1>5, <1>6, <2>3, <2>4, <2>5, <2>6, <2>7 DEF UsedOffset
    <2>9. ~KernelLeap /\ conf.toUtc => clk' + slew' = tai - o
      BY <1>3
    <2>10. ASSUME KernelLeap PROVE clk' = Utc /\ slew' = 0 /\ (conf.traceable => kern'.tai = TrueOffset)
      <3>1. o = TrueOffset /\ conf.toUtc /\ tai - o = Utc
        BY <1>4, <1>6, <2>10 DEF Utc
      <3>2. proc.state = "LOCKED" => clk = Utc /\ (conf.traceable => kern.tai = TrueOffset)
        BY <2>2, <2>10 DEF Disciplined
      <3>3. clk' = Utc /\ slew' = 0
        BY <1>3, <1>6, <3>1, <3>2
      <3>4. proc.state = "UNLOCKED" => proc.utc_offset_set # o
        <4>1. o # 0
          BY <1>6, <2>3
        <4> QED  BY <1>1, <4>1 DEF Told
      <3>5. conf.traceable => kern'.tai = TrueOffset
        BY <1>3, <1>6, <3>1, <3>2, <3>4
      <3> QED  BY <3>3, <3>5
    <2>11. ASSUME KernelLeap, s = Leap
           PROVE  tai < LeapTime /\ (kern'.state = ArmedFor \/ (kern'.state = "OK" /\ tai <= LeapTime - 2))
      <3>1. OldUtc <= Day - 2 /\ ~proc.late /\ node # Before
        BY <1>4, <2>11
      <3>2. tai < LeapTime
        BY <1>1, <3>1, UtcMidnight
      <3>3. CASE proc.leap_set = Leap
        <4>1. proc.state = "LOCKED"
          BY <1>1, <1>6, <3>3 DEF Told
        <4>2. idle # 0
          BY <1>1, <1>3
        <4>3. kern.state = ArmedFor
          BY <2>2, <2>11, <3>2, <3>3, <4>1, <4>2 DEF Disciplined
        <4> QED  BY <1>3, <3>2, <4>3
      <3>4. CASE proc.leap_set = 0
        <4>1. kern.state = "OK"
          <5>1. idle # 0 /\ conf.toUtc
            BY <1>1, <1>3, <1>6, <2>11
          <5> QED  BY <1>1, <2>11, <3>4, <5>1 DEF Told
        <4>2. tai <= LeapTime - 2
          <5>1. CASE proc.state = "UNLOCKED"
            BY <1>1, <1>6, <2>1, <3>1, <3>2, <5>1 DEF InTime
          <5>2. CASE proc.state = "LOCKED"
            <6>1. proc.used = Offset + Leap => tai >= LeapTime
              BY <2>2, <3>1, <5>2 DEF UsedOffset
            <6>2. node = Flag /\ OldUtc <= Day - 5 + idle
              BY <1>1, <1>6, <2>1, <2>2, <3>1, <3>2, <3>4, <5>2, <6>1 DEF UsedOffset, Known
            <6> QED  BY <1>1, <1>6, <6>2
          <5> QED  BY <1>6, <5>1, <5>2
        <4> QED  BY <1>3, <3>2, <4>1, <4>2
      <3> QED  BY <1>6, <3>3, <3>4
    <2>12. Disciplined'
      BY <1>3, <1>5, <2>9, <2>10, <2>11 DEF Disciplined
    <2> QED  BY <2>8, <2>12
  <1> QED  BY <1>7, <1>8, <1>9, <1>10, <1>11, <1>12 DEF IInv

\* A second later.
LEMMA NextTime ==
  ASSUME conf \in Configs, conf' = conf, tai \in Int, tai' = tai + 1
  PROVE  /\ OldUtc' = OldUtc + 1
         /\ tai + 1 < LeapTime => /\ TrueOffset' = Offset /\ Utc' = OldUtc + 1
                                  /\ TrueOffset = Offset /\ Utc = OldUtc
         /\ tai + 1 = LeapTime => /\ TrueOffset' = Offset + Leap /\ Utc' = OldUtc + 1 - Leap
                                  /\ TrueOffset = Offset /\ Utc = OldUtc
         /\ tai + 1 > LeapTime => /\ TrueOffset' = Offset + Leap /\ Utc' = OldUtc + 1 - Leap
                                  /\ TrueOffset = Offset + Leap /\ Utc = OldUtc - Leap
         /\ LeapTime \in Int /\ OldUtc \in Int
  <1>1. Leap \in {-1, 1} /\ Offset \in Nat /\ Day \in Nat /\ LeapTime \in Int /\ LeapTime' = LeapTime /\ Leap' = Leap
    BY ConfFacts, Constants, LeapTimeFacts, Fixed
  <1>2. TrueOffset' = IF tai + 1 < LeapTime THEN Offset ELSE Offset + Leap
    BY <1>1 DEF TrueOffset, Leap
  <1>3. TrueOffset = IF tai < LeapTime THEN Offset ELSE Offset + Leap
    BY DEF TrueOffset, Leap
  <1>4. Utc' = (tai + 1) - TrueOffset' /\ Utc = tai - TrueOffset
    BY DEF Utc
  <1>5. OldUtc = tai - Offset /\ OldUtc' = (tai + 1) - Offset
    BY DEF OldUtc
  <1> QED  BY <1>1, <1>2, <1>3, <1>4, <1>5

\* A kernel that was told of the leap second in time has UTC a second later, is ready
\* or has applied the leap second, and CLOCK_TAI has followed.
LEMMA KernelRight ==
  ASSUME conf \in Configs, conf' = conf, tai \in Int, tai' = tai + 1, OldUtc > Split,
         kern \in KernelRecords, kern.bit = Leap, clk = Utc,
         tai < LeapTime => kern.state = ArmedFor \/ (kern.state = "OK" /\ tai <= LeapTime - 2),
         tai >= LeapTime => kern.state = "WAIT"
  PROVE  /\ clk + Advance = Utc'
         /\ second_overflow.state = IF tai + 1 < LeapTime THEN ArmedFor ELSE "WAIT"
         /\ kern.tai = TrueOffset => second_overflow.tai = TrueOffset'
         /\ Advance <= 1 \/ clk + Advance = Day
  <1>1. /\ Leap \in {-1, 1} /\ Offset \in Nat /\ Day \in Nat /\ kern.tai \in Int
    BY ConfFacts, Constants DEF KernelRecords
  <1>2. CASE tai + 1 < LeapTime
    BY <1>1, <1>2, KernelApplies, NextTime
  <1>3. CASE tai + 1 = LeapTime
    BY <1>1, <1>3, KernelApplies, NextTime
  <1>4. CASE tai + 1 > LeapTime
    BY <1>1, <1>4, KernelApplies, NextTime
  <1> QED  BY <1>2, <1>3, <1>4, NextTime

\* A second passes, the last one before midnight included.
LEMMA TickInv == IInv /\ Tick => IInv'
  <1> SUFFICES ASSUME IInv, Tick PROVE IInv'
    OBVIOUS
  <1>1. /\ Types /\ Schedule /\ conf \in Configs /\ gm \in {Before, Flag, After} /\ tai \in Int
        /\ clk \in Int /\ slew \in Int /\ kern \in KernelRecords /\ stale \in 0..1 /\ idle \in 0..2
        /\ OldUtc > Split
    BY DEF IInv, Types
  <1>2. /\ ~GmDue /\ (Running => (stale < 1 \/ ~Behind) /\ idle < 2)
        /\ tai' = tai + 1 /\ clk' = clk + slew + Advance /\ slew' = 0 /\ kern' = second_overflow
        /\ stale' = (IF Running /\ Behind THEN stale + 1 ELSE 0)
        /\ idle' = (IF Running THEN idle + 1 ELSE 0)
        /\ UNCHANGED <<conf, gm, node, proc, crashes>>
    BY DEF Tick, Advance
  <1>3. /\ Leap' = Leap /\ Before' = Before /\ Flag' = Flag /\ After' = After
        /\ LeapTime' = LeapTime /\ KernelLeap' = KernelLeap /\ Knowable' = Knowable
        /\ KernelRecords' = KernelRecords /\ ArmedFor' = ArmedFor
    BY <1>2, Fixed
  <1>4. /\ OldUtc' = OldUtc + 1
        /\ tai + 1 < LeapTime => /\ TrueOffset' = Offset /\ Utc' = OldUtc + 1
                                 /\ TrueOffset = Offset /\ Utc = OldUtc
        /\ tai + 1 = LeapTime => /\ TrueOffset' = Offset + Leap /\ Utc' = OldUtc + 1 - Leap
                                 /\ TrueOffset = Offset /\ Utc = OldUtc
        /\ tai + 1 > LeapTime => /\ TrueOffset' = Offset + Leap /\ Utc' = OldUtc + 1 - Leap
                                 /\ TrueOffset = Offset + Leap /\ Utc = OldUtc - Leap
        /\ LeapTime \in Int /\ OldUtc \in Int
    BY <1>1, <1>2, NextTime
  <1>5. /\ Before # Flag /\ Flag # After /\ Before # After /\ Leap # 0 /\ Leap \in {-1, 1}
        /\ Day \in Nat /\ Split \in Nat /\ Offset \in Nat /\ tai = OldUtc + Offset
        /\ LeapTime = Offset + Day \/ LeapTime = Offset + Day - 1
        /\ conf.toUtc \in BOOLEAN /\ (~conf.toUtc => ~KernelLeap) /\ (KernelLeap => conf.toUtc)
    BY <1>1, Constants, Announcements, ConfFacts, LeapTimeFacts DEF OldUtc, KernelLeap
  <1>6. second_overflow \in KernelRecords /\ second_overflow.bit = kern.bit /\ Advance \in 0..2
    BY <1>1, KernelTypes
  <1>7. stale' \in 0..1 /\ idle' \in 0..2
    BY <1>1, <1>2
  <1>8. Types'
    <2>1. clk' \in Int /\ tai' \in Int /\ OldUtc' > Split
      BY <1>1, <1>2, <1>4, <1>5, <1>6
    <2> QED  BY <1>1, <1>2, <1>3, <1>6, <1>7, <2>1 DEF Types, Running
  <1>9. Schedule'
    <2>1. gm = Before => OldUtc + 1 <= Day - 6
      <3> SUFFICES ASSUME gm = Before PROVE OldUtc + 1 <= Day - 6
        OBVIOUS
      <3>1. PICK t \in SetTimes : ~(t <= OldUtc)
        BY <1>1, <1>2, Announcements DEF GmDue, OldUtc
      <3> QED  BY <1>4, <1>5, <3>1, Constants
    <2>2. gm = Flag => OldUtc + 1 <= Day + Split - 2
      <3> SUFFICES ASSUME gm = Flag PROVE OldUtc + 1 <= Day + Split - 2
        OBVIOUS
      <3>1. PICK t \in ClearTimes : ~(t <= OldUtc)
        BY <1>1, <1>2, Announcements DEF GmDue, OldUtc
      <3> QED  BY <1>4, <1>5, <3>1, Constants
    <2>3. gm = After => OldUtc + 1 >= Day - 2
      BY <1>1, <1>4, <1>5 DEF Schedule
    <2> QED  BY <1>2, <1>3, <1>4, <2>1, <2>2, <2>3 DEF Schedule
  <1>10. ASSUME ~conf.toUtc
         PROVE  SourceUtc' /\ slew = 0 /\ (Advance <= 1 \/ clk + Advance = Day)
    <2>1. SourceUtc
      BY <1>10 DEF IInv
    <2>2. slew = 0 /\ clk = Utc /\ clk' = clk + Advance
      BY <1>1, <1>2, <1>6, <2>1 DEF SourceUtc
    <2>3. CASE gm = Before
      <3>1. Advance = 1 /\ kern'.bit = 0 /\ kern'.state = "OK"
        BY <1>1, <1>2, <2>1, <2>3, KernelIdle DEF SourceUtc
      <3>2. OldUtc + 1 <= Day - 6
        BY <1>2, <1>3, <1>4, <1>9, <2>3 DEF Schedule
      <3>3. tai + 1 < LeapTime
        BY <1>4, <1>5, <3>2
      <3>4. clk' = Utc'
        BY <1>4, <2>2, <3>1, <3>3
      <3> QED  BY <1>2, <1>3, <2>2, <2>3, <3>1, <3>4 DEF SourceUtc
    <2>4. CASE gm # Before
      <3>1. kern.bit = Leap
        BY <2>1, <2>4 DEF SourceUtc
      <3>2. tai < LeapTime => kern.state = ArmedFor \/ (kern.state = "OK" /\ tai <= LeapTime - 2)
        BY <1>1, <1>4, <1>5, <2>1, <2>4 DEF SourceUtc
      <3>3. tai >= LeapTime => kern.state = "WAIT"
        BY <1>1, <1>4, <2>1, <2>4 DEF SourceUtc
      <3>4. /\ clk + Advance = Utc'
            /\ second_overflow.state = (IF tai + 1 < LeapTime THEN ArmedFor ELSE "WAIT")
            /\ Advance <= 1 \/ clk + Advance = Day
        BY <1>1, <1>2, <2>2, <3>1, <3>2, <3>3, KernelRight
      <3> QED  BY <1>2, <1>3, <1>6, <2>2, <2>4, <3>1, <3>4 DEF SourceUtc
    <2> QED  BY <2>3, <2>4
  <1>11. (~conf.toUtc => SourceUtc)'
    BY <1>2, <1>10
  <1>12. Running => Told
    BY DEF IInv
  <1>13. (IF Running THEN Told ELSE slew = 0)'
    <2>1. kern'.bit = 0 => kern'.state = "OK"
      BY <1>1, <1>2, <1>6, KernelIdle
    <2>2. Running' = Running
      BY <1>2 DEF Running
    <2>3. Told => Told'
      BY <1>2, <1>3, <1>6, <2>1 DEF Told
    <2> QED  BY <1>2, <1>12, <2>2, <2>3
  <1>14. ASSUME Informed
         PROVE  /\ Running /\ Known /\ InTime /\ Told /\ idle < 2 /\ idle' = idle + 1
                /\ IF node = gm THEN stale' = 0 ELSE stale = 0 /\ stale' = 1
    <2>1. Running /\ Knowable /\ Known /\ InTime /\ Told /\ idle < 2 /\ idle' = idle + 1
      BY <1>2, <1>12, <1>14 DEF IInv, Informed
    <2>2. Behind <=> node # gm
      BY <1>1, <2>1, ReadsGm DEF Behind
    <2>3. stale < 1 => stale = 0
      BY <1>1
    <2> QED  BY <1>2, <2>1, <2>2, <2>3
  <1>15. (Informed => Known /\ InTime)'
    <2> SUFFICES ASSUME Informed PROVE Known' /\ InTime'
      BY <1>2, <1>3 DEF Informed, Running
    <2>1. node = Before => OldUtc + 1 <= Day - 6 + stale'
      <3>1. CASE node = gm
        BY <1>2, <1>3, <1>4, <1>5, <1>9, <1>14, <3>1 DEF Schedule
      <3>2. CASE node # gm
        BY <1>4, <1>5, <1>14, <3>2 DEF Known
      <3> QED  BY <3>1, <3>2
    <2>2. node = Flag => OldUtc + 1 <= Day + Split - 2 + stale'
      <3>1. CASE node = gm
        BY <1>2, <1>3, <1>4, <1>5, <1>9, <1>14, <3>1 DEF Schedule
      <3>2. CASE node # gm
        BY <1>4, <1>5, <1>14, <3>2 DEF Known
      <3> QED  BY <3>1, <3>2
    <2>3. Known'
      BY <1>2, <1>3, <1>4, <1>14, <2>1, <2>2 DEF Known
    <2>4. tai >= LeapTime \/ tai <= LeapTime - 5 + idle =>
            tai + 1 >= LeapTime \/ tai + 1 <= LeapTime - 5 + (idle + 1)
      BY <1>1, <1>4
    <2>5. InTime'
      BY <1>2, <1>3, <1>14, <2>4 DEF InTime
    <2> QED  BY <2>3, <2>5
  <1>16. (Settled => UsedOffset /\ Disciplined)'
    <2> SUFFICES ASSUME Settled PROVE UsedOffset' /\ Disciplined'
      BY <1>2, <1>3 DEF Settled, Informed, Running
    <2>1. /\ UsedOffset /\ Disciplined /\ Known /\ Told /\ proc.state = "LOCKED" /\ Running
          /\ (~proc.late \/ ~KernelLeap) /\ idle < 2 /\ idle' = idle + 1 /\ proc.leap_set \in {0, Leap}
      BY <1>1, <1>14, ProcFields DEF IInv, Settled
    <2>2. conf.toUtc => kern.bit = IF KernelLeap THEN proc.leap_set ELSE 0
      BY <2>1 DEF Told
    <2>3. conf.toUtc /\ kern.bit = 0 => Advance = 1 /\ kern'.tai = kern.tai
      BY <1>1, <1>2, KernelIdle
    <2>4. ASSUME ~KernelLeap, conf.toUtc PROVE clk' + slew' = tai' - proc.used
      <3>1. clk + slew = tai - proc.used /\ proc.used \in {Offset, Offset + Leap} /\ Advance = 1
        BY <2>1, <2>2, <2>3, <2>4 DEF Disciplined, UsedOffset
      <3> QED  BY <1>1, <1>2, <1>5, <3>1
    <2>5. ASSUME KernelLeap, proc.leap_set = Leap
          PROVE  /\ clk' = Utc' /\ (conf.traceable => kern'.tai = TrueOffset')
                 /\ kern'.state = IF tai + 1 < LeapTime THEN ArmedFor ELSE "WAIT"
                 /\ slew = 0 /\ (Advance <= 1 \/ clk + Advance = Day)
      <3>1. clk = Utc /\ slew = 0 /\ (conf.traceable => kern.tai = TrueOffset) /\ kern.bit = Leap
        BY <1>5, <2>1, <2>2, <2>5 DEF Disciplined
      <3>2. tai < LeapTime => kern.state = ArmedFor \/ (kern.state = "OK" /\ tai <= LeapTime - 2)
        BY <2>1, <2>5 DEF Disciplined
      <3>3. tai >= LeapTime => kern.state = "WAIT"
        BY <1>1, <1>4, <2>1, <2>5 DEF Disciplined
      <3>4. /\ clk + Advance = Utc'
            /\ second_overflow.state = (IF tai + 1 < LeapTime THEN ArmedFor ELSE "WAIT")
            /\ kern.tai = TrueOffset => second_overflow.tai = TrueOffset'
            /\ Advance <= 1 \/ clk + Advance = Day
        BY <1>1, <1>2, <3>1, <3>2, <3>3, KernelRight
      <3>5. clk' = clk + Advance
        BY <1>1, <1>2, <1>6, <3>1
      <3> QED  BY <1>2, <3>1, <3>4, <3>5
    <2>6. ASSUME KernelLeap, proc.leap_set = 0
          PROVE  clk' = Utc' /\ (conf.traceable => kern'.tai = TrueOffset')
      <3>1. /\ clk = Utc /\ slew = 0 /\ (conf.traceable => kern.tai = TrueOffset)
            /\ Advance = 1 /\ kern'.tai = kern.tai
        BY <1>5, <2>1, <2>2, <2>3, <2>6 DEF Disciplined
      <3>2. tai + 1 # LeapTime
        <4>1. CASE proc.used = Offset + Leap
          <5>1. tai >= LeapTime
            BY <2>1, <2>6, <4>1 DEF UsedOffset
          <5> QED  BY <1>1, <1>4, <5>1
        <4>2. CASE proc.used = Offset
          <5>1. OldUtc <= Day - 4
            <6>1. node = Before => OldUtc <= Day - 6 + stale
              BY <2>1 DEF Known
            <6>2. node = Flag => OldUtc <= Day - 5 + idle
              BY <1>5, <2>1, <2>6, <4>2 DEF UsedOffset
            <6>3. node # After
              BY <1>5, <2>1, <2>6, <4>2 DEF UsedOffset
            <6>4. node \in {Before, Flag, After}
              BY <2>1 DEF Known
            <6> QED  BY <1>1, <1>4, <1>5, <2>1, <6>1, <6>2, <6>3, <6>4
          <5> QED  BY <1>4, <1>5, <5>1
        <4> QED  BY <2>1, <4>1, <4>2 DEF UsedOffset
      <3>3. Utc' = Utc + 1 /\ TrueOffset' = TrueOffset
        BY <1>1, <1>4, <1>5, <3>2
      <3> QED  BY <1>1, <1>2, <3>1, <3>3
    <2>7. Disciplined'
      <3>1. KernelLeap => /\ clk' = Utc' /\ (conf.traceable => kern'.tai = TrueOffset')
                          /\ proc.leap_set = Leap => kern'.state = IF tai + 1 < LeapTime THEN ArmedFor ELSE "WAIT"
        BY <2>1, <2>5, <2>6
      <3> QED  BY <1>2, <1>3, <2>4, <3>1 DEF Disciplined
    <2>8. proc.leap_set = Leap => clk' + slew' <= Day + (idle + 1)
      <3> SUFFICES ASSUME proc.leap_set = Leap PROVE clk' + slew' <= Day + (idle + 1)
        OBVIOUS
      <3>1. clk + slew <= Day + idle
        BY <2>1 DEF UsedOffset
      <3>2. Advance <= 1 \/ (slew = 0 /\ clk + Advance = Day)
        BY <1>5, <1>10, <2>2, <2>3, <2>5
      <3> QED  BY <1>1, <1>2, <1>5, <1>6, <3>1, <3>2
    <2>9. proc.leap_set = 0 /\ node = Flag =>
            \/ proc.used = Offset /\ OldUtc + 1 <= Day - 5 + (idle + 1)
            \/ proc.used = Offset + Leap /\ clk' + slew' >= Day
      <3> SUFFICES ASSUME proc.leap_set = 0, node = Flag
                   PROVE  \/ proc.used = Offset /\ OldUtc + 1 <= Day - 5 + (idle + 1)
                          \/ proc.used = Offset + Leap /\ clk' + slew' >= Day
        OBVIOUS
      <3>1. CASE proc.used = Offset /\ OldUtc <= Day - 5 + idle
        BY <1>1, <1>4, <1>5, <3>1
      <3>2. CASE proc.used = Offset + Leap /\ (clk + slew >= Day \/ (conf.toUtc /\ clk + slew = Day - 1))
        <4>1. conf.toUtc => Advance = 1
          BY <2>2, <2>3
        <4>2. clk' + slew' = clk + slew + Advance
          BY <1>1, <1>2, <1>6
        <4>3. clk + slew + Advance >= Day
          BY <1>1, <1>5, <1>6, <3>2, <4>1
        <4> QED  BY <3>2, <4>2, <4>3
      <3> QED  BY <2>1, <3>1, <3>2 DEF UsedOffset
    <2>10. tai >= LeapTime => tai + 1 >= LeapTime
      BY <1>1, <1>4
    <2>11. UsedOffset'
      BY <1>2, <1>3, <1>4, <2>1, <2>8, <2>9, <2>10 DEF UsedOffset
    <2> QED  BY <2>7, <2>11
  <1> QED  BY <1>8, <1>9, <1>11, <1>13, <1>15, <1>16 DEF IInv

-----------------------------------------------------------------------------
(* The theorems.                                                           *)

\* A step without a change.
LEMMA StutterInv == IInv /\ UNCHANGED vars => IInv'
  <1> SUFFICES ASSUME IInv, UNCHANGED vars PROVE IInv'
    OBVIOUS
  <1>1. UNCHANGED <<conf, tai, clk, slew, kern, gm, node, proc, stale, idle, crashes>>
    BY DEF vars
  <1>2. /\ Leap' = Leap /\ Before' = Before /\ Flag' = Flag /\ After' = After
        /\ LeapTime' = LeapTime /\ KernelLeap' = KernelLeap /\ Knowable' = Knowable
        /\ KernelRecords' = KernelRecords /\ ArmedFor' = ArmedFor
        /\ OldUtc' = OldUtc /\ TrueOffset' = TrueOffset /\ Utc' = Utc
    BY <1>1, Fixed, TimeStands
  <1>3. /\ Running' = Running /\ Informed' = Informed /\ Settled' = Settled
        /\ Types' = Types /\ Schedule' = Schedule /\ Known' = Known /\ Told' = Told
        /\ InTime' = InTime /\ SourceUtc' = SourceUtc
    BY <1>1, <1>2 DEF Running, Informed, Settled, Types, Schedule, Known, Told, InTime, SourceUtc
  <1>4. UsedOffset' = UsedOffset /\ Disciplined' = Disciplined
    BY <1>1, <1>2 DEF UsedOffset, Disciplined
  <1> QED  BY <1>1, <1>3, <1>4 DEF IInv

\* The inductive invariant: what the grandmaster has announced by which time, what the
\* program knows of it and has told the kernel or the servo, and where the clock is.
THEOREM Invariant == Spec => []IInv
  <1>1. IInv /\ [Next]_vars => IInv'
    BY TickInv, GmSetInv, GmClearInv, StartInv, CrashInv, ReadTimeInv, SuspendInv, UpdateInv, StutterInv
       DEF Next
  <1> QED  BY <1>1, InitInv, PTL DEF Spec

\* The clock has UTC and CLOCK_TAI is right in every second while the kernel applies the
\* leap second, the one that is repeated or left out included; and where the servo
\* applies it, its points are moved together with its samples (sysclk_set_leap,
\* sysclk_set_sync, second_overflow of the kernel, linreg_leap).
THEOREM ClockIsRight == Spec => []ClockRight
  <1>1. IInv => ClockRight
    <2> SUFFICES ASSUME IInv PROVE ClockRight
      OBVIOUS
    <2>1. Types /\ conf \in Configs /\ tai \in Int
      BY DEF IInv, Types
    <2>2. TypeOK
      <3>1. kern.bit \in {0, Leap} /\ kern.state \in KernelStates
        BY <2>1 DEF Types, KernelRecords
      <3> QED  BY <2>1, <3>1 DEF TypeOK, Types, Leap, KernelStates
    <2>3. ASSUME Running, proc.state = "LOCKED", ~proc.late, KernelLeap, Knowable
          PROVE  clk = Utc /\ (conf.traceable => clk + kern.tai = tai)
      <3>1. clk = Utc /\ (conf.traceable => kern.tai = TrueOffset)
        BY <2>3 DEF IInv, Settled, Informed, Disciplined
      <3>2. TrueOffset \in Int
        BY <2>1, LeapTimeFacts, Announcements, Constants
      <3> QED  BY <2>1, <3>1, <3>2 DEF Utc
    <2>4. ReferenceMoves
      <3> SUFFICES ASSUME Running, ~KernelLeap, Knowable PROVE proc.ref = proc.used
        BY DEF ReferenceMoves
      <3>1. CASE proc.state = "UNLOCKED"
        BY <3>1 DEF IInv, Told
      <3>2. CASE proc.state = "LOCKED"
        BY <3>2 DEF IInv, Settled, Informed, UsedOffset
      <3> QED  BY <2>1, <3>1, <3>2, ProcFields
    <2> QED  BY <2>2, <2>3, <2>4 DEF ClockRight
  <1> QED  BY <1>1, Invariant, PTL

\* Every update is made with the offset that is true at that time, however early or late
\* the grandmaster changes its flag and its offset (leap_second_status,
\* clock_utc_correct, clock_handle_leap).
THEOREM UpdatesAreRight == Spec => RightOffset
  <1>1. IInv /\ [Next]_vars => [(Update /\ Knowable /\ ~proc.late) => proc'.used = TrueOffset]_vars
    <2> SUFFICES ASSUME IInv, Update, Knowable, ~proc.late PROVE proc'.used = TrueOffset
      OBVIOUS
    <2>1. Types /\ Running /\ Told /\ Informed
      BY DEF IInv, Update, Informed
    <2> DEFINE s == Status.status
               o == Status.offset
    <2>2. proc'.used = o /\ idle > 0 /\ ~(Handled /\ is_utc_ambiguous(UpdateTime))
      BY <2>1, UpdateEffect
    <2>3. o = TrueOffset
      BY <2>1, <2>2, StatusRight
    <2> QED  BY <2>2, <2>3
  <1> QED  BY <1>1, Invariant, PTL DEF Spec, RightOffset
=============================================================================
