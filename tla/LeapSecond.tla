----------------------------- MODULE LeapSecond -----------------------------
(***************************************************************************)
(* A leap second (util.c, clock.c clock_utc_correct, phc2sys.c             *)
(* clock_handle_leap, clockadj.c): the grandmaster announces it hours      *)
(* ahead, and takes the flag back and changes the offset between TAI and   *)
(* UTC some time before or after midnight; ptp4l or phc2sys learn of both  *)
(* with a delay; the kernel or the servo has to apply it.                  *)
(*                                                                         *)
(* Time is in seconds, of a day of Day seconds that begins with second 0.  *)
(* UTC is counted as the kernel does: a second that is inserted repeats    *)
(* the last one before midnight.                                           *)
(***************************************************************************)
EXTENDS Integers

CONSTANTS
  None,
  Configs,     \* see conf
  Day,         \* NS_PER_DAY
  Split,       \* 6 * NS_PER_HOUR
  Offset,      \* TAI - UTC before the leap second
  Errors,      \* the errors of a clock that nobody disciplines
  SetTimes,    \* when the grandmaster sets the leap flag
  ClearTimes,  \* when it clears it and changes the offset
  Horizon,     \* bound: how long is looked at
  MaxCrashes   \* bound: how often ptp4l or phc2sys is started again

VARIABLES
  conf,      \* [user: the program, kernel_leap, leap: +1 or -1, traceable,
             \*  toUtc: the clock to discipline has UTC and its source TAI, or the reverse,
             \*  steps: the servo steps the clock for an error of a second]
  tai,       \* the true time
  clk,       \* the clock that has UTC, CLOCK_REALTIME
  slew,      \* the servo is about to correct clk by so much
  kern,      \* the kernel: [bit: STA_INS or STA_DEL, state, tai]
  gm,        \* what the grandmaster announces: [leap, offset]
  node,      \* what the program has of it
  proc,      \* the program's state, see Started
  stale,     \* seconds since node is not gm
  idle,      \* seconds since the clock was updated
  crashes

vars == <<conf, tai, clk, slew, kern, gm, node, proc, stale, idle, crashes>>

\* The program's state, see Started.
Process ==
  [late : BOOLEAN, state : {"UNLOCKED", "LOCKED"}, leap_set : -1..1, utc_offset_set : Int,
   leap : -1..1, bit : -1..1, used : Int \cup {None}, ref : Int \cup {None}]

\* The flag is set after Split and early enough that the program, which sees it a second
\* later and updates the clock every other second, tells the kernel two seconds before
\* midnight; it is cleared, and the offset changed, two seconds before midnight at the
\* earliest, and so that the program knows of it by Split.
ASSUME LeapAssumption ==
  /\ None \notin Int /\ None \notin Process
  /\ Day \in Nat /\ Split \in 2..(Day - 7) /\ Offset \in Nat \ {0, 1}
  /\ Errors \subseteq Int /\ 0 \in Errors
  /\ SetTimes \subseteq (Split + 1)..(Day - 6)
  /\ ClearTimes \subseteq (Day - 2)..(Day + Split - 2)
  /\ Horizon \in Nat /\ MaxCrashes \in Nat
  /\ Configs \subseteq [user : {"ptp4l", "phc2sys"}, kernel_leap : BOOLEAN, leap : {-1, 1},
                       traceable : BOOLEAN, toUtc : BOOLEAN, steps : BOOLEAN]
  /\ \A c \in Configs : c.toUtc \/ c.user = "phc2sys"

\* The last second before the old and the new offset differ is inserted, or left out.
LeapTime == Offset + Day - (IF conf.leap = -1 THEN 1 ELSE 0)
TrueOffset == IF tai < LeapTime THEN Offset ELSE Offset + conf.leap
Utc == tai - TrueOffset

-----------------------------------------------------------------------------
(* util.c                                                                  *)

is_utc_ambiguous(ts) == Day - (ts % Day) <= 1

\* The status, and the offset as it should be announced at this time.  Mutation: a
\* late update is not seen.
leap_second_status_late(ts, leap_set, leap, utc_offset) ==
  LET status == IF ts % Day > Split THEN IF leap_set = 0 THEN leap ELSE leap_set ELSE 0
  IN [status |-> status, offset |-> IF leap = 0 /\ status # 0 THEN utc_offset - status ELSE utc_offset]

\* Mutation: the flag that is set is kept after midnight.
leap_second_status_kept(ts, leap_set, leap, utc_offset) ==
  LET status == IF leap_set = 0 THEN leap ELSE leap_set
  IN [status |-> status,
      offset |-> IF leap = 0 /\ status # 0 THEN utc_offset - status
                 ELSE IF leap # 0 /\ status = 0 THEN utc_offset + leap ELSE utc_offset]

leap_second_status(ts, leap_set, leap, utc_offset) ==
  LET status == IF ts % Day > Split THEN IF leap_set = 0 THEN leap ELSE leap_set ELSE 0
  IN [status |-> status,
      offset |-> IF leap = 0 /\ status # 0 THEN utc_offset - status
                 ELSE IF leap # 0 /\ status = 0 THEN utc_offset + leap ELSE utc_offset]

-----------------------------------------------------------------------------
(* The kernel and the grandmaster.                                         *)

Insert == kern.state = "INS" /\ kern.bit = 1 /\ (clk + 1) % Day = 0
Delete == kern.state = "DEL" /\ kern.bit = -1 /\ (clk + 2) % Day = 0

Armed == CASE kern.bit = 1 -> "INS" [] kern.bit = -1 -> "DEL" [] OTHER -> "OK"

\* The kernel waits, after a leap second, until the bit is cleared.
second_overflow ==
  IF Insert \/ Delete
  THEN [kern EXCEPT !.state = "WAIT", !.tai = @ + kern.bit]
  ELSE IF kern.state = "WAIT" /\ kern.bit # 0 THEN kern ELSE [kern EXCEPT !.state = Armed]

\* The time properties are read by phc2sys as they are (run_pmc_get_utc_offset);
\* ptp4l takes an untraceable offset only if it grows (clock_update_slave).
TimeProperties(utc_offset) ==
  IF conf.user = "phc2sys" \/ conf.traceable \/ gm.offset > utc_offset
  THEN gm ELSE [gm EXCEPT !.offset = utc_offset]

Running == proc # None
Behind == node # TimeProperties(node.offset)

\* The grandmaster cannot wait any longer.
GmDue ==
  \/ gm.leap = 0 /\ gm.offset = Offset /\ \A t \in SetTimes : t <= tai - Offset
  \/ gm.leap # 0 /\ \A t \in ClearTimes : t <= tai - Offset

\* A second passes.  The data sets are at most a second behind, and the clock is
\* updated at least every two seconds.  A phc2sys polls the time properties every
\* PMC_UPDATE_INTERVAL of 60 s: the minute before it learns of a change is left out.
Tick ==
  /\ tai < Horizon /\ ~GmDue
  /\ Running => (stale < 1 \/ ~Behind) /\ idle < 2
  /\ tai' = tai + 1
  /\ clk' = clk + slew + (IF Insert THEN 0 ELSE IF Delete THEN 2 ELSE 1) /\ slew' = 0
  /\ kern' = second_overflow
  /\ stale' = IF Running /\ Behind THEN stale + 1 ELSE 0
  /\ idle' = IF Running THEN idle + 1 ELSE 0
  /\ UNCHANGED <<conf, gm, node, proc, crashes>>

\* Where the source has UTC, an NTP daemon tells the kernel of the leap second.
GmSet ==
  /\ gm.leap = 0 /\ gm.offset = Offset /\ tai - Offset \in SetTimes
  /\ gm' = [gm EXCEPT !.leap = conf.leap]
  /\ kern' = IF conf.toUtc THEN kern ELSE [kern EXCEPT !.bit = conf.leap, !.state = Armed]
  /\ stale' = 0
  /\ UNCHANGED <<conf, tai, clk, slew, node, proc, idle, crashes>>

GmClear ==
  /\ gm.leap # 0 /\ tai - Offset \in ClearTimes
  /\ gm' = [leap |-> 0, offset |-> Offset + conf.leap]
  /\ stale' = 0
  /\ UNCHANGED <<conf, tai, clk, slew, kern, node, proc, idle, crashes>>

-----------------------------------------------------------------------------
(* The program.                                                            *)

\* leap_set, utc_offset_set, the offset of the last update and the reference of the
\* servo's points, if it has any; leap is that of linreg, bit realtime_leap_bit; late
\* records a start so short before midnight that the leap second may be missed.
Started == [late |-> tai \in (LeapTime - 4)..(LeapTime - 1),
            state |-> "UNLOCKED", leap_set |-> 0, utc_offset_set |-> 0, leap |-> 0,
            bit |-> 0, used |-> None, ref |-> None]

\* Every start clears the leap second of the kernel (clock_create, servo_add); a
\* start after the grandmaster has cleared its flag early cannot know of the leap second.
Start ==
  /\ ~Running
  /\ gm.offset # Offset => tai >= LeapTime
  /\ proc' = Started
  /\ node' = TimeProperties(Offset)
  /\ kern' = IF conf.toUtc THEN [kern EXCEPT !.bit = 0] ELSE kern
  /\ stale' = 0 /\ idle' = 0
  /\ UNCHANGED <<conf, tai, clk, slew, gm, crashes>>

Crash ==
  /\ Running /\ crashes < MaxCrashes
  /\ proc' = None /\ slew' = 0 /\ stale' = 0 /\ idle' = 0
  /\ crashes' = crashes + 1
  /\ UNCHANGED <<conf, tai, clk, kern, gm, node>>

ReadTime ==
  /\ Running /\ Behind
  /\ node' = TimeProperties(node.offset)
  /\ stale' = 0
  /\ UNCHANGED <<conf, tai, clk, slew, kern, gm, proc, idle, crashes>>

\* The time that midnight is compared with: of the clock with UTC, or where that
\* is to be stepped, of what it is stepped to.
UpdateTime == IF conf.toUtc /\ proc.state = "UNLOCKED" THEN tai - node.offset ELSE clk

Handled == node.leap # 0 \/ proc.leap_set # 0

\* Updates are suspended in the last second before midnight.
Suspend ==
  /\ Running /\ idle > 0
  /\ Handled /\ is_utc_ambiguous(UpdateTime)
  /\ idle' = 0
  /\ UNCHANGED <<conf, tai, clk, slew, kern, gm, node, proc, stale, crashes>>

KernelLeap == conf.kernel_leap /\ conf.toUtc

\* The points are moved when the leap second is over.
linreg_leap(p, leap) ==
  [p EXCEPT !.leap = leap, !.ref = IF @ # None /\ p.leap # 0 /\ leap = 0 THEN @ + p.leap ELSE @]

\* A change of the status is told the kernel (sysclk_set_leap) or the servo.
SetLeap(p, leap) ==
  IF p.leap_set = leap THEN p
  ELSE IF KernelLeap THEN [p EXCEPT !.leap_set = leap, !.bit = leap]
  ELSE [linreg_leap(p, leap) EXCEPT !.leap_set = leap]

\* Mutation: the leap bit is forgotten when the clock is declared synchronous.
sysclk_set_sync_bare(k, p) == [k EXCEPT !.bit = 0]

sysclk_set_sync(k, p) == [k EXCEPT !.bit = p.bit]

\* clock_utc_correct and clock_handle_leap, and the update of the clock that follows.
Update ==
  /\ Running /\ idle > 0
  /\ ~(Handled /\ is_utc_ambiguous(UpdateTime))
  /\ LET ls == IF Handled THEN leap_second_status(UpdateTime, proc.leap_set, node.leap, node.offset)
               ELSE [status |-> proc.leap_set, offset |-> node.offset]
         p == SetLeap(proc, ls.status)
         tell == conf.traceable /\ p.utc_offset_set # ls.offset
         err == clk - (tai - ls.offset)
         step == proc.state = "UNLOCKED" \/ (conf.steps /\ err # 0)
         k == [kern EXCEPT !.bit = IF KernelLeap /\ p.leap_set # proc.leap_set THEN p.bit ELSE @,
                           !.tai = IF tell /\ conf.toUtc THEN ls.offset ELSE @]
     IN /\ proc' = [p EXCEPT !.state = "LOCKED", !.used = ls.offset,
                             !.utc_offset_set = IF tell THEN ls.offset ELSE @,
                             !.ref = IF @ = None THEN ls.offset ELSE @]
        /\ kern' = IF conf.toUtc THEN sysclk_set_sync(k, p) ELSE k
        /\ clk' = IF conf.toUtc /\ step THEN tai - ls.offset ELSE clk
        /\ slew' = IF conf.toUtc /\ ~step THEN -err ELSE 0
  /\ idle' = 0
  /\ UNCHANGED <<conf, tai, gm, node, stale, crashes>>

Init ==
  /\ conf \in Configs
  /\ tai = Offset + Split + 1
  /\ clk \in {IF conf.toUtc THEN Utc + e ELSE Utc : e \in Errors} /\ slew = 0
  /\ kern = [bit |-> 0, state |-> "OK", tai |-> 0]
  /\ gm = [leap |-> 0, offset |-> Offset] /\ node = gm
  /\ proc = None /\ stale = 0 /\ idle = 0 /\ crashes = 0

Next == Tick \/ GmSet \/ GmClear \/ Start \/ Crash \/ ReadTime \/ Suspend \/ Update

Spec == Init /\ [][Next]_vars

\* Time passes, and ptp4l and phc2sys are started again.
Fairness ==
  /\ WF_vars(Tick) /\ WF_vars(GmSet \/ GmClear) /\ WF_vars(Start)
  /\ WF_vars(ReadTime) /\ WF_vars(Suspend \/ Update)

-----------------------------------------------------------------------------
(* Properties.                                                             *)

\* leap_set, the kernel's bit and state and the servo's leap are values of their types;
\* the status is never a leap second of the other sign.
TypeOK ==
  /\ kern.bit \in {0, conf.leap} /\ kern.state \in {"OK", "INS", "DEL", "WAIT"}
  /\ Running => proc.leap_set \in {0, conf.leap} /\ proc.leap \in {0, conf.leap}
  /\ stale \in 0..1 /\ idle \in 0..2

\* ptp4l does not learn of a smaller offset that is not traceable.
Knowable == conf.user = "phc2sys" \/ conf.traceable \/ conf.leap = 1

\* Whenever the clock is updated, however early or late the grandmaster changes its
\* flag and its offset and whenever the program read them, the update is made with the
\* offset that is true at that time (leap_second_status, clock_utc_correct,
\* clock_handle_leap).
RightOffset == [][(Update /\ Knowable /\ ~proc.late) => proc'.used = TrueOffset]_vars

\* Where the servo applies it, its points are moved by just what its samples jump, at
\* the same update (linreg_leap).
ReferenceMoves == (Running /\ ~KernelLeap /\ Knowable) => proc.ref = proc.used

\* While the program disciplines the clock and the kernel applies the leap second, the
\* clock is right in every second, the one that is repeated or left out included, on
\* that midnight and on the next, and so is CLOCK_TAI (sysclk_set_leap,
\* sysclk_set_sync, sysclk_set_tai_offset).
ClockRight ==
  /\ TypeOK
  /\ (Running /\ proc.state = "LOCKED" /\ ~proc.late /\ KernelLeap /\ Knowable) =>
        clk = Utc /\ (conf.traceable => clk + kern.tai = tai)
  /\ ReferenceMoves

\* However the leap second is applied, and whenever the program is started again, in
\* the end the clock has UTC and nothing is left that could apply it once more
\* (clock_handle_leap, sysclk_set_leap).
Settles ==
  <>[]((Knowable /\ Running /\ proc.state = "LOCKED") =>
          clk = Utc /\ proc.leap_set = 0 /\ (conf.toUtc => kern.bit = 0))
=============================================================================
