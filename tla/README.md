# A TLA+ model of linuxptp

linuxptp implements the Precision Time Protocol (IEEE 1588) for Linux. This
directory holds TLA+ modules of its programs, the TLC configurations that check them
on small instances, and proofs that TLAPS checks. Line numbers refer to `src/`.

## The system

`ptp4l` is a single process and a single thread: `main` reads the configuration, creates
one clock and calls `clock_poll` for ever. All concurrency is in the world around it:
messages, timers, link notifications and management requests become readable in any
combination, and one call of `poll` returns a snapshot of them that the program then works
through. `phc2sys` and `timemaster` are processes of their own; the first follows ptp4l
through its management socket, the second starts and supervises all of them.

| Component | State | Operations | Hard about it | Module |
|---|---|---|---|---|
| Port state machines (`fsm.c`) | none | `ptp_fsm`, `ptp_slave_fsm` | 10 states and 17 events, twice | `PortFsm` |
| Best master clock algorithm (`bmc.c`, `telecom.c`) | none | `dscmp`, `dscmp2`, `telecom_dscmp`, `bmc_state_decision` | must be an order; no influence of the order of discovery | `Bmc` |
| Port (`port.c`) | state, six timers, foreign masters, best master, delay mechanism, link status, sockets | `bc_event`, `bc_dispatch`, `port_initialize`, `port_disable`, announce handlers | timers and sockets closed and reopened in the middle of a pass; unchecked pointers | `BoundaryClock` |
| Clock (`clock.c`) | ports, `best`, parent, current and default data sets, `sde`, fault timers | `clock_poll`, `handle_state_decision_event` | stale snapshot, deferred decisions, failure in the middle of a decision | `BoundaryClock` |
| Link notifications (`rtnl.c`) | socket | `rtnl_link_status` | a notification is reported again by the next | `BoundaryClock` |
| Sync/Follow_Up matcher, delay mechanisms (`port.c`, `tsproc.c`) | kept messages, outstanding requests, counters, time stamps | `process_sync`, `process_follow_up`, `process_delay_*`, `process_pdelay_*`, `port_synchronize` | either order, loss, duplicates, flush while in use | `PortMessages`, `SyncPairing` |
| Transparent clocks (`tc.c`, `e2e_tc.c`, `p2p_tc.c`) | descriptors in flight | `tc_forward`, `tc_fwd_sync`, ... | residence times and Follow_Ups in either order on many ports | `TransparentClock` |
| Message pool (`msg.c`) | reference counts | `msg_allocate`, `msg_get`, `msg_put` | counts shared by lists | `TransparentClock`, `PortMessages` |
| Servos, `clockcheck` | servo and check state | `servo_sample`, `clockcheck_sample`, `clock_synchronize` | the program's own corrections look like errors | `Servo` |
| Filters, statistics, timer and frequency arithmetic | ring buffers | `filter_sample`, `set_tmo_*`, `clockadj_set_freq` | resets, boundaries, integer widths | `Filters`, `TimerMath` |
| Leap seconds (`util.c`, `clock.c`, `phc2sys.c`, `clockadj.c`) | flags and offset in use | `leap_second_status`, `clock_utc_correct`, `clock_handle_leap` | early and late announcements, restarts, midnight | `LeapSecond` |
| Management (`clock.c`, `port.c`, `tlv.c`, `pmc.c`) | data sets, subscribers | `clock_manage`, `port_manage`, `clock_forward_mgmt_msg` | flooding, duplicates, who answers what | `Management` |
| `phc2sys` | clocks, ports, subscription | `run_pmc`, `recv_subscribed`, `reconfigure`, `do_loop` | lost and late answers, states that change meanwhile | `Phc2sys` |
| `timemaster` | script, processes | `script_create`, `script_run` | merged signals, processes that end together | `Timemaster` |
| Configuration (`config.c`, `hash.c`, `ptp4l.c`) | hash table of items | parsing, getters, checks of the start | precedence, checks in several places | `Config` |
| Transports, `nsm`, `phc_ctl`, `hwstamp_ctl`, printing | small | sockets, one system call, text | - | - |

A port's handler returns an event; `clock_poll` passes it to the port's dispatcher,
which runs the state machine, (re)initialises or disables the port and starts and
stops its timers. Announce messages that change something, timeouts, lost links and
management set `sde`, and at the end of the pass `handle_state_decision_event` selects
each port's best foreign master and the clock's, and dispatches a recommendation to
every port. Syncs and delay measurements go through `tsproc` and its filters to the
servo, whose answer is dispatched to the port again. Every change of a port's state is
told to subscribers, of which phc2sys is the important one.

## The modules

`PortFsm` holds the two state machines, `Bmc` the comparisons, the selection loop
(`BestUpTo`) and the state decision. `BoundaryClock` extends both (through `Bmc`),
`PortMessages` and `TransparentClock` extend `PortFsm`; `PortMessages` instantiates
`SyncPairing` as the abstract specification of its matcher. `Filters` and `TimerMath`
are algorithms; `Algorithms` puts them and `Bmc` into one specification. The other modules
stand alone. A module `MCx` has the constants of the runs of `x`, and a module `xProofs`
the theorems about `x`. `MCClocks` puts `LeapSecond`, `TransparentClock` and
`Algorithms` into one run, `MCPrograms` does so with `Timemaster` and `Config`: a behaviour
chooses one of them in its first state and leaves the variables of the others alone. They
share no variable, so that each property is checked in exactly the behaviours of its own
module, under that module's own fairness.

A definition marked "Mutation" is a variant of the one that follows with a plausible
bug. None is used by a specification; each is there to show that the property it is
paired with in `PROJECT.json` notices the bug.

### `BoundaryClock`: ports and clock

`port[p]` is the part of `struct port` the control depends on; `clk` the clock's
`best` (as the port that has it), `best_id`, parent port identity and what it would
announce; `dds` the default data set; `sde` the flag of the same name. `pos` and
`snap` model `clock_poll`: a pass visits slots in increasing order, ten per port in the
order of `fd.h` and then the UDS port, and `snap[p]` is the set of timers that ran when
`poll` returned. A step handles one descriptor: `pos` grows to its slot, so that a pass
handles any subset of the descriptors in the code's order. A timer's event needs the
timer to be in `snap`, not to be armed now: the code looks at `revents` alone. `EndPass`
is the rest of `clock_poll` and the next `poll`.

`Handled` is what `clock_poll` does with the event of any handler: note `sde`, dispatch,
and, if the port is faulty, set the fault timer and leave the port's other descriptors.
`bc_dispatch` is `port_state_update` (with immediate clearing of ASAP faults and the
initialisation in place), the E2E or P2P transition if the state changed, and the PHC
switch of a jbod port. `handle_state_decision_event` is one step, as in the code: nothing
interleaves with it. A PHC switch that fails while the ports are dispatched frees the
masters of the port `c->best` belongs to; the comparisons of the later ports then read a
freed record, and `DanglingEvents` lets them come out either way.

Abstractions: an Announce is the attributes of its grandmaster and its distance (path
trace, flags and the UTC offset are left out); expiry of announce messages is a choice
in `fc_prune`, which may leave any prefix of the newest first list; the servo's answer
to a Sync is a choice, and so is every answer of the environment (`InitMayFail`,
`SendMayFail`, `PhcMayFail`), which a configuration may switch off; `malloc` succeeds;
one link notification is read per call; `EV_DESIGNATED_ENABLED` and `_DISABLED` are in
the state machines, but no code dispatches them. SET management reaches the data set
through the UDS port only. `port_capable` only decides whether a message is sent, and
is part of that choice.

### `PortMessages`: what a port keeps

`port` is the part of `struct port` that concerns Sync, Follow_Up and the delay messages,
`clk` the parent and what `tsproc` has. The servo's answer, the loss of the parent and a
new one are choices. Every message of a given set may arrive at any time, which includes
loss, repetition, delay and reordering. A local time stamp is "now" or, once the clock was
stepped, "old"; `Age` turns all stamps old and the code has to get rid of them. `used`
counts the buffers in use, and the kept message has its reference count, which the double
`msg_put` after `port_synchronize` works on.

`SyncPairing` says what the matcher is for: at most one half is kept, it is the last
message accepted, and a Sync and a Follow_Up are used together only if one of them was
kept and they have the same number; a half is used once. `MatcherSpec` maps `half` to
`last_syncfup` as `syfu` describes it, and TLC checks that every step of `PortMessages`
is one of `SyncPairing` or leaves `half` and `pair` alone.

### `TransparentClock`

Per port the list `tc_transmitted`; per buffer its reference count and age. A residence
time is a record of what it measured (message, way in, way out), a correction the set of
those added to it, so that `RightResidence` can tell them apart. One event is one step:
`tc_forward` goes through all ports within it. `MayFail` names the types of messages whose
sending, or of event messages whose time stamp, may fail on one of the ports in the middle.
The run `clocks` has the time stamps of event messages and the sending of a Delay_Resp
fail, `send_fails` that of a Follow_Up.

### `Servo`, `Filters`, `TimerMath`

The clock's error is an integer, a second passes in a `Tick` that applies the frequency
and stamps a Sync; `Check` and `Synchronize` are the two calls for that message, later.
The constants of the control loop are scaled to small integers; the states of the servo,
the counts, the limits and the clamping are those of the code. The clock may be set by
somebody else, exchanged (jbod) or left alone for a while. A stamp carries its age, the
seconds it waited to be read. `clockcheck_sample` takes the time of the call and the stamp
for one moment, so that with a stamp of another second it judges the seconds before the
last check by the frequency of the seconds after: with a lag of a second and a large change
of frequency in between it reports a clock that is right. The same is true of a
stamp taken before a step and checked after it: `clockcheck_step` has moved `last_ts`, and
the stamp is of before. `NoFalseAlarm` therefore takes as explained an alarm about a stamp
that was read late or is older than a step, ptp4l's own step included, next to those after
somebody else set or exchanged the clock; what it excludes is an alarm that ptp4l's own
steps and frequencies raise about any other stamp. An oscillator that is itself
outside `sanity_freq_limit` is what the check is there to report; `ServoAssumption` leaves
it out. The PI servo starts its estimate over if the second stamp is not above the first;
after the clock was set back between the two the model lets it be either. The regression of
linreg is replaced by what it is for: through four or more points of an undisturbed clock it
finds the frequency and the offset exactly, through others anything. For linreg `Converges`
thus speaks of the states around the regression and rests on the regression being right.
`Filters` has the rings and
their order as the code keeps them and compares their results with the average and the
median of the last samples; `TimerMath` computes in integers of a given width, with `NS`
for the nanoseconds of a second. The run has 8 bits for an int, 24 for a `uint64_t` and
64000 for a second, and exponents that go beyond all three: `TimersExact` says up to where a
timer is exact, and that an interval of less than a nanosecond stops it.

### `LeapSecond`

Kernel, grandmaster and program around a day of `Day` seconds. The kernel part is
external: it follows the NTP state machine of Linux as far as the code relies on it. The
program's part is one `Update` (or `Suspend`) of `clock_utc_correct` or
`clock_handle_leap`, with the data sets read at most a second late. A phc2sys asks for the
time properties every `PMC_UPDATE_INTERVAL` of 60 s (`phc2sys.c:1236`), so that it may learn
of a change up to a minute later: what is shown of it does not cover that minute, in which
it uses the offset from before. `LeapAssumption` has
the times between which the grandmaster may act, after the comment in
`leap_second_status`: "The leap bits obtained by PTP should be set at most 12 hours before
midnight and unset at most 2 announce intervals after midnight. Split updates which are too
early and which are too late at 6 hours after midnight." `Split` stands for the six hours;
the flag is set after them and no later than six seconds before midnight (a program reads it
a second late, may be idle for two and must have told the kernel before), and taken back
between two seconds before midnight and two before the split.

### `Phc2sys`

The lists, states and the pending state of `struct node`, and ptp4l's half of the
conversation: port states, the subscription with its expiry, and requests in order. `pc`
is the call of `run_pmc` or the step of the loop; every message is read in a step of its
own, because the states of ptp4l may change between any two. Answers that come after
`run_pmc` gave up stay in the queue and meet the next call. Simplified: in the code an
answer about another port also makes `run_pmc` send its request again (`phc2sys.c:987`),
where the model waits for the answer that is under way; error answers and ports with
software time stamps (`phc2sys.c:1180`) are left out.

### `Timemaster`

`script_create` is a loop over the sources and in it one over their interfaces, written as
recursive functions of the number of turns (`Built`, `Added`); the supervision has
one step per signal taken and one per pass over the processes. Pending signals are a set:
several SIGCHLDs are one.

### `Config`

The hash table with its chains, so that the lookups are the code's; every option and line
is an input, in any order up to `MaxInputs`; then the checks of `main`, `clock_create` and
`port_open`, on the first of which the start fails.

### `Management`

Clocks with ports in several wirings and a bag of messages on the network. A message has
an action, an ID, a kind of body, its target, the hops left and the number of TLVs
attached to it. Forwarding, the loss of a message and its reception by one port are steps;
all answers of a clock to a request are sent in the step that receives it, as in the code.
`address` is the client a socket last heard from, and everything that goes out on the socket
goes there. The model gives each client an identity to tell whose answers they are; on the
wire all clients of a socket have the same (`pmc_create` leaves the clock identity zero and
the port number 1), so that they are one subscriber to the clock, the last to ask.

## The runs

| Run | Instance | Shows |
|---|---|---|
| `one_port` | 1 hybrid AUTO port with a PHC of its own, 2 senders, distances 254 and 255, all faults, bonded links, failing initialisation, sends and PHC, sync timeout, class changed by management | `TypeOK`, `FollowsParent`, `TimersRun`, `AnnouncedDistance`, `PeerDelayRuns`, `Roles` |
| `two_ports` | 2 ports on different networks, faults, fairness | `OneSlave`, `CurrentMasterExists`, `Progress` |
| `messages` | E2E, AUTO and 802.1AS ports, 2 senders, numbers modulo 2, 2 outstanding requests, failing sends | `NoLeak`, `OneTimescale`, `SyncNumbers`, `MatcherSpec` |
| `phc2sys` | 2 ports with one or two clocks, system clock as source, destination or left out, 2 changes of state, 1 missed deadline | `SubscriptionKept`, `RightClocks`, `RtServoFresh`, `Follows` |
| `start` | timemaster: 5 lists of sources, 3 deaths, 1 failed start, 1 signal | `ScriptSound`, `NoLostChild`, `GroupsTogether`, `Recovers` |
| | ptp4l: 13 items, 15 settings, 2 interfaces, 3 inputs | `RightValue`, `Consistent` |
| `discipline` | 6 configurations of the 4 servos, 3 disturbances | `Restrained`, `NoFalseAlarm`, `Converges` |
| `clocks` | a leap second: a day of 14 seconds, both signs, both programs, kernel or servo, flag set at 6 or 8 and taken back at 12, 14 or 15, 2 restarts | `ClockRight`, `RightOffset`, `Settles` |
| | E2E and P2P transparent clocks, 3 ports, 2 buffers, 9 messages: Syncs and Delay_Resps of two numbers, a Follow_Up and a Delay_Req that belong to one of them, a peer delay message, a one step Sync, an Announce of another domain; without the spanning tree the third port neither fails nor becomes a master; time stamps and Delay_Resps may fail | `RefsExact`, `RightResidence`, `WillBePruned` |
| | the algorithms: all lists of up to 4 data sets from ports 1 and 256, all sequences of up to 4 samples with resets, exponents -18 to 12 on small machine integers, 7 values of `USER_HZ` | `LoopFindsBest`, `FiltersRight`, `TimersExact`, `FrequencyFits` |
| `management` | 3 clocks in a line and in a ring, 2 clients at one socket or at two, 12 kinds of requests, 2 hops, loss | `SetsAreLocal`, `AnsweredOnce`, `FloodEnds` |
| `forwarded_request` | as `management` | a violation of `AppliedLocally` |
| `last_process` | timemaster as in `start` | a violation of `ExitsOnLoss` |
| `command_line` | ptp4l as in `start` | a violation of `CommandLineWins` |
| `send_fails` | transparent clocks as in `clocks`, Follow_Ups may fail to be sent | a violation of `RefsExact` |

Why the bounds are enough. In `BoundaryClock` clock 3 is the modelled one, 2 and 4 are its
neighbours and 1 the grandmaster they announce; lists of messages are bounded by the code
and there are no counters; two ports are enough for every relation between ports in the
code (the best port and another one), two senders on one port for a change of master. The
theorems hold for any number. In `PortMessages` two numbers are enough for a mismatch and
for a number that comes round again, two requests for a list with a head and a rest. A
transparent clock with three ports has two egress ports for each message, so that one may
be served and the other not; with two numbers a Follow_Up meets a Sync it does not belong to; the buffers are taken for a Sync and a Follow_Up. The
changes, deaths and disturbances elsewhere are bounded because each opens the whole set
of interleavings anew; two changes of state suffice for one to overtake the other.

`Roles` is the conjunction of what a port's role allows: only masters transmit, a clock
of class 127 or less never follows, nobody announces a grandmaster back to where it heard
it, a hybrid port has an address for its delay requests. `Progress`, `RightClocks`,
`Recovers`, `Restrained` and `ClockRight` are conjunctions as well; each names its parts
in its module. `PeerDelayRuns` and `Roles` need that no fault is cleared
ASAP: an ASAP fault reopens the port in the middle of a pass and the stale snapshot then
reaches the new descriptors; the run has none, and the theorems about these two assume
that there is none (`TimersRun`, `NoEcho` and `PrimaryNeverFollows` are proved with them).
`Progress` is checked without failing initialisations and without link events. `RightValue`
leaves out the options that the file sets to ASAP, which `CommandLineWins` is about; `Recovers`
speaks of timemaster while it has a process left, `ExitsOnLoss` of the rest. No run sets
`masterOnly`, `slaveOnly` or the telecom profile of `BoundaryClock`; the theorems cover them.

CHECK_DEADLOCK is off where a program may end (`phc2sys` exits when its start fails,
`timemaster` when told to, ptp4l does not start) or where the bound on requests or time is
reached (`clocks`, `management`).

### Fairness

- `BoundaryClock`: a pass ends (`WF` of `EndPass`: the handlers do not block), and a timer
  which is running at infinitely many snapshots is found expired at one of them (`SF` of the
  handlers of the announce, qualification and fault timers). A timerfd stays readable after
  its expiry. In LISTENING only the announce timer's own handler sets it again, and in
  PRE_MASTER nothing sets the qualification timer. The fault timer is set back by each link
  notification that arrives while the port is faulty; for it the assumption also says that
  these pause once for longer than the interval. Nothing is assumed of messages, faults,
  links or management.
- `Phc2sys`: both processes run (`WF` of phc2sys' steps and of ptp4l's answers).
- `Timemaster`: timemaster runs, and a process that was sent SIGTERM ends.
- `Servo`: time passes, and the calls for a message that was received are made.
- `LeapSecond`: time passes, the grandmaster keeps to its schedule, announce messages are
  read and the clock is updated, and a program that crashed is started again.
- `Management`: what arrives is read. Messages may be lost; that only helps to end a flood.

### Findings

`forwarded_request`: `clock_manage` says "Forward this message out all eligible ports"
and "Apply this message to the local clock and ports". If a port took the message,
`clock_forward_mgmt_msg` (`clock.c:1298`) calls `msg_post_recv` to bring it back to host
byte order, and this attaches the TLV a second time; `clock_manage` then finds two and
drops the request (`clock.c:1326`). A boundary clock that forwards a request does not
answer it. `AnsweredOnce` therefore speaks of the clocks that did not forward.

`last_process`: `timemaster.8` says "If a process was terminated and is not started again,
timemaster will kill the other processes and exit with a non-zero status". With chronyd as
the only process, or with `restart_processes 0` and a single group, the process that ends
leaves none behind: `script_run` sends SIGTERM to itself, sets `quit`, kills nobody and waits
for a SIGCHLD, which alone ends its loop (`timemaster.c:1185`) and which nothing will cause.

`command_line`: `ptp4l.8` says "Option values given on the command line override values in
the global section of the configuration file". `fault_reset_interval ASAP` in that section
wins over the command line: `parse_fault_interval` stores it with the setter the program
uses for its own decisions, which ignores the lock and sets it (`config.c:479`, `:884`).

`send_fails`: `msg.h` says that messages are reference counted and that `msg_put` releases
a reference. When a transparent clock fails to send a Follow_Up, `tc_complete_syfup`
(`tc.c:226`) dispatches a fault, which disables the port and flushes its list, and goes on to
remove, put and recycle the descriptor that was in it: its message loses a reference that
the caller or another port's list still has. `RefsExact` holds otherwise (`clocks`).

### Observations

Behaviour met while modelling that departs from what a reader might expect; the properties
above are stated so that they are true of the code with it.

- A port whose initialisation fails when its fault timer expires, or at the start, is
  FAULTY with no timer running; a link notification is what brings it back (`clock.c:1517`).
- The Sync that makes a port SLAVE sets the sync receipt timer, and the transition it
  causes clears it until the next Sync (`port.c:2234`).
- A LISTENING P2P port reinitialised by an ASAP fault has no delay timer, because no
  transition is seen (`port.c:2941`).
- A change of parent under the same grandmaster is no change of master for the state
  machine: filters and path delay of the old parent stay in use (`clock.c:1746`), and a kept
  Sync of the old parent may be joined with a Follow_Up of the new one with that number.
- After a step of the clock, or a transition to UNCALIBRATED, a peer delay response still
  under way counts as "rogue" and faults the port (`port.c:2085`).
- A Follow_Up without its Sync is remembered for every port that is not blocked, and without
  `tc_spanning_tree` a faulty port is not: what it remembers is pruned only after it came
  up again (`tc.c:60`).
- Where a fault is cleared ASAP the port's descriptors are closed and reopened in the middle
  of a pass, and the events of the old ones are still handled: a receive on a new socket that
  has nothing to read (`clock.c:1493`).
- `set_tmo_log` sets a timer to zero for an exponent of -30 or less, which stops it, and
  shifts beyond the width of int for 31 and more; -128 to 127 can be configured (`port.c:192`).
- A socket remembers one address, that of whoever wrote to it last (`uds.c:107`). If phc2sys
  and pmc use ptp4l's socket together, the answers that other clocks send to the one go to
  the other if it has spoken since; and a subscription, which is by identity, is shared
  by them: the one that unsubscribes ends it for both (`clock.c:160`).
- A stamp taken before ptp4l's own step and checked after it makes clockcheck report a jump
  that did not happen, and resets the servo (`clock.c:1663`).
- After `clock_switch_phc` the check knows the old clock's frequency until the servo sets
  one; a `sanity_freq_limit` below the difference resets the servo at every sample, before
  it can set a frequency, so that it never does (`clock.c:1803`).
- For a `USER_HZ` whose tick is rounded up, such as 66, a tenth of the tick added to it is
  one more than the kernel accepts (`clockadj.c:160`); no kernel has such a value, and
  `FrequencyAssumption` leaves them out.
- ptp4l ignores a smaller UTC offset that is not traceable, so that a deleted leap second
  is not learnt from such a grandmaster (`clock.c:659`); and a program started in the last
  seconds before midnight misses the leap second.

## The proofs

`AlgorithmsProofs` proves, for all data sets, that exchanging the arguments of `dscmp2`, `dscmp`
and `telecom_dscmp` negates the result, and that they are transitive on data sets of
foreign masters (sender and receiver differ). For `dscmp` transitivity needs that a
grandmaster is announced with the same attributes on all paths: it compares identities
first, and without the condition three data sets can beat each other in a circle. From this
`SelectionFindsBest` derives `LoopFindsBest` for lists of any length, discovered in any
order. The loop is a recursive function, a CHOOSE to the prover: `LoopRuns` shows that a
loop over `1..n` whose turns are functions on a set has a run, `LoopTurns` that the function
chosen is one, and what holds after each turn follows from the smallest turn after which it
would not (`Smallest`): after turn i the candidate is better than all others up to i. This
replaces induction, which the provers do not do, and serves `TimemasterProofs` as well.

`FrequenciesFit` proves `FrequencyFits` for every frequency up to `sysclk_max_freq` and every
`USER_HZ` that `FrequencyAssumption` admits: rounding to ticks leaves at most half a tick
(`TicksFacts`), which below 1001 Hz is at most the 500 ppm that the frequency field takes,
and above no tick is used at all; the two conversions between ppb and the kernel's unit lose
at most one ppb (`ScaledFacts`).

`BoundaryClockProofs` proves, for any number of ports and masters and every value of the
configuration constants that satisfies `ConstantsAssumption`, that `TypeOK`,
`FollowsParent`, `OneSlave`, `CurrentMasterExists`, `TimersRun` and `AnnouncedDistance`
are invariants. They follow from the inductive invariant

    IInv == TypeOK /\ AnnouncedDistance /\ \A p \in Ports : Sound(p, port[p], clk)

where `Sound` says of one port that its state's timers run, that in UNCALIBRATED or SLAVE
the clock's best is this port and the parent its best master, that a following or passive
port's best master is in its list, that a slave only clock's port is in no master state,
and that all kept messages are at most 254 steps away. The last two are what the
properties need to be inductive: `ptp_slave_fsm` ignores every event in the master states,
so a port that got there could keep following what it lost; and the announced distance
comes from a kept message. `OneSlave` is not inductive by itself: it follows because two
following ports would both be the clock's best.

The argument: an event that a port dispatches for itself never takes it into a following
state it was not in, except between UNCALIBRATED and SLAVE, and leaving the port's lists
alone unless it is disabled (`FsmFollows`, `MoveFacts`, `DispatchFacts`); so one
descriptor's step keeps `Sound` (`DispatchSound`, `HandledSound`, one lemma per handler).
In the state decision a port follows only if it was recommended RS_SLAVE, which only the
port with the clock's best is, and then no port is recommended RS_GRAND_MASTER, so that
the parent written is the master followed (`DecisionFacts`, `RecommendFacts`,
`DecisionSound`). This holds also when `c->best` dangles, because then the port that had
it is no longer following.

The second half of `BoundaryClockProofs` adds what the roles of the ports allow. Two parts of `Roles` hold in every
configuration, ASAP faults included (`DecisionsObeyed`): `NoEcho` and
`PrimaryNeverFollows`. They rest on what `handle_state_decision_event` leaves behind
(`DecisionTaken`, `TakenObeyed`) and on no handler making a port lead or follow before the
next decision (`RolesKept`). The others need `AsapFaults = {}` and an invariant about the
snapshot:

    Quiet == \A p \in Ports : RoleTimers(port[p]) /\ HasMessage(port[p])
                             /\ Timely(p, port[p], pos, snap[p])

`RoleTimers` says which timers run in which role, `Timely` that a timer which the snapshot
shows as expired and whose slot is still to come belongs to the role the port has now. It is
needed because `bc_event` looks at the snapshot and not at the timer. With it `PeerDelayRuns`
and `Roles` follow for any number of ports. `FsmRuns` and its companions
say which transitions of `ptp_fsm` a handler can cause; there is one lemma per descriptor
(`...Served`), and `ServedStep` puts them together.

`PortMessagesProofs` proves `NoLeak`, `OneTimescale`, `SyncNumbers` and the refinement
`MatcherSpec` for any sources, traffic, configurations, number of outstanding requests
and modulus of the sequence numbers. The inductive invariant is

    IInv == TypeOK /\ Sound(port) /\ Counted(port) /\ Fresh(port) /\ "old" \notin {clk.t2, clk.t3}

`Balanced` (in `Sound`) counts the buffers held by each list; `RightKind` says that `syfu`
tells the kind of the kept message, which is what the refinement mapping reads; `Counted`
that the responses of a second responder are noticed before the counter wraps; `Fresh`
that what is kept has stamps of after the last step. `Fresh` is strictly more than
`OneTimescale`: a kept old stamp is not yet combined with anything. A handler is a chain of
operations on the port's record; each has a lemma that it releases messages and keeps the
rest (`Released`, `Quiet`), and the step lemmas compose them. Every step either leaves the
half and the pair alone, drops the half, or is the step of `SyncPairing` that
`port_syfufsm` names.

`Phc2sysProofs` proves `SubscriptionKept`, `RightClocks` and `RtServoFresh` for any number
of ports, any grouping of them to clocks, any number of changes of state and any number of
missed deadlines. `IInv` has four parts beside the types. `Subscribed`: the age of the
subscription is bounded by where the loop is and by the answers that wait unread.
`Informed`: in the queue from ptp4l every answer says what the last news said, the last
word on a port is its real state, and what phc2sys knows of a port is what the next answer
will say; it is what makes an answer that outlives its call (`run_pmc` gave up) harmless.
`Reckoned`: a clock's state is computed from its ports' states, or the clock is among
those the running loop of `clock_reinit` or `reconfigure` has not reached, or a change is
pending. `ServoKept`: the servo of the system clock is outdated only while it is a source.

`TimemasterProofs` proves `NoLostChild` and the action property `GroupsTogether` for the
script of any configuration, and `ScriptSound` (`ScriptsAreSound`) for any list of sources,
however they share interfaces and PHCs. After n interfaces of a source (`Turned`) the script
is `Sound`: no two commands have a PHC, an interface or a segment in common, every PHC that
is disciplined is in `allocated_phcs`, every segment written is below the next one, and
every segment the NTP program reads has a writer; and the interfaces that have a process are
those from before and the `Mates` of the first n. An interface that leads shares its process
with no earlier one, one that does not shares it with one (`MatesApart`), and its PHC is in
no other source because `Phcs` was computed before the source used any. `Grown` is the same
after k sources: only those have processes, and unless an interface could not be used all
their interfaces have one.

`ServoProofs` proves `Restrained` for any configurations, errors and disturbances; the
strengthening is that `first_update` is set only while the clock was not stepped, which has
to survive `servo_reset` and a change of the PHC, and that the drift of the PI servo is
within its limits in every state that uses it. `AlarmsAreTrue` proves `NoFalseAlarm` for
every limit, every oscillator within it and every sequence of checks, steps and frequencies,
with the reasons for an alarm that the property names.
Its invariant `WInv` says that a stamp of this second is the clock's time (`Fresh`), that the
check knows the clock's frequency, and that since the last check the clock went no further
than the smallest and the largest frequency it was given allow (`Watched`): what
`clockcheck_set_freq` and `clockcheck_step` are called for. The attempt showed that an
earlier form of the property, which did not ask for the age of the stamps, held in the run
only because its frequencies were small.

`LeapSecondProofs` proves `ClockRight` and `RightOffset` for a day of any length, either
sign, any initial error and offset, any times that `LeapAssumption` admits and any number of
restarts. The invariant bounds by the stage of the announcement what everybody can know:
`Schedule` says when the grandmaster may announce what, `Known` that a program which is not
late has the announcement of this or the last second, `Told` that kernel and servo have what
the program last set and nothing after it was started again, `UsedOffset` and `Disciplined`
that a program in step uses the right offset and that clock and kernel are where they should
be, before, in and after the leap second. `StatusRight` is the heart: for every time of
an update and every stage, `leap_second_status` gives the offset that is true at that time.
Each action has a lemma; `TickInv` and `UpdateInv` go through the stages.

`ManagementProofs` proves `SetsAreLocal` for any clocks, clients, requests and any wiring,
loops included. The invariant says that every message on the way that asks for something
asks for what some client has sent (`Asked`), and that at a socket it is from a client of
that clock (`OnWay`): a request forwarded on the network never comes back through a socket.

The assumptions on the constants are that `NULL` is none of the values it is told apart
from, that counts are natural numbers, that clock identities and configurations have their
types, that in phc2sys a clock is named by the first of its ports; each is stated as a
named ASSUME, and TLC evaluates it in the run of that module. Every inductive invariant was
checked with TLC on the instance of its component's run before it was proved.

Only model checked: the liveness properties and the fairness they need, and ENABLED (out of
reach of the prover); what the filters compute (`FiltersRight`: sums and the ranks of
medians), the timers (`TimersExact`: the provers know nothing of 2^n), the lookups and the
order of settings (`RightValue`, `Consistent`), the reference counts of descriptors as a sum
over all ports' lists (`RefsExact`, and `RightResidence` and `WillBePruned` which use it), and
the number of answers in a bag and the paths of a tree (`AnsweredOnce`). These count or add up
over data of any size, and the library's facts about folds, `SelectSeq` and bags are not
enough for them. No module with a theorem, and none that such a module uses, declares a
RECURSIVE operator.

## What is not modelled

- Byte layout and byte order (`msg.c`, `tlv.c`), apart from lengths of management TLVs:
  conversions without control that a model would only repeat.
- Sockets and system calls (`udp*.c`, `raw.c`, `uds.c`, `sk.c`, `phc.c`, `sysoff.c`): they
  appear as choices between success and failure.
- The floating point content of the servos (weights, regression) and of the statistics'
  deviation: TLC has integers, and the properties are about states and limits.
- `pmc`'s table of commands, `nsm`, `phc_ctl`, `hwstamp_ctl`, printing: text in and out.
- Manual and PPS modes of phc2sys: straight loops over one pair of clocks.
- Path trace, 802.1AS TLVs and the frequency estimate of a free running clock.
- Several `BoundaryClock`s joined by lossy links: the age of a parent that is lost by a
  fault without a decision (`clock.c:1494`) would be seen there; its states are out of
  TLC's reach with the ports as detailed as they are.

## What is left to prove

`RefsExact` of `TransparentClock`, if the sum over the lists is replaced by a counting
argument per descriptor; and the moving average's half of `FiltersRight`, whose sum of a
ring would need its own lemma.
