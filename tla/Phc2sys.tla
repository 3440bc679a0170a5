------------------------------ MODULE Phc2sys ------------------------------
(***************************************************************************)
(* phc2sys in automatic mode (phc2sys.c): it subscribes to the port states *)
(* of ptp4l, chooses the clock to take the time from and steers the        *)
(* others.  ptp4l is its other half here: the subscription it keeps        *)
(* (clock.c), the notifications it sends and the answers to requests.      *)
(* Both talk over a local socket, in order; ptp4l may be late, and port    *)
(* states may change between any two steps of phc2sys.                     *)
(*                                                                         *)
(* A clock is named by the first of the ports whose interface has it.      *)
(* The unit of time is PMC_UPDATE_INTERVAL.                                *)
(***************************************************************************)
EXTENDS Integers, SequencesExt

CONSTANTS
  NULL,
  RT,             \* CLOCK_REALTIME
  NPorts,         \* ptp4l's ports
  Configs,        \* the configurations, see below
  PortStates,     \* the states ptp4l's ports change to
  MaxChanges,     \* bound: changes of port states
  MaxLate         \* bound: how often ptp4l misses a deadline

PortNums == 1..NPorts
PMC_SUBSCRIBE_DURATION == 3

VARIABLES
  conf,      \* what the system clock is ("dest": -r, "source": -r -r), each port's
             \* clock, and the port states phc2sys finds
  real,      \* the states of ptp4l's ports
  sub,       \* how long the subscription lasts
  toNode,    \* what ptp4l sent
  toPtp,     \* what phc2sys asked
  pc,        \* where phc2sys is: a call of run_pmc, or a step of do_loop
  asked,     \* pmc_ds_requested
  at,        \* the port auto_init_ports or reconfigure is at
  node,      \* struct node, its ports and clocks
  woke,      \* whether phc2sys ran since time last passed
  changes, late

vars == <<conf, real, sub, toNode, toPtp, pc, asked, at, node, woke, changes, late>>

\* Messages: answers, requests and notifications.
Msg(kind, n, s) == [kind |-> kind, port |-> n, state |-> s]
DEFAULT == Msg("DEFAULT_DATA_SET", NULL, NULL)
SUB == Msg("SUBSCRIBE", NULL, NULL)
TIME == Msg("TIME_PROPERTIES", NULL, NULL)
Properties(n, s) == Msg("PORT_PROPERTIES", n, s)
DataSet(n, s) == Msg("PORT_DATA_SET", n, s)

\* The states phc2sys tells apart.
Norm == {"MASTER", "SLAVE", "PRE_MASTER", "UNCALIBRATED", "DISABLED"}

ASSUME Phc2sysAssumption ==
  /\ NPorts \in Nat \ {0} /\ MaxChanges \in Nat /\ MaxLate \in Nat
  /\ RT \notin PortNums /\ NULL \notin Norm /\ NULL # SUB
  /\ \A c \in Configs :
       /\ c.rt \in {"none", "dest", "source"}
       /\ c.clock \in [PortNums -> PortNums]
       /\ \A n \in PortNums : c.clock[n] <= n /\ c.clock[c.clock[n]] = c.clock[n]
       /\ c.start = [n \in PortNums |-> c.start[n]]

rt == conf.rt
Clocks == {conf.clock[n] : n \in PortNums}
PortsOf(c) == {n \in PortNums : conf.clock[n] = c}

\* The port or clock before, as the lists are gone through from their heads.
Before(S, n) == LET T == {m \in S : m < n} IN IF T = {} THEN 0 ELSE CHOOSE m \in T : \A k \in T : k <= m

normalize_state(s) ==
  IF s \in {"MASTER", "SLAVE", "PRE_MASTER", "UNCALIBRATED"} THEN s ELSE "DISABLED"

-----------------------------------------------------------------------------
(* ptp4l.                                                                  *)

\* A port's state changes; subscribers are told (clock_send_notification).
Change(n, s) ==
  /\ changes < MaxChanges /\ s # real[n]
  /\ real' = [real EXCEPT ![n] = s]
  /\ toNode' = IF sub > 0 THEN Append(toNode, DataSet(n, s)) ELSE toNode
  /\ changes' = changes + 1
  /\ UNCHANGED <<conf, sub, toPtp, pc, asked, at, node, woke, late>>

\* A request is answered; a subscription is entered or prolonged.
Answer(m) ==
  CASE m.kind = "PORT_PROPERTIES" -> Properties(m.port, real[m.port]) [] OTHER -> m

Serve ==
  /\ toPtp # <<>>
  /\ toPtp' = Tail(toPtp)
  /\ toNode' = Append(toNode, Answer(Head(toPtp)))
  /\ sub' = IF Head(toPtp) = SUB THEN PMC_SUBSCRIBE_DURATION ELSE sub
  /\ UNCHANGED <<conf, real, pc, asked, at, node, woke, changes, late>>

\* Mutation: the subscription is not kept as long as it was asked for.
Prune_early(n) == 0

\* clock_prune_subscriptions, after a unit of time
Prune(n) == IF n > 0 THEN n - 1 ELSE 0

\* Time passes while phc2sys sleeps, which it does for much less than a unit.
Tick ==
  /\ pc = "sleep" /\ woke /\ toPtp = <<>>
  /\ node.age < PMC_SUBSCRIBE_DURATION
  /\ sub' = Prune(sub)
  /\ node' = [node EXCEPT !.age = @ + 1]
  /\ woke' = FALSE
  /\ UNCHANGED <<conf, real, toNode, toPtp, pc, asked, at, changes, late>>

-----------------------------------------------------------------------------
(* The messages phc2sys receives (run_pmc, recv_subscribed).               *)

\* Mutation: a clock that leads on one port is a destination.
Precedence_master_first == <<"DISABLED", "PRE_MASTER", "UNCALIBRATED", "SLAVE", "MASTER">>

\* The state that takes precedence among the ports of a clock is the last one.
Precedence == <<"DISABLED", "PRE_MASTER", "MASTER", "UNCALIBRATED", "SLAVE">>

clock_compute_state(nd, c) ==
  CHOOSE s \in {nd.port[n] : n \in PortsOf(c)} \ {NULL} :
    \A n \in PortsOf(c) : nd.port[n] # NULL =>
      \E i, j \in 1..5 : i <= j /\ Precedence[i] = nd.port[n] /\ Precedence[j] = s

\* Mutation: a pending state of the clock is not replaced.
recv_subscribed_pending(nd, m) ==
  LET s == normalize_state(m.state)
      told == [nd EXCEPT !.port[m.port] = s]
      c == conf.clock[m.port]
      new == clock_compute_state(told, c)
  IN CASE m.kind # "PORT_DATA_SET" -> nd
       [] m.kind = "PORT_DATA_SET" /\ nd.port[m.port] \in {NULL, s} -> nd
       [] OTHER -> IF nd.clock[c] # new
                   THEN [told EXCEPT !.new[c] = new, !.changed = TRUE] ELSE told

\* A notification: ports that are not known yet are ignored.
recv_subscribed(nd, m) ==
  LET s == normalize_state(m.state)
      told == [nd EXCEPT !.port[m.port] = s]
      c == conf.clock[m.port]
      new == clock_compute_state(told, c)
  IN CASE m.kind # "PORT_DATA_SET" -> nd
       [] m.kind = "PORT_DATA_SET" /\ nd.port[m.port] \in {NULL, s} -> nd
       [] OTHER -> IF nd.clock[c] # new \/ nd.new[c] # NULL
                   THEN [told EXCEPT !.new[c] = new, !.changed = TRUE] ELSE told

\* The answer each call of run_pmc waits for; run_pmc_events waits for none.
Wanted ==
  CASE pc \in {"init_identity", "init_number"} -> DEFAULT
    [] pc \in {"init_subscribe", "subscribe"} -> SUB
    [] pc \in {"init_port", "reinit"} -> Properties(at, NULL)
    [] pc \in {"init_offset", "offset", "force"} -> TIME
    [] OTHER -> NULL

Calls == {"init_identity", "init_number", "init_subscribe", "init_port", "init_offset",
          "subscribe", "offset", "events", "force", "reinit"}

\* The calls of do_loop that do not wait for an answer.
Hasty == {"subscribe", "offset", "events"}

\* What run_pmc waits for.  Left out: an answer about another port makes it give up and
\* send the request again, where the model goes on to wait for the answer under way;
\* errors, and ports with software time stamps, which end the program.
IsAnswer(m) == Wanted # NULL /\ m.kind = Wanted.kind /\ m.port = Wanted.port

-----------------------------------------------------------------------------
(* reconfigure                                                             *)

Sources(nd) == {c \in Clocks : nd.clock[c] = "SLAVE"}
Unready(nd) == {c \in Clocks : nd.clock[c] = "UNCALIBRATED"}

\* The clock that was taken by default goes back to its own state next time.
DefaultSource(nd) ==
  [nd EXCEPT !.master = 1, !.new[1] = nd.clock[1], !.clock[1] = "SLAVE",
             !.rt = IF rt = "none" THEN @ ELSE "SLAVE"]

\* Mutation: a system clock that was a source becomes a destination as it is.
SteerRt_without_reset(nd) == [nd EXCEPT !.rt = IF rt = "none" THEN @ ELSE "MASTER"]

\* The system clock follows; its servo starts anew if it did not before.
SteerRt(nd) ==
  IF rt = "none" \/ nd.rt = "MASTER" THEN nd
  ELSE [nd EXCEPT !.rt = "MASTER", !.rtServo = "fresh"]

\* The one source there is.
Source(S) == CHOOSE c \in Clocks : c \in S

\* The decision, once every clock has its new state.
Decide(nd) ==
  LET src == Cardinality(Sources(nd) \cup Unready(nd))
      dst == Cardinality(Clocks) - src
  IN CASE dst > 1 /\ Sources(nd) = {} /\ rt # "source" -> DefaultSource(nd)
       [] ~(dst > 1 /\ Sources(nd) = {} /\ rt # "source")
          /\ (src > 1 \/ Unready(nd) # {} \/ (src = 0 /\ rt # "source") \/ (dst = 0 /\ rt = "none")) ->
            [nd EXCEPT !.master = NULL]
       [] src = 0 /\ rt = "source" -> [nd EXCEPT !.master = RT, !.rt = "SLAVE"]
       [] OTHER -> [SteerRt(nd) EXCEPT !.master = Source(Sources(nd))]

\* The clock at hand takes its new state, as it is after clock_reinit.
NewState(nd, c) == [nd EXCEPT !.clock[c] = nd.new[c], !.new[c] = NULL]

\* The next clock, or the decision after the last one.
NextClock(nd, c) ==
  LET d == Before(Clocks, c) IN
  /\ node' = IF d = 0 THEN Decide(nd) ELSE nd
  /\ pc' = IF d = 0 THEN "sync" ELSE "reconfigure"
  /\ at' = d

-----------------------------------------------------------------------------
(* auto_init_ports and do_loop.                                            *)

\* Every clock gets its first state in the first reconfiguration.
FirstStates(nd) ==
  [nd EXCEPT !.new = [n \in PortNums |-> IF n \in Clocks THEN clock_compute_state(nd, n) ELSE NULL],
             !.changed = TRUE]

\* The state in an answer, if there was one.
WithState(nd, m) ==
  IF m = NULL THEN nd ELSE [nd EXCEPT !.port[at] = normalize_state(m.state)]

Goto(where, port, nd) == pc' = where /\ at' = port /\ node' = nd

\* run_pmc returned to its caller with the answer m, or NULL when time was out.
Return(m) ==
  CASE pc = "init_identity" -> Goto(IF m = NULL THEN pc ELSE "init_number", 1, node)
    [] pc = "init_number" -> Goto(IF m = NULL THEN "exit" ELSE "init_subscribe", 1, node)
    [] pc = "init_subscribe" -> Goto(IF m = NULL THEN "exit" ELSE "init_port", 1, node)
    [] pc = "init_port" /\ m = NULL -> Goto("exit", at, node)
    [] pc = "init_port" /\ m # NULL /\ at < NPorts -> Goto(pc, at + 1, WithState(node, m))
    [] pc = "init_port" /\ m # NULL /\ at = NPorts ->
         Goto("init_offset", at, FirstStates(WithState(node, m)))
    [] pc = "init_offset" -> Goto(IF m = NULL THEN "exit" ELSE "sleep", at, node)
    [] pc = "subscribe" -> Goto("offset", at, node)
    [] pc = "offset" -> Goto("events", at, IF m = NULL THEN node ELSE [node EXCEPT !.age = 0])
    [] pc = "events" -> Goto(IF node.changed THEN "force" ELSE "sync", at, node)
    [] pc = "force" /\ m = NULL -> Goto("sleep", at, node)
    [] pc = "force" /\ m # NULL -> Goto("reconfigure", Before(Clocks, NPorts + 1), [node EXCEPT !.changed = FALSE])
    [] pc = "reinit" ->
         LET c == conf.clock[at]
             n == Before(PortsOf(c), at)
         IN IF n # 0 THEN Goto(pc, n, WithState(node, m))
            ELSE NextClock(NewState(WithState(node, m), c), c)

\* run_pmc reads a message that is not the answer.
ReadOther ==
  /\ pc \in Calls /\ toNode # <<>> /\ ~IsAnswer(Head(toNode))
  /\ node' = recv_subscribed(node, Head(toNode))
  /\ toNode' = Tail(toNode)
  /\ UNCHANGED <<conf, real, sub, toPtp, pc, asked, at, woke, changes, late>>

ReadAnswer ==
  /\ pc \in Calls /\ toNode # <<>> /\ IsAnswer(Head(toNode))
  /\ Return(Head(toNode))
  /\ toNode' = Tail(toNode) /\ asked' = FALSE
  /\ UNCHANGED <<conf, real, sub, toPtp, woke, changes, late>>

\* A request is sent only when there is nothing to read.
Ask ==
  /\ pc \in Calls /\ toNode = <<>> /\ ~asked /\ Wanted # NULL
  /\ toPtp' = Append(toPtp, Wanted) /\ asked' = TRUE
  /\ UNCHANGED <<conf, real, sub, toNode, pc, at, node, woke, changes, late>>

\* poll timed out.
GiveUp ==
  /\ pc \in Calls /\ toNode = <<>> /\ (asked \/ Wanted = NULL)
  /\ pc \notin Hasty => late < MaxLate
  /\ late' = IF pc \in Hasty THEN late ELSE late + 1
  /\ Return(NULL)
  /\ asked' = FALSE
  /\ UNCHANGED <<conf, real, sub, toNode, toPtp, woke, changes>>

\* The clocks are gone through, the first one last; ptp4l is asked once more
\* about the ports of a clock that has a new state (clock_reinit).
Reconfigure ==
  /\ pc = "reconfigure"
  /\ IF node.new[at] = NULL THEN NextClock(node, at)
     ELSE Goto("reinit", Before(PortsOf(at), NPorts + 1), node)
  /\ UNCHANGED <<conf, real, sub, toNode, toPtp, asked, woke, changes, late>>

\* update_pmc has something to do only once in a unit of time.
Wake ==
  /\ pc = "sleep"
  /\ toPtp = <<>> \/ late < MaxLate
  /\ late' = IF toPtp = <<>> THEN late ELSE late + 1
  /\ woke' = TRUE
  /\ pc' = IF node.age >= 1 THEN "subscribe" ELSE "events"
  /\ UNCHANGED <<conf, real, sub, toNode, toPtp, asked, at, node, changes>>

\* The clocks that are steered: all that are not sources, but not the master.
update_needed(s) == s \notin {"SLAVE", "UNCALIBRATED", NULL}

Steered ==
  IF node.master = NULL THEN {}
  ELSE {c \in Clocks : update_needed(node.clock[c]) /\ c # node.master}
       \cup (IF rt # "none" /\ update_needed(node.rt) /\ node.master # RT THEN {RT} ELSE {})

\* The others are read and adjusted; a clock that is not steered ages.
Synchronize ==
  /\ pc = "sync" /\ pc' = "sleep"
  /\ node' = [node EXCEPT !.rtServo = IF RT \in Steered THEN "running"
                                      ELSE IF node.rt = "SLAVE" THEN "outdated" ELSE @]
  /\ UNCHANGED <<conf, real, sub, toNode, toPtp, asked, at, woke, changes, late>>

Init ==
  /\ conf \in Configs
  /\ real = conf.start
  /\ sub = 0 /\ toNode = <<>> /\ toPtp = <<>>
  /\ pc = "init_identity" /\ asked = FALSE /\ at = 1
  /\ node = [port |-> [n \in PortNums |-> NULL], clock |-> [n \in PortNums |-> NULL],
             new |-> [n \in PortNums |-> NULL], changed |-> FALSE, master |-> NULL,
             rt |-> NULL, rtServo |-> "fresh", age |-> 1]
  /\ woke = TRUE /\ changes = 0 /\ late = 0

RunPmc == ReadOther \/ ReadAnswer \/ Ask \/ GiveUp

Phc2sysStep == RunPmc \/ Reconfigure \/ Wake \/ Synchronize

Next ==
  \/ \E n \in PortNums, s \in PortStates : Change(n, s)
  \/ Serve
  \/ Tick
  \/ Phc2sysStep

Spec == Init /\ [][Next]_vars

\* Both programs go on running; ptp4l answers what it was asked.
FairSpec == Spec /\ WF_vars(Serve) /\ WF_vars(Phc2sysStep)

-----------------------------------------------------------------------------
(* Properties.                                                             *)

TypeOK ==
  /\ sub \in 0..PMC_SUBSCRIBE_DURATION
  /\ at \in 0..(NPorts + 1)
  /\ node.port \in [PortNums -> Norm \cup {NULL}]
  /\ node.clock \in [PortNums -> Norm \cup {NULL}]
  /\ node.new \in [PortNums -> Norm \cup {NULL}]
  /\ node.master \in PortNums \cup {RT, NULL}

Running == {"subscribe", "offset", "events", "force", "reinit", "sleep", "reconfigure", "sync"}

\* The comment on PMC_SUBSCRIBE_DURATION: the subscription is renewed before it
\* times out, although phc2sys never waits for the answer (update_pmc).
SubscriptionKept == TypeOK /\ (pc \in Running => sub > 0)

\* What phc2sys would choose if it knew the port states as they are.
RealNode ==
  LET known == [node EXCEPT !.port = [n \in PortNums |-> normalize_state(real[n])]]
  IN [node EXCEPT !.clock = [n \in PortNums |-> clock_compute_state(known, conf.clock[n])]]

\* When every notification has been read and acted on, phc2sys takes the time
\* from the right clock, whatever order answers, notifications, time outs and
\* changes of state came in (recv_subscribed, clock_reinit, reconfigure).
UpToDate ==
  pc = "sleep" /\ toNode = <<>> /\ ~node.changed => node.master = Decide(RealNode).master

\* No clock is steered by both programs: when phc2sys knows the port states, it
\* leaves alone every clock one of whose ports follows a master, since ptp4l
\* adjusts that clock (clock_compute_state, reconfigure, do_loop).
OneDiscipline ==
  pc \in {"sync", "sleep"} /\ toNode = <<>> /\ ~node.changed =>
    \A n \in PortNums : real[n] \in {"SLAVE", "UNCALIBRATED"} => conf.clock[n] \notin Steered

\* Once it has read everything, phc2sys steers the right clocks from the right one.
RightClocks == UpToDate /\ OneDiscipline

\* A system clock that was a source is not steered again with what its servo
\* knew before (reconfigure, clock_reinit).
RtServoFresh == pc = "sync" /\ RT \in Steered => node.rtServo # "outdated"

\* Once the ports have settled and ptp4l answers in time, phc2sys follows.
Follows == <>[](pc = "exit" \/ node.master = Decide(RealNode).master)
=============================================================================
