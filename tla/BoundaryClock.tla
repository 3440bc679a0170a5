--------------------------- MODULE BoundaryClock ---------------------------
(***************************************************************************)
(* The ports of an ordinary or boundary clock and the loop that drives     *)
(* them: port.c (bc_event, bc_dispatch, the announce handlers, the timers, *)
(* the faults and the link status) and clock.c (clock_poll and             *)
(* handle_state_decision_event).                                           *)
(*                                                                         *)
(* clock_poll takes one snapshot of the readable descriptors and then      *)
(* visits the ports in list order and each port's descriptors in the order *)
(* of fd.h.  pos is the last slot visited in the current pass, snap the    *)
(* timers that were running at the snapshot: any of them may have expired, *)
(* and its event is handled even when an earlier handler of the same pass  *)
(* disarmed it or reopened the port.                                       *)
(***************************************************************************)
EXTENDS Bmc, FiniteSets

CONSTANTS
  NPorts,          \* the ports are 1..NPorts, in list order
  ClockId,         \* the clock's own identity
  Senders,         \* the identities of the ports of other clocks
  Hears,           \* Hears[p]: the senders on the network of port p
  Announces,       \* the contents an Announce may have
  DefaultDSs,      \* the values management may give the default data set
  InitialDS,       \* its value at start
  LocalPriority,   \* localPriority of the clock (0) and of each port
  DelayMechanism,  \* DelayMechanism[p] \in {"E2E", "P2P", "AUTO"}
  Jbod, MasterOnly, Hybrid,  \* the ports with boundary_clock_jbod, masterOnly, hybrid_e2e
  SlaveOnly,       \* slaveOnly
  Telecom,         \* dataset_comparison is G.8275.x
  SyncRxTimeout,   \* syncReceiptTimeout is not zero
  AsapFaults,      \* the fault types whose reset interval is ASAP
  Faults,          \* the fault types that receiving may detect
  LinkEvents,      \* the link notifications that may arrive
  InitMayFail, SendMayFail, PhcMayFail  \* what the environment may refuse

Ports == 1..NPorts
FaultTypes == {"UNSPECIFIED", "BAD_PEER_NETWORK", "SWITCH_PHC"}
Timers == {"DELAY", "ANNOUNCE", "SYNC_RX", "QUALIFICATION", "MANNO", "SYNC_TX"}

\* What an Announce carries of the grandmaster, and its distance.
AnnounceMsg == [priority1 : Nat, clockClass : Nat, clockAccuracy : Nat,
                variance : Nat, priority2 : Nat, identity : Nat,
                stepsRemoved : Nat]

LinkEvent == [up : BOOLEAN, label : BOOLEAN, ts : {"ok", "modes", "phc"}]

FOREIGN_MASTER_THRESHOLD == 2
MAX_STEPS == 255

ASSUME ConstantsAssumption ==
  /\ NPorts \in Nat \ {0}
  /\ ClockId \in Nat
  /\ Senders \subseteq PortIdentity
  /\ \A s \in Senders : s.id # ClockId
  /\ Hears \in [Ports -> SUBSET Senders]
  /\ Announces \subseteq AnnounceMsg
  /\ DefaultDSs \subseteq GmAttributes
  /\ \A d \in DefaultDSs : d.identity = ClockId
  /\ InitialDS \in DefaultDSs
  /\ LocalPriority \in [0..NPorts -> Nat]
  /\ DelayMechanism \in [Ports -> {"E2E", "P2P", "AUTO"}]
  /\ Jbod \subseteq Ports /\ MasterOnly \subseteq Ports /\ Hybrid \subseteq Ports
  /\ {SlaveOnly, Telecom, SyncRxTimeout} \subseteq BOOLEAN
  /\ {InitMayFail, SendMayFail, PhcMayFail} \subseteq BOOLEAN
  /\ AsapFaults \subseteq {"UNSPECIFIED", "BAD_PEER_NETWORK"}
  /\ Faults \subseteq {"UNSPECIFIED", "BAD_PEER_NETWORK"}
  /\ LinkEvents \subseteq LinkEvent

VARIABLES
  port,   \* port[p]: the record of port p
  clk,    \* the clock: best, best_id, parent and what it announces
  dds,    \* the default data set's attributes
  sde,    \* c->sde: a state decision is due at the end of the pass
  pos,    \* the last slot visited in this pass of clock_poll
  snap    \* snap[p]: the timers of p running at this pass's snapshot

vars == <<port, clk, dds, sde, pos, snap>>

Success(mayFail) == IF mayFail THEN BOOLEAN ELSE {TRUE}

-----------------------------------------------------------------------------
(* The order of the descriptors in a pass (fd.h).                          *)

Fd(f) == CASE f = "EVENT" -> 0      [] f = "GENERAL" -> 1
           [] f = "DELAY" -> 2      [] f = "ANNOUNCE" -> 3
           [] f = "SYNC_RX" -> 4    [] f = "QUALIFICATION" -> 5
           [] f = "MANNO" -> 6      [] f = "SYNC_TX" -> 7
           [] f = "RTNL" -> 8       [] f = "FAULT" -> 9

Slot(p, f) == 10 * p + Fd(f)
UdsSlot == 10 * (NPorts + 1)

-----------------------------------------------------------------------------
(* The state of a port.                                                    *)

Messages == {ms \in Seq(Announces) : Len(ms) <= FOREIGN_MASTER_THRESHOLD + 1}

NoMessages == [s \in Senders |-> <<>>]

\* The port record: state, running timers, foreign masters in list order, the
\* announce messages kept of each (newest first), the best of them, the delay
\* mechanism, the link status word, the fault timer, the last fault's type and
\* whether the rtnetlink socket is open.
PortRecord ==
  [state : States, armed : SUBSET Timers, fms : Seq(Senders),
   msgs : [Senders -> Messages], best : Senders \cup {NULL},
   dm : {"E2E", "P2P", "AUTO"},
   link : [up : BOOLEAN, changed : BOOLEAN, label : BOOLEAN],
   faultTimer : BOOLEAN, lastFault : FaultTypes, rtnl : BOOLEAN]

SeqRange(q) == {q[i] : i \in 1..Len(q)}

-----------------------------------------------------------------------------
(* Opening, closing and moving a port.                                     *)

port_disable(r) ==
  [r EXCEPT !.best = NULL, !.fms = <<>>, !.msgs = NoMessages, !.armed = {}]

port_initialize(r, ok) ==
  IF ok THEN [r EXCEPT !.lastFault = "UNSPECIFIED", !.armed = {"ANNOUNCE"},
                       !.rtnl = TRUE]
        ELSE [r EXCEPT !.lastFault = "UNSPECIFIED"]

state_machine(s, e, mdiff) ==
  IF SlaveOnly THEN ptp_slave_fsm(s, e, mdiff) ELSE ptp_fsm(s, e, mdiff)

\* The state after the immediate clearing of a fault whose interval is ASAP.
AsapCleared(r, next) ==
  IF next = "FAULTY" /\ r.lastFault \in AsapFaults
  THEN state_machine(next, "FAULT_CLEARED", FALSE)
  ELSE next

\* "Since we initialize the port immediately, we can skip right to listening
\* state if all goes well."
Initialized(r, ok) ==
  [port_initialize(IF r.state \in Enabled THEN port_disable(r) ELSE r, ok) EXCEPT
     !.state = state_machine("INITIALIZING",
                             IF ok THEN "INIT_COMPLETE" ELSE "FAULT_DETECTED", FALSE)]

EnterState(r, next, initOk) ==
  IF next = "INITIALIZING" THEN Initialized(r, initOk) ELSE [r EXCEPT !.state = next]

port_state_update(r, e, mdiff, initOk) ==
  EnterState(r, AsapCleared(r, state_machine(r.state, e, mdiff)), initOk)

\* Mutation: PRE_MASTER starts no timer.
Started_without_qualification(s, dm) ==
  CASE s = "LISTENING" -> IF dm = "P2P" THEN {"ANNOUNCE", "DELAY"} ELSE {"ANNOUNCE"}
    [] s \in Mastering -> {"MANNO", "SYNC_TX"}
    [] s = "PASSIVE" -> {"ANNOUNCE"}
    [] s \in Slaving -> IF dm = "P2P" THEN {"ANNOUNCE"} ELSE {"ANNOUNCE", "DELAY"}
    [] OTHER -> {}

\* Mutation: an end to end port that follows a master starts no delay timer.
Started_without_delay(s, dm) ==
  CASE s = "LISTENING" -> IF dm = "P2P" THEN {"ANNOUNCE", "DELAY"} ELSE {"ANNOUNCE"}
    [] s = "PRE_MASTER" -> {"QUALIFICATION"}
    [] s \in Mastering -> {"MANNO", "SYNC_TX"}
    [] s \in {"PASSIVE"} \cup Slaving -> {"ANNOUNCE"}
    [] OTHER -> {}

\* The timers a transition into state s starts.
Started(s, dm) ==
  CASE s = "LISTENING" -> IF dm = "P2P" THEN {"ANNOUNCE", "DELAY"} ELSE {"ANNOUNCE"}
    [] s = "PRE_MASTER" -> {"QUALIFICATION"}
    [] s \in Mastering -> {"MANNO", "SYNC_TX"}
    [] s = "PASSIVE" -> {"ANNOUNCE"}
    [] s \in Slaving -> IF dm = "P2P" THEN {"ANNOUNCE"} ELSE {"ANNOUNCE", "DELAY"}
    [] OTHER -> {}

\* Mutation: a peer to peer port stops DELAY too.
port_transition_stopping_delay(r) ==
  IF r.state \in {"FAULTY", "DISABLED"} THEN port_disable(r)
  ELSE [r EXCEPT !.armed = Started(r.state, r.dm)]

\* port_e2e_transition stops every timer, port_p2p_transition all but DELAY.
port_transition(r) ==
  IF r.state \in {"FAULTY", "DISABLED"} THEN port_disable(r)
  ELSE [r EXCEPT !.armed = Started(r.state, r.dm)
                           \cup (IF r.dm = "P2P" THEN r.armed \cap {"DELAY"} ELSE {})]

\* The transition follows only when the state changed.
Transitioned(old, r) == IF r.state = old THEN r ELSE port_transition(r)

MovePort(r, e, mdiff, initOk) ==
  Transitioned(r.state, port_state_update(r, e, mdiff, initOk))

\* A jbod port that turned UNCALIBRATED makes the clock switch to its PHC; a
\* refusal faults the port at once.
SwitchPhc(p, old, r, initOk, phcOk) ==
  IF p \in Jbod /\ r.state = "UNCALIBRATED" /\ r.state # old /\ ~phcOk
  THEN MovePort([r EXCEPT !.lastFault = "SWITCH_PHC"], "FAULT_DETECTED", FALSE, initOk)
  ELSE r

bc_dispatch(p, r, e, mdiff, initOk, phcOk) ==
  SwitchPhc(p, r.state, MovePort(r, e, mdiff, initOk), initOk, phcOk)

-----------------------------------------------------------------------------
(* Foreign masters.                                                        *)

\* Mutation: one message too many is kept.
Kept_one_more(ms) ==
  {SubSeq(ms, 1, k) : k \in {j \in 0..(FOREIGN_MASTER_THRESHOLD + 1) : j <= Len(ms)}}

\* fc_prune keeps at most FOREIGN_MASTER_THRESHOLD messages and drops the
\* oldest ones that have expired: some prefix of the list is left.
Kept(ms) == {SubSeq(ms, 1, k) : k \in {j \in 0..FOREIGN_MASTER_THRESHOLD : j <= Len(ms)}}

\* announce_compare: the newest message differs from the one before.
announce_compare(ms) == Len(ms) > 1 /\ ms[1] # ms[2]

\* The port after the message a of sender s, ms being what fc_prune leaves of
\* the earlier ones, and whether a state decision is due.
add_foreign_master(r, s, a, ms) ==
  IF s \notin SeqRange(r.fms)
  THEN [rec |-> [r EXCEPT !.fms = <<s>> \o r.fms], changed |-> FALSE]
  ELSE [rec |-> [r EXCEPT !.msgs[s] = <<a>> \o ms],
        changed |-> \/ Len(ms) = FOREIGN_MASTER_THRESHOLD - 1
                    \/ announce_compare(<<a>> \o ms)]

update_current_master(r, s, a, ms) ==
  IF s # r.best THEN add_foreign_master(r, s, a, ms)
  ELSE [rec |-> [r EXCEPT !.msgs[s] = <<a>> \o ms,
                          !.armed = r.armed \cup {"ANNOUNCE"}],
        changed |-> announce_compare(<<a>> \o ms)]

\* Mutation: 255 steps are accepted.
process_announce_one_step_more(r, s, a, ms) ==
  CASE a.stepsRemoved > MAX_STEPS -> [rec |-> r, changed |-> FALSE]
    [] a.stepsRemoved <= MAX_STEPS /\ r.state \in {"LISTENING", "PRE_MASTER"} \cup Mastering ->
         add_foreign_master(r, s, a, ms)
    [] a.stepsRemoved <= MAX_STEPS /\ r.state \in {"PASSIVE"} \cup Slaving ->
         update_current_master(r, s, a, ms)
    [] OTHER -> [rec |-> r, changed |-> FALSE]

process_announce(r, s, a, ms) ==
  CASE a.stepsRemoved >= MAX_STEPS -> [rec |-> r, changed |-> FALSE]
    [] a.stepsRemoved < MAX_STEPS /\ r.state \in {"LISTENING", "PRE_MASTER"} \cup Mastering ->
         add_foreign_master(r, s, a, ms)
    [] a.stepsRemoved < MAX_STEPS /\ r.state \in {"PASSIVE"} \cup Slaving ->
         update_current_master(r, s, a, ms)
    [] OTHER -> [rec |-> r, changed |-> FALSE]

\* fc_clear(p->best), when there is a best.
ClearBest(r) == IF r.best = NULL THEN r ELSE [r EXCEPT !.msgs[r.best] = <<>>]

-----------------------------------------------------------------------------
(* One descriptor of one port in clock_poll.                               *)

\* clock_fault_timeout(p, 1); an ASAP interval sets the timer to zero, which
\* stops it.
SetFaultTimer(r) == [r EXCEPT !.faultTimer = r.lastFault \notin AsapFaults]

\* Mutation: a receipt timeout asks for no state decision.
Handled_without_decision(p, f, r, e, due) ==
  \E initOk \in Success(InitMayFail), phcOk \in Success(PhcMayFail) :
    \E d \in {bc_dispatch(p, r, e, FALSE, initOk, phcOk)} :
       /\ port' = [port EXCEPT ![p] = IF d.state = "FAULTY" THEN SetFaultTimer(d) ELSE d]
       /\ pos' = Slot(p, IF d.state = "FAULTY" THEN "RTNL" ELSE f)
       /\ sde' = (sde \/ due \/ e = "STATE_DECISION_EVENT")
       /\ UNCHANGED <<clk, dds, snap>>

\* The handler of descriptor f left the port as r and returned event e: note
\* the decision e asks for, dispatch e, and leave the port's other descriptors
\* alone if the port is now faulty.
Handled(p, f, r, e, due) ==
  \E initOk \in Success(InitMayFail), phcOk \in Success(PhcMayFail) :
    \E d \in {bc_dispatch(p, r, e, FALSE, initOk, phcOk)} :
       /\ port' = [port EXCEPT ![p] = IF d.state = "FAULTY" THEN SetFaultTimer(d) ELSE d]
       /\ pos' = Slot(p, IF d.state = "FAULTY" THEN "RTNL" ELSE f)
       /\ sde' = (\/ sde \/ due
                  \/ e \in {"STATE_DECISION_EVENT", "ANNOUNCE_RECEIPT_TIMEOUT_EXPIRES"})
       /\ UNCHANGED <<clk, dds, snap>>

\* Descriptor f of p is still to be visited in this pass.
Visit(p, f) == pos < Slot(p, f)

\* A message can be read: the port's sockets are open.
Receive(p, f) == Visit(p, f) /\ port[p].state \in Enabled

\* Timer t of p had expired when the pass began.
Expired(p, t) == Visit(p, t) /\ t \in snap[p] /\ port[p].state \in Enabled

RecvAnnounce(p, s, a) ==
  /\ Receive(p, "GENERAL")
  /\ s \in Hears[p]
  /\ \E ms \in Kept(port[p].msgs[s]) :
     \E h \in {process_announce(port[p], s, a, ms)} :
          Handled(p, "GENERAL", h.rec,
                  IF h.changed THEN "STATE_DECISION_EVENT" ELSE "NONE", FALSE)

\* A Sync, or a Sync and its Follow_Up, of the parent gives the servo a new
\* offset; the port itself dispatches the servo's answer e.
Synchronize(p, f, e) ==
  /\ Receive(p, f)
  /\ port[p].state \in Slaving
  /\ clk.parent \in Hears[p]
  /\ \E initOk \in Success(InitMayFail), phcOk \in Success(PhcMayFail) :
       LET r == [port[p] EXCEPT !.armed = IF SyncRxTimeout
                                          THEN @ \cup {"SYNC_RX"} ELSE @ \ {"SYNC_RX"}]
       IN Handled(p, f, bc_dispatch(p, r, e, FALSE, initOk, phcOk), "NONE", FALSE)

\* A failed receive, a failed answer or a bad peer response faults the port.
RecvFault(p, f, ft) ==
  /\ Receive(p, f)
  /\ ft = "BAD_PEER_NETWORK" => f = "EVENT" /\ port[p].dm = "P2P"
  /\ Handled(p, f, IF ft = "UNSPECIFIED" THEN port[p]
                   ELSE [port[p] EXCEPT !.lastFault = ft], "FAULT_DETECTED", FALSE)

\* The first Pdelay_Req settles the delay mechanism of an AUTO port.
RecvPdelayReq(p, sent) ==
  /\ Receive(p, "EVENT")
  /\ port[p].dm = "AUTO"
  /\ Handled(p, "EVENT", [port[p] EXCEPT !.dm = "P2P", !.armed = @ \cup {"DELAY"}],
             IF sent THEN "NONE" ELSE "FAULT_DETECTED", FALSE)

DelayTimer(p, sent) ==
  /\ Expired(p, "DELAY")
  /\ Handled(p, "DELAY", [port[p] EXCEPT !.armed = @ \cup {"DELAY"}],
             IF sent THEN "NONE" ELSE "FAULT_DETECTED", FALSE)

\* The announce or the sync receipt timeout; a slave only clock also renews
\* the transport.
ReceiptTimer(p, t, renewed) ==
  /\ Expired(p, t)
  /\ LET renew == SlaveOnly /\ port[p].dm # "P2P"
         r == [ClearBest(port[p]) EXCEPT !.armed = @ \cup {"ANNOUNCE"}]
     IN Handled(p, t, r, IF renew /\ ~renewed THEN "FAULT_DETECTED"
                         ELSE "ANNOUNCE_RECEIPT_TIMEOUT_EXPIRES", FALSE)

QualificationTimer(p) ==
  /\ Expired(p, "QUALIFICATION")
  /\ Handled(p, "QUALIFICATION", port[p], "QUALIFICATION_TIMEOUT_EXPIRES", FALSE)

\* Announce or Sync of a master; the timer is set again first.
TransmitTimer(p, t, sent) ==
  /\ Expired(p, t)
  /\ Handled(p, t, [port[p] EXCEPT !.armed = @ \cup {t}],
             IF sent THEN "NONE" ELSE "FAULT_DETECTED", FALSE)

-----------------------------------------------------------------------------
(* Link notifications and the fault timer.                                 *)

\* The link status word after notification n, and whether the PHC behind a
\* link that came up or moved to another device refused the clock.
port_link_status(l, n) ==
  LET l1 == [up |-> n.up, changed |-> l.up # n.up, label |-> n.label]
      probe == n.up /\ (l1.changed \/ l1.label)
  IN IF probe /\ n.ts = "modes"
     THEN [link |-> [up |-> FALSE, changed |-> TRUE, label |-> FALSE], phc |-> TRUE]
     ELSE [link |-> l1, phc |-> ~(probe /\ n.ts = "phc")]

\* The event bc_event returns for the link status word l.
LinkStatusEvent(l) ==
  CASE l.up /\ l.changed /\ ~l.label -> "FAULT_CLEARED"
    [] l.label \/ (~l.up /\ l.changed) -> "FAULT_DETECTED"
    [] OTHER -> "NONE"

LinkNotification(p, n) ==
  /\ Visit(p, "RTNL") /\ port[p].rtnl
  /\ \E initOk \in Success(InitMayFail) :
     \E h \in {port_link_status(port[p].link, n)} :
     \E r \in {[port[p] EXCEPT !.link = h.link]} :
       Handled(p, "RTNL",
               IF h.phc THEN r
               ELSE bc_dispatch(p, [r EXCEPT !.lastFault = "SWITCH_PHC"],
                                "FAULT_DETECTED", FALSE, initOk, TRUE),
               LinkStatusEvent(h.link), ~h.link.up)

\* The notification is about another interface: the callback is not called
\* and the event is that of the status word the last one left.
OtherLinkNotification(p) ==
  /\ Visit(p, "RTNL") /\ port[p].rtnl
  /\ Handled(p, "RTNL", port[p], LinkStatusEvent(port[p].link), FALSE)

FaultTimer(p) ==
  /\ Visit(p, "FAULT") /\ "FAULT" \in snap[p]
  /\ \E initOk \in Success(InitMayFail) :
       LET r == [port[p] EXCEPT !.faultTimer = FALSE]
       IN port' = [port EXCEPT ![p] =
                     IF r.link.up THEN bc_dispatch(p, r, "FAULT_CLEARED", FALSE, initOk, TRUE)
                     ELSE r]
  /\ pos' = Slot(p, "FAULT")
  /\ UNCHANGED <<clk, dds, sde, snap>>

-----------------------------------------------------------------------------
(* The UDS port: management may change the default data set.               *)

Manage(d) ==
  /\ pos < UdsSlot
  /\ dds' = d
  /\ sde' = TRUE
  /\ pos' = UdsSlot
  /\ UNCHANGED <<port, clk, snap>>

-----------------------------------------------------------------------------
(* handle_state_decision_event.                                            *)

\* announce_to_dataset
announce_to_dataset(a, p, s) ==
  [priority1 |-> a.priority1, clockClass |-> a.clockClass,
   clockAccuracy |-> a.clockAccuracy, variance |-> a.variance,
   priority2 |-> a.priority2, identity |-> a.identity,
   localPriority |-> LocalPriority[p], stepsRemoved |-> a.stepsRemoved,
   sender |-> s, receiver |-> [id |-> ClockId, lo |-> p % 256, hi |-> p \div 256]]

OwnPid == [id |-> ClockId, lo |-> 0, hi |-> 0]

clock_default_ds ==
  [priority1 |-> dds.priority1, clockClass |-> dds.clockClass,
   clockAccuracy |-> dds.clockAccuracy, variance |-> dds.variance,
   priority2 |-> dds.priority2, identity |-> dds.identity,
   localPriority |-> LocalPriority[0], stepsRemoved |-> 0,
   sender |-> OwnPid, receiver |-> OwnPid]

\* What fc_prune leaves of each sender's messages in port r, k[s] of them.
Pruned(r, k) == [s \in Senders |-> SubSeq(r.msgs[s], 1, k[s])]

\* The numbers of messages fc_prune may leave on each port.
PruneChoices ==
  [Ports -> [Senders -> 0..FOREIGN_MASTER_THRESHOLD]]

\* The senders qualified by FOREIGN_MASTER_THRESHOLD messages.
Qualified(r, m) == {s \in SeqRange(r.fms) : Len(m[s]) >= FOREIGN_MASTER_THRESHOLD}

\* Each foreign master's data set in list order, NULL where it is skipped.
ForeignDatasets(p, r, m) ==
  [i \in 1..Len(r.fms) |-> LET s == r.fms[i]
                           IN IF s \in Qualified(r, m)
                              THEN announce_to_dataset(m[s][1], p, s) ELSE NULL]

\* The sender the loop ended with, best[i] being the index it held after i.
FinalBest(r, m, best) ==
  IF \E i \in 1..Len(r.fms) : i = best[Len(r.fms)] /\ r.fms[i] \in Qualified(r, m)
  THEN r.fms[best[Len(r.fms)]] ELSE NULL

\* The senders that were qualified and failed to beat the best so far.
Beaten(r, m, best) ==
  {r.fms[i] : i \in {j \in 1..Len(r.fms) : r.fms[j] \in Qualified(r, m) /\ best[j] # j}}

Selected(r, m, best) ==
  [r EXCEPT !.best = FinalBest(r, m, best),
            !.msgs = [s \in Senders |->
                        IF s \in Beaten(r, m, best) \ {FinalBest(r, m, best)}
                        THEN <<>> ELSE m[s]]]

\* port_compute_best, m being what fc_prune left: the loop ends with the best
\* qualified foreign master, and each one that failed to beat the best so far
\* has lost its messages.
port_compute_best(p, r, m) ==
  IF p \in MasterOnly THEN [r EXCEPT !.best = NULL]
  ELSE Selected(r, m, BestUpTo(Telecom, ForeignDatasets(p, r, m)))

port_best_foreign(p, r) ==
  IF r.best = NULL THEN NULL ELSE announce_to_dataset(r.msgs[r.best][1], p, r.best)

\* The port whose best foreign master is the clock's best, NULL if none is.
ClockBest(q) ==
  LET last == BestUpTo(Telecom, [p \in Ports |-> port_best_foreign(p, q[p])])[NPorts]
  IN IF \E p \in Ports : p = last /\ q[p].best # NULL THEN last ELSE NULL

\* Mutation: every port is taken for the one that has the best master.
DecisionEvent_any_port(p, q, cb) ==
  LET role == bmc_state_decision(Telecom, clock_default_ds,
                IF cb = NULL THEN NULL ELSE port_best_foreign(cb, q[cb]),
                port_best_foreign(p, q[p]), TRUE, q[p].state)
  IN CASE role = "LISTENING" -> "NONE"
       [] role = "GRAND_MASTER" -> "RS_GRAND_MASTER"
       [] role = "MASTER" -> "RS_MASTER"
       [] role = "PASSIVE" -> "RS_PASSIVE"
       [] role = "SLAVE" -> "RS_SLAVE"

\* The event for the role bmc_state_decision recommends to port p.
DecisionEvent(p, q, cb) ==
  LET role == bmc_state_decision(Telecom, clock_default_ds,
                IF cb = NULL THEN NULL ELSE port_best_foreign(cb, q[cb]),
                port_best_foreign(p, q[p]), p = cb, q[p].state)
  IN CASE role = "LISTENING" -> "NONE"
       [] role = "GRAND_MASTER" -> "RS_GRAND_MASTER"
       [] role = "MASTER" -> "RS_MASTER"
       [] role = "PASSIVE" -> "RS_PASSIVE"
       [] role = "SLAVE" -> "RS_SLAVE"

\* The decisions for port p after the best foreign master was freed by a PHC
\* switch that failed earlier in the loop: c->best dangles and a comparison
\* with it may come out either way.
DanglingEvents(p, q) ==
  IF q[p].best = NULL
  THEN IF q[p].state = "LISTENING" THEN {"NONE"} ELSE {"RS_GRAND_MASTER", "RS_MASTER"}
  ELSE {"RS_GRAND_MASTER", "RS_MASTER", "RS_PASSIVE"}

\* clock_update_grandmaster and clock_update_slave, as the record clk.  What
\* the clock announces is the grandmaster's attributes and its own distance.
clock_update_grandmaster(c) == [c EXCEPT !.parent = OwnPid, !.announced =
  [priority1 |-> dds.priority1, clockClass |-> dds.clockClass,
   clockAccuracy |-> dds.clockAccuracy, variance |-> dds.variance,
   priority2 |-> dds.priority2, identity |-> dds.identity, stepsRemoved |-> 0]]

\* Mutation: the parent is not recorded.
clock_update_slave_without_parent(c, r) == [c EXCEPT !.announced =
  [r.msgs[r.best][1] EXCEPT !.stepsRemoved = @ + 1]]

clock_update_slave(c, r) == [c EXCEPT !.parent = r.best, !.announced =
  [r.msgs[r.best][1] EXCEPT !.stepsRemoved = @ + 1]]

\* The roles are exclusive unless c->best dangles; then the later one wins.
UpdatedClock(c, rec, q) ==
  IF \E p \in Ports : rec[p] = "RS_GRAND_MASTER" THEN clock_update_grandmaster(c)
  ELSE IF \E p \in Ports : rec[p] = "RS_SLAVE" THEN clock_update_slave(c, q[c.best])
  ELSE c

RsEvents == {"NONE", "RS_GRAND_MASTER", "RS_MASTER", "RS_PASSIVE", "RS_SLAVE"}

\* The recommendations for ports up to cb are the decided ones; c->best may
\* dangle only for the later ones.
Recommendations(decided, cb) ==
  {rec \in [Ports -> RsEvents] :
     \A p \in Ports : cb \in 1..(p - 1) \/ rec[p] = decided[p]}

\* The ports are dispatched in list order, to become d; the recommendations rec
\* differ from the decided ones only where c->best dangles.
TakeDecision(q, cb, id, decided, rec, d) ==
  /\ \A p \in Ports : IF cb \in 1..(p - 1) /\ d[cb].best = NULL
                      THEN rec[p] \in DanglingEvents(p, q)
                      ELSE rec[p] = decided[p]
  /\ port' = d
  /\ clk' = UpdatedClock([clk EXCEPT !.best = cb, !.bestId = id], rec, q)

\* The recommendations for the ports q, port cb having the clock's best.
Decide(q, cb, initOk, phcOk) ==
  \E id \in {IF cb = NULL THEN ClockId ELSE port_best_foreign(cb, q[cb]).identity} :
  \E decided \in {[p \in Ports |-> DecisionEvent(p, q, cb)]} :
  \E rec \in Recommendations(decided, cb) :
  \E d \in {[p \in Ports |-> bc_dispatch(p, q[p], rec[p], id # clk.bestId,
                                         initOk[p], phcOk[p])]} :
    TakeDecision(q, cb, id, decided, rec, d)

\* The whole of handle_state_decision_event: the best foreign master of each
\* port, the best of these, and what follows from it for each port.
handle_state_decision_event ==
  \E k \in PruneChoices,
     initOk \in [Ports -> Success(InitMayFail)], phcOk \in [Ports -> Success(PhcMayFail)] :
    /\ \A p \in Ports, s \in Senders : k[p][s] <= Len(port[p].msgs[s])
    /\ \E q \in {[p \in Ports |-> port_compute_best(p, port[p], Pruned(port[p], k[p]))]} :
       \E cb \in {ClockBest(q)} : Decide(q, cb, initOk, phcOk)

\* The end of a pass of clock_poll and the snapshot of the next one.
EndPass ==
  /\ pos' = 0
  /\ sde' = FALSE
  /\ IF sde THEN handle_state_decision_event
     ELSE port' = port /\ clk' = clk
  /\ snap' = [p \in Ports |-> port'[p].armed
                 \cup (IF port'[p].faultTimer THEN {"FAULT"} ELSE {})]
  /\ dds' = dds

-----------------------------------------------------------------------------
(* clock_create: every port is opened and initialised.                     *)

port_open(p) ==
  [state |-> "INITIALIZING", armed |-> {}, fms |-> <<>>, msgs |-> NoMessages,
   best |-> NULL, dm |-> DelayMechanism[p],
   link |-> [up |-> TRUE, changed |-> FALSE, label |-> FALSE],
   faultTimer |-> FALSE, lastFault |-> "UNSPECIFIED", rtnl |-> FALSE]

Init ==
  /\ dds = InitialDS
  /\ \E initOk \in [Ports -> Success(InitMayFail)] :
       port = [p \in Ports |->
                 bc_dispatch(p, port_open(p), "INITIALIZE", FALSE, initOk[p], TRUE)]
  /\ clk = clock_update_grandmaster(
              [best |-> NULL, bestId |-> NULL, parent |-> NULL, announced |-> NULL])
  /\ sde = FALSE
  /\ pos = 0
  /\ snap = [p \in Ports |-> port[p].armed]

PortNext(p) ==
  \/ \E s \in Hears[p], a \in Announces : RecvAnnounce(p, s, a)
  \/ \E f \in {"EVENT", "GENERAL"} :
       \/ \E e \in {"SYNCHRONIZATION_FAULT", "MASTER_CLOCK_SELECTED"} : Synchronize(p, f, e)
       \/ \E ft \in Faults : RecvFault(p, f, ft)
  \/ \E sent \in Success(SendMayFail) :
       \/ RecvPdelayReq(p, sent)
       \/ DelayTimer(p, sent)
       \/ \E t \in {"MANNO", "SYNC_TX"} : TransmitTimer(p, t, sent)
  \/ \E t \in {"ANNOUNCE", "SYNC_RX"}, renewed \in Success(InitMayFail) :
       ReceiptTimer(p, t, renewed)
  \/ QualificationTimer(p)
  \/ \E n \in LinkEvents : LinkNotification(p, n)
  \/ OtherLinkNotification(p)
  \/ FaultTimer(p)

Next == \/ \E p \in Ports : PortNext(p)
        \/ \E d \in DefaultDSs : Manage(d)
        \/ EndPass

Spec == Init /\ [][Next]_vars

\* A pass always ends, and a timer that runs again and again is one day found
\* expired.  A timerfd is readable from its expiry on, and in the states these
\* timers lead out of only two things set them back: the timers' own handlers
\* and, for the fault timer, a link notification.  Notifications are assumed to
\* pause once for longer than the reset interval.
Fairness ==
  /\ WF_vars(EndPass)
  /\ \A p \in Ports :
       /\ SF_vars(\E renewed \in Success(InitMayFail) : ReceiptTimer(p, "ANNOUNCE", renewed))
       /\ SF_vars(QualificationTimer(p))
       /\ SF_vars(FaultTimer(p))

FairSpec == Spec /\ Fairness
-----------------------------------------------------------------------------
(* Properties.                                                             *)

ClockRecord == [best : Ports \cup {NULL}, bestId : Nat \cup {NULL},
                parent : Senders \cup {OwnPid}, announced : AnnounceMsg]

TypeOK ==
  /\ port \in [Ports -> PortRecord]
  /\ clk \in ClockRecord
  /\ dds \in DefaultDSs
  /\ sde \in BOOLEAN
  /\ pos \in 0..UdsSlot
  /\ snap \in [Ports -> SUBSET (Timers \cup {"FAULT"})]

\* At most one port of the clock follows a master, whatever the interleaving
\* of announcements, timeouts, faults and decisions (handle_state_decision_event).
OneSlave ==
  \A p, q \in Ports : port[p].state \in Slaving /\ port[q].state \in Slaving => p = q

\* process_sync and process_follow_up accept the messages of the clock's
\* parent: a port that follows a master follows the one it selected, and it
\* is the port the clock took for its best.
FollowsParent ==
  \A p \in Ports : port[p].state \in Slaving =>
    clk.best = p /\ port[p].best # NULL /\ clk.parent = port[p].best

\* update_current_master reads p->best without a check: a port in a state
\* that takes this path has one, and it is in the port's list.
CurrentMasterExists ==
  \A p \in Ports : port[p].state \in Slaving \cup {"PASSIVE"} =>
    port[p].best \in SeqRange(port[p].fms)

\* The timers that take a port out of its state or make it speak.
WakesUp(r) ==
  /\ r.state \in {"LISTENING", "PASSIVE"} \cup Slaving => "ANNOUNCE" \in r.armed
  /\ r.state = "PRE_MASTER" => "QUALIFICATION" \in r.armed
  /\ r.state \in Mastering => {"MANNO", "SYNC_TX"} \subseteq r.armed
  /\ r.state \in Slaving => "DELAY" \in r.armed \/ r.dm = "P2P"

\* Each state has its timers running (port_e2e_transition, port_p2p_transition):
\* no port is left without a wake-up, even by an event of a timer that was
\* stopped, or of a port that was reopened, in the same pass.
TimersRun == \A p \in Ports : WakesUp(port[p])

\* Only a master sends Announce and Sync: their timers run in no other state,
\* which TransmitTimer does not check.
OnlyMastersTransmit ==
  \A p \in Ports : port[p].armed \cap {"MANNO", "SYNC_TX"} # {} => port[p].state \in Mastering

\* "Leave FD_DELAY_TIMER running": a peer to peer port measures its link in
\* every state in which it is enabled.
PeerDelayRuns ==
  \A p \in Ports : port[p].dm = "P2P" /\ port[p].state \in Enabled => "DELAY" \in port[p].armed

\* A port that masters, or is about to, is not the one the clock synchronises
\* through, once the pass's decision is taken: the clock does not announce a
\* grandmaster back to the network it heard it from.
NoEcho ==
  \A p \in Ports :
    port[p].state \in Mastering \cup {"PRE_MASTER"} /\ clk.best = p /\ ~sde
      => clk.parent = OwnPid

\* process_announce drops what is 255 steps away or more, so the distance the
\* clock announces fits the protocol's limit.
AnnouncedDistance == clk.announced.stepsRemoved <= MAX_STEPS

\* port_delay_request of a hybrid port sends to the address of the best
\* master's newest message: when the event of the delay timer is handled the
\* message is there, although the announce timer may expire in the same pass.
HybridDestination ==
  \A p \in Hybrid :
    Expired(p, "DELAY") /\ port[p].dm # "P2P" =>
      port[p].best # NULL /\ port[p].msgs[port[p].best] # <<>>

\* A clock of class 1 to 127 never follows another (bmc_state_decision), even
\* when management gives it this class while a port is synchronised.
PrimaryNeverFollows ==
  dds.clockClass <= 127 /\ ~sde => \A p \in Ports : port[p].state \notin Slaving

\* What a port sends and what the clock announces agree with the roles of the ports:
\* only masters transmit, nothing is echoed, a primary reference follows nobody and a
\* hybrid port knows whom it asks, in every interleaving of timers and decisions
\* (handle_state_decision_event, port_e2e_transition, bc_event).
Roles == NoEcho /\ OnlyMastersTransmit /\ PrimaryNeverFollows /\ HybridDestination

\* A port does not listen for ever: at the latest the announce receipt timeout
\* makes it a master.
ListeningEnds ==
  \A p \in Ports : port[p].state = "LISTENING" ~> port[p].state # "LISTENING"

\* A port recommended to be a master does not wait for ever in PRE_MASTER.
QualificationEnds ==
  \A p \in Ports : port[p].state = "PRE_MASTER" ~> port[p].state # "PRE_MASTER"

\* A faulty port is initialised again (clock_poll, clock_fault_timeout), although
\* the notifications of other interfaces set the fault timer back.
FaultEnds ==
  \A p \in Ports : port[p].state = "FAULTY" ~> port[p].state # "FAULTY"

\* No port is stuck in a state that only a timer ends (bc_event, clock_poll).
Progress == ListeningEnds /\ QualificationEnds /\ FaultEnds

=============================================================================
