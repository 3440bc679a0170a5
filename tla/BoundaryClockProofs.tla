------------------------ MODULE BoundaryClockProofs ------------------------
(***************************************************************************)
(* Type correctness of BoundaryClock, the safety of its roles and what     *)
(* the roles of a clock's ports allow, for any number of ports and         *)
(* senders and any announcements: nothing is announced back to where it    *)
(* came from and a primary reference follows nobody, whatever the faults;  *)
(* and where no fault is cleared at once, only masters transmit, a peer to *)
(* peer port always measures and a delay request has a destination.        *)
(***************************************************************************)
EXTENDS BoundaryClock, SequenceTheorems, TLAPS

\* The states in which the port has to have a best foreign master.
Following == Slaving \cup {"PASSIVE"}

\* The states a slave only clock's port never enters.
MasterStates == {"PRE_MASTER", "MASTER", "GRAND_MASTER", "PASSIVE"}

-----------------------------------------------------------------------------
(* The state machines.                                                     *)

\* A state machine of fsm.c answers with a state.
LEMMA FsmType ==
  ASSUME NEW s \in States, NEW e \in Events, NEW m \in BOOLEAN
  PROVE  state_machine(s, e, m) \in States
  BY DEF state_machine, ptp_fsm, ptp_slave_fsm, CommonFsm, States, Events, CommonEvents,
         Enabled, Slaving, SlaveOnlyEnabled

\* Only a recommendation makes a port follow a master or yield to one.
LEMMA FsmFollows ==
  ASSUME NEW s \in States, NEW e \in Events, NEW m \in BOOLEAN
  PROVE  /\ state_machine(s, e, m) \in Slaving => s \in Slaving \/ e = "RS_SLAVE"
         /\ state_machine(s, e, m) = "PASSIVE" => s = "PASSIVE" \/ e = "RS_PASSIVE"
  BY DEF state_machine, ptp_fsm, ptp_slave_fsm, CommonFsm, States, Events, CommonEvents,
         Enabled, Slaving, SlaveOnlyEnabled

\* A recommendation to be a master is obeyed by a port that follows one.
LEMMA FsmYields ==
  ASSUME NEW s \in States, NEW e \in RsEvents, NEW m \in BOOLEAN,
         SlaveOnly => s \notin MasterStates,
         e = "NONE" => s = "LISTENING"
  PROVE  /\ state_machine(s, e, m) \in Slaving => e = "RS_SLAVE"
         /\ state_machine(s, e, m) = "PASSIVE" => e = "RS_PASSIVE"
  BY DEF state_machine, ptp_fsm, ptp_slave_fsm, CommonFsm, States, RsEvents, CommonEvents,
         Enabled, Slaving, SlaveOnlyEnabled, MasterStates

\* The slave only machine does not lead to a master's state.
LEMMA FsmSlaveOnly ==
  ASSUME SlaveOnly, NEW s \in States \ MasterStates, NEW e \in Events, NEW m \in BOOLEAN
  PROVE  state_machine(s, e, m) \notin MasterStates
  BY DEF state_machine, ptp_slave_fsm, CommonFsm, States, Events, CommonEvents,
         Enabled, Slaving, SlaveOnlyEnabled, MasterStates

\* What initialisation and the clearing of faults lead to.
LEMMA FsmInit ==
  ASSUME NEW m \in BOOLEAN
  PROVE  /\ state_machine("FAULTY", "FAULT_CLEARED", m) = "INITIALIZING"
         /\ state_machine("INITIALIZING", "INIT_COMPLETE", m) = "LISTENING"
         /\ state_machine("INITIALIZING", "FAULT_DETECTED", m) = "FAULTY"
         /\ state_machine("UNCALIBRATED", "FAULT_DETECTED", m) = "FAULTY"
  BY DEF state_machine, ptp_fsm, ptp_slave_fsm, CommonFsm, States, CommonEvents,
         Enabled, Slaving, SlaveOnlyEnabled

-----------------------------------------------------------------------------
(* Moving a port.                                                          *)

\* The fields of a port, which determine the record's type.
LEMMA PortFields ==
  ASSUME NEW r \in PortRecord
  PROVE  /\ r.state \in States /\ r.armed \in SUBSET Timers /\ r.fms \in Seq(Senders)
         /\ r.msgs \in [Senders -> Messages] /\ r.best \in Senders \cup {NULL}
         /\ r.dm \in {"E2E", "P2P", "AUTO"} /\ r.lastFault \in FaultTypes
         /\ r.link \in [up : BOOLEAN, changed : BOOLEAN, label : BOOLEAN]
         /\ r.faultTimer \in BOOLEAN /\ r.rtnl \in BOOLEAN
  BY DEF PortRecord

\* No message is a list of messages.
LEMMA NoMessagesType == NoMessages \in [Senders -> Messages]
  BY DEF NoMessages, Messages, FOREIGN_MASTER_THRESHOLD

\* The part of a port that port_state_update and the transitions leave alone
\* unless the port is closed.
SameMasters(d, r) == d.best = r.best /\ d.fms = r.fms /\ d.msgs = r.msgs

\* port_disable and port_initialize keep the record's type.
LEMMA OpenCloseType ==
  ASSUME NEW r \in PortRecord, NEW ok \in BOOLEAN
  PROVE  /\ port_disable(r) \in PortRecord
         /\ port_disable(r).state = r.state
         /\ port_disable(r).msgs = NoMessages
         /\ port_initialize(r, ok) \in PortRecord
         /\ port_initialize(r, ok).state = r.state
         /\ port_initialize(r, ok).msgs = r.msgs
  <1>1. port_disable(r) \in PortRecord /\ port_disable(r).state = r.state
        /\ port_disable(r).msgs = NoMessages
    <2>1. <<>> \in Seq(Senders) /\ {} \in SUBSET Timers
      OBVIOUS
    <2> QED  BY <2>1, NoMessagesType DEF port_disable, PortRecord
  <1>2. port_initialize(r, ok) \in PortRecord /\ port_initialize(r, ok).state = r.state
        /\ port_initialize(r, ok).msgs = r.msgs
    <2>1. CASE ok
      BY <2>1 DEF port_initialize, PortRecord, Timers, FaultTypes
    <2>2. CASE ~ok
      BY <2>2 DEF port_initialize, PortRecord, FaultTypes
    <2> QED  BY <2>1, <2>2
  <1> QED  BY <1>1, <1>2

\* port_state_update: a port that ends up following a master, or passive, went
\* there directly and kept its foreign masters.
LEMMA UpdateFacts ==
  ASSUME NEW r \in PortRecord, NEW e \in Events, NEW m \in BOOLEAN, NEW ok \in BOOLEAN
  PROVE  /\ port_state_update(r, e, m, ok) \in PortRecord
         /\ port_state_update(r, e, m, ok).state \in Following =>
              /\ port_state_update(r, e, m, ok).state = state_machine(r.state, e, m)
              /\ SameMasters(port_state_update(r, e, m, ok), r)
         /\ port_state_update(r, e, m, ok).state
              \in {"LISTENING", "FAULTY", state_machine(r.state, e, m)}
         /\ port_state_update(r, e, m, ok).msgs \in {r.msgs, NoMessages}
  <1> DEFINE next == AsapCleared(r, state_machine(r.state, e, m))
             base == IF r.state \in Enabled THEN port_disable(r) ELSE r
  <1>1. /\ next \in States
        /\ next = state_machine(r.state, e, m) \/ next = "INITIALIZING"
    <2>1. state_machine(r.state, e, m) \in States
      BY PortFields, FsmType
    <2>2. state_machine("FAULTY", "FAULT_CLEARED", FALSE) = "INITIALIZING"
      BY FsmInit
    <2>3. "INITIALIZING" \in States
      BY DEF States
    <2> QED  BY <2>1, <2>2, <2>3 DEF AsapCleared
  <1>2. CASE next = "INITIALIZING"
    <2>1. base \in PortRecord /\ base.msgs \in {r.msgs, NoMessages}
      BY OpenCloseType
    <2>2. port_initialize(base, ok) \in PortRecord
          /\ port_initialize(base, ok).msgs = base.msgs
      BY <2>1, OpenCloseType
    <2>3. /\ Initialized(r, ok) \in PortRecord
          /\ Initialized(r, ok).state \in {"LISTENING", "FAULTY"}
          /\ Initialized(r, ok).msgs \in {r.msgs, NoMessages}
      <3> HIDE DEF base
      <3>1. Initialized(r, ok) = [port_initialize(base, ok) EXCEPT !.state =
              state_machine("INITIALIZING",
                            IF ok THEN "INIT_COMPLETE" ELSE "FAULT_DETECTED", FALSE)]
        BY DEF Initialized, base
      <3>2. state_machine("INITIALIZING", IF ok THEN "INIT_COMPLETE" ELSE "FAULT_DETECTED",
                          FALSE) \in {"LISTENING", "FAULTY"}
        BY FsmInit
      <3> QED  BY <2>1, <2>2, <3>1, <3>2 DEF PortRecord, States
    <2> QED  BY <1>2, <2>3 DEF port_state_update, EnterState, Following, Slaving
  <1>3. CASE next # "INITIALIZING"
    <2>1. port_state_update(r, e, m, ok) = [r EXCEPT !.state = next]
      BY <1>3 DEF port_state_update, EnterState
    <2> HIDE DEF next
    <2>2. [r EXCEPT !.state = next] \in PortRecord
      BY <1>1 DEF PortRecord
    <2>3. [r EXCEPT !.state = next].state = next /\ SameMasters([r EXCEPT !.state = next], r)
      BY DEF PortRecord, SameMasters
    <2> QED  BY <1>1, <1>3, <2>1, <2>2, <2>3 DEF SameMasters
  <1> QED  BY <1>2, <1>3

\* port_e2e_transition and port_p2p_transition: a closed port loses its foreign
\* masters, another one keeps them and has the timers of its new state.
LEMMA TransitionFacts ==
  ASSUME NEW r \in PortRecord
  PROVE  /\ port_transition(r) \in PortRecord
         /\ port_transition(r).state = r.state
         /\ r.state \in Following => SameMasters(port_transition(r), r)
         /\ port_transition(r).msgs \in {r.msgs, NoMessages}
         /\ WakesUp(port_transition(r))
  <1>1. CASE r.state \in {"FAULTY", "DISABLED"}
    <2>1. port_transition(r) = port_disable(r)
      BY <1>1 DEF port_transition
    <2>2. port_disable(r) \in PortRecord /\ port_disable(r).state = r.state
          /\ port_disable(r).msgs = NoMessages
      BY OpenCloseType
    <2> QED  BY <1>1, <2>1, <2>2 DEF Following, Slaving, Mastering, WakesUp
  <1>2. CASE r.state \notin {"FAULTY", "DISABLED"}
    <2> DEFINE new == Started(r.state, r.dm)
                        \cup (IF r.dm = "P2P" THEN r.armed \cap {"DELAY"} ELSE {})
    <2>1. port_transition(r) = [r EXCEPT !.armed = new]
      BY <1>2 DEF port_transition
    <2>2. Started(r.state, r.dm) \in SUBSET Timers
      BY DEF Started, Timers, Slaving, Mastering
    <2>3. new \in SUBSET Timers
      BY <2>2 DEF Timers
    <2>4. WakesUp([r EXCEPT !.armed = Started(r.state, r.dm)])
      BY PortFields DEF WakesUp, Started, Slaving, Mastering, PortRecord
    <2>5. Started(r.state, r.dm) \subseteq new
      OBVIOUS
    <2> HIDE DEF new
    <2>6. [r EXCEPT !.armed = new] \in PortRecord
      BY <2>3 DEF PortRecord
    <2>7. /\ [r EXCEPT !.armed = new].state = r.state
          /\ SameMasters([r EXCEPT !.armed = new], r)
          /\ WakesUp([r EXCEPT !.armed = new])
      BY <2>4, <2>5 DEF PortRecord, SameMasters, WakesUp
    <2> QED  BY <2>1, <2>6, <2>7 DEF SameMasters
  <1> QED  BY <1>1, <1>2

\* port_state_update leaves a port that keeps its state with its timers, or
\* opened again with the announce timer.
LEMMA UpdateTimers ==
  ASSUME NEW r \in PortRecord, NEW e \in Events, NEW m \in BOOLEAN, NEW ok \in BOOLEAN,
         WakesUp(r), port_state_update(r, e, m, ok).state = r.state
  PROVE  WakesUp(port_state_update(r, e, m, ok))
  <1> DEFINE next == AsapCleared(r, state_machine(r.state, e, m))
             base == IF r.state \in Enabled THEN port_disable(r) ELSE r
             s1 == IF ok THEN "INIT_COMPLETE" ELSE "FAULT_DETECTED"
  <1>1. CASE next = "INITIALIZING"
    <2>1. base \in PortRecord
      BY OpenCloseType
    <2> HIDE DEF base, next
    <2>2. port_state_update(r, e, m, ok) = [port_initialize(base, ok) EXCEPT
             !.state = state_machine("INITIALIZING", s1, FALSE)]
      BY <1>1 DEF port_state_update, EnterState, Initialized, base, next
    <2>3. port_initialize(base, ok) \in PortRecord
      BY <2>1, OpenCloseType
    <2>4. CASE ok
      <3>1. "ANNOUNCE" \in port_initialize(base, ok).armed
        BY <2>1, <2>4 DEF port_initialize, PortRecord
      <3>2. state_machine("INITIALIZING", s1, FALSE) = "LISTENING"
        BY <2>4, FsmInit
      <3> QED  BY <2>2, <2>3, <3>1, <3>2 DEF WakesUp, PortRecord, Mastering, Slaving
    <2>5. CASE ~ok
      <3>1. state_machine("INITIALIZING", s1, FALSE) = "FAULTY"
        BY <2>5, FsmInit
      <3> QED  BY <2>2, <2>3, <3>1 DEF WakesUp, PortRecord, Mastering, Slaving
    <2> QED  BY <2>4, <2>5
  <1>2. CASE next # "INITIALIZING"
    <2>1. port_state_update(r, e, m, ok) = [r EXCEPT !.state = next]
      BY <1>2 DEF port_state_update, EnterState
    <2> HIDE DEF next
    <2>2. [r EXCEPT !.state = next].state = next
      BY DEF PortRecord
    <2>3. [r EXCEPT !.state = next] = r
      BY <2>1, <2>2 DEF PortRecord
    <2> QED  BY <2>1, <2>3
  <1> QED  BY <1>1, <1>2

\* Moving a port keeps its type; a port that ends up following a master, or
\* passive, went there directly and kept its foreign masters; and the timers of
\* the new state run.
LEMMA MoveFacts ==
  ASSUME NEW r \in PortRecord, NEW e \in Events, NEW m \in BOOLEAN, NEW ok \in BOOLEAN
  PROVE  /\ MovePort(r, e, m, ok) \in PortRecord
         /\ MovePort(r, e, m, ok).state \in Following =>
              /\ MovePort(r, e, m, ok).state = state_machine(r.state, e, m)
              /\ SameMasters(MovePort(r, e, m, ok), r)
         /\ MovePort(r, e, m, ok).state
              \in {"LISTENING", "FAULTY", state_machine(r.state, e, m)}
         /\ MovePort(r, e, m, ok).msgs \in {r.msgs, NoMessages}
         /\ WakesUp(r) => WakesUp(MovePort(r, e, m, ok))
  <1> DEFINE u == port_state_update(r, e, m, ok)
  <1>1. /\ u \in PortRecord
        /\ u.state \in Following => u.state = state_machine(r.state, e, m) /\ SameMasters(u, r)
        /\ u.state \in {"LISTENING", "FAULTY", state_machine(r.state, e, m)}
        /\ u.msgs \in {r.msgs, NoMessages}
    BY UpdateFacts
  <1>2. MovePort(r, e, m, ok) = IF u.state = r.state THEN u ELSE port_transition(u)
    BY DEF MovePort, Transitioned
  <1>3. u.state = r.state /\ WakesUp(r) => WakesUp(u)
    BY UpdateTimers
  <1> HIDE DEF u
  <1>4. /\ port_transition(u) \in PortRecord
        /\ port_transition(u).state = u.state
        /\ u.state \in Following => SameMasters(port_transition(u), u)
        /\ port_transition(u).msgs \in {u.msgs, NoMessages}
        /\ WakesUp(port_transition(u))
    BY <1>1, TransitionFacts
  <1> QED  BY <1>1, <1>2, <1>3, <1>4 DEF SameMasters

\* The same of bc_dispatch, which may fault a port whose PHC the clock refused.
LEMMA DispatchFacts ==
  ASSUME NEW p, NEW r \in PortRecord, NEW e \in Events, NEW m \in BOOLEAN,
         NEW ok \in BOOLEAN, NEW phc \in BOOLEAN
  PROVE  /\ bc_dispatch(p, r, e, m, ok, phc) \in PortRecord
         /\ bc_dispatch(p, r, e, m, ok, phc).state \in Following =>
              /\ bc_dispatch(p, r, e, m, ok, phc).state = state_machine(r.state, e, m)
              /\ SameMasters(bc_dispatch(p, r, e, m, ok, phc), r)
         /\ bc_dispatch(p, r, e, m, ok, phc).state
              \in {"LISTENING", "FAULTY", state_machine(r.state, e, m)}
         /\ bc_dispatch(p, r, e, m, ok, phc).msgs \in {r.msgs, NoMessages}
         /\ WakesUp(r) => WakesUp(bc_dispatch(p, r, e, m, ok, phc))
  <1> DEFINE d == MovePort(r, e, m, ok)
             f == [d EXCEPT !.lastFault = "SWITCH_PHC"]
  <1>1. /\ d \in PortRecord
        /\ d.state \in Following => d.state = state_machine(r.state, e, m) /\ SameMasters(d, r)
        /\ d.state \in {"LISTENING", "FAULTY", state_machine(r.state, e, m)}
        /\ d.msgs \in {r.msgs, NoMessages}
        /\ WakesUp(r) => WakesUp(d)
    BY MoveFacts
  <1>2. CASE ~(p \in Jbod /\ d.state = "UNCALIBRATED" /\ d.state # r.state /\ ~phc)
    <2>1. bc_dispatch(p, r, e, m, ok, phc) = d
      BY <1>2 DEF bc_dispatch, SwitchPhc
    <2> QED  BY <1>1, <2>1
  <1>3. CASE p \in Jbod /\ d.state = "UNCALIBRATED" /\ d.state # r.state /\ ~phc
    <2> HIDE DEF d
    <2>1. bc_dispatch(p, r, e, m, ok, phc) = MovePort(f, "FAULT_DETECTED", FALSE, ok)
      BY <1>3 DEF bc_dispatch, SwitchPhc, d
    <2>2. f \in PortRecord /\ f.state = "UNCALIBRATED" /\ f.msgs = d.msgs
          /\ (WakesUp(d) => WakesUp(f))
      BY <1>1, <1>3 DEF PortRecord, FaultTypes, WakesUp
    <2> HIDE DEF f
    <2>3. /\ MovePort(f, "FAULT_DETECTED", FALSE, ok) \in PortRecord
          /\ MovePort(f, "FAULT_DETECTED", FALSE, ok).state
                \in {"LISTENING", "FAULTY", state_machine(f.state, "FAULT_DETECTED", FALSE)}
          /\ MovePort(f, "FAULT_DETECTED", FALSE, ok).msgs \in {f.msgs, NoMessages}
          /\ WakesUp(f) => WakesUp(MovePort(f, "FAULT_DETECTED", FALSE, ok))
      <3>1. "FAULT_DETECTED" \in Events
        BY DEF Events
      <3> QED  BY <2>2, <3>1, MoveFacts
    <2>4. state_machine(f.state, "FAULT_DETECTED", FALSE) = "FAULTY"
      BY <2>2, FsmInit
    <2> QED  BY <1>1, <2>1, <2>2, <2>3, <2>4 DEF Following, Slaving
  <1> QED  BY <1>2, <1>3

-----------------------------------------------------------------------------
(* The inductive invariant.                                                *)

NearAnnounces == {a \in Announces : a.stepsRemoved < MAX_STEPS}

\* What is true of port p, whose record is r, of a clock whose record is c.
Sound(p, r, c) ==
  /\ WakesUp(r)
  /\ r.state \in Slaving => c.best = p /\ c.parent = r.best
  /\ r.state \in Following => r.best \in SeqRange(r.fms)
  /\ SlaveOnly => r.state \notin MasterStates
  /\ r.msgs \in [Senders -> Seq(NearAnnounces)]

IInv == /\ TypeOK
        /\ \A p \in Ports : Sound(p, port[p], clk)
        /\ AnnouncedDistance

\* The events the ports themselves dispatch: all but the recommendations.
PortEvents == Events \ {"RS_SLAVE", "RS_PASSIVE", "RS_MASTER", "RS_GRAND_MASTER"}

\* A descriptor's event keeps what is true of the port.
LEMMA DispatchSound ==
  ASSUME NEW p, NEW c, NEW r \in PortRecord, NEW e \in PortEvents,
         NEW ok \in BOOLEAN, NEW phc \in BOOLEAN, Sound(p, r, c)
  PROVE  /\ bc_dispatch(p, r, e, FALSE, ok, phc) \in PortRecord
         /\ Sound(p, bc_dispatch(p, r, e, FALSE, ok, phc), c)
  <1> DEFINE d == bc_dispatch(p, r, e, FALSE, ok, phc)
             next == state_machine(r.state, e, FALSE)
  <1>1. e \in Events /\ e # "RS_SLAVE" /\ e # "RS_PASSIVE"
    BY DEF PortEvents
  <1>2. /\ d \in PortRecord
        /\ d.state \in Following => d.state = next /\ SameMasters(d, r)
        /\ d.state \in {"LISTENING", "FAULTY", next}
        /\ d.msgs \in {r.msgs, NoMessages}
        /\ WakesUp(d)
    <2>1. WakesUp(r)
      BY DEF Sound
    <2> HIDE DEF d, next
    <2>2. d \in PortRecord /\ d.state \in {"LISTENING", "FAULTY", next}
      BY <1>1, DispatchFacts DEF d, next
    <2>3. d.state \in Following => d.state = next
      BY <2>2 DEF Following, Slaving
    <2>6. d.state \in Following => SameMasters(d, r)
      BY <1>1, DispatchFacts DEF d
    <2>4. d.msgs \in {r.msgs, NoMessages}
      BY <1>1, DispatchFacts DEF d
    <2>5. WakesUp(d)
      BY <1>1, <2>1, DispatchFacts DEF d
    <2> QED  BY <2>2, <2>3, <2>4, <2>5, <2>6
  <1>3. r.state \in States
    BY PortFields
  <1>4. (next \in Slaving => r.state \in Slaving) /\ (next = "PASSIVE" => r.state = "PASSIVE")
    BY <1>1, <1>3, FsmFollows
  <1>5. SlaveOnly => next \notin MasterStates
    BY <1>1, <1>3, FsmSlaveOnly DEF Sound
  <1>6. NoMessages \in [Senders -> Seq(NearAnnounces)]
    BY DEF NoMessages
  <1> HIDE DEF d, next
  <1>7. d.state \in Slaving => c.best = p /\ c.parent = d.best
    BY <1>2, <1>4 DEF Sound, SameMasters, Following
  <1>8. d.state \in Following => d.best \in SeqRange(d.fms)
    BY <1>2, <1>4 DEF Sound, SameMasters, Following
  <1>9. SlaveOnly => d.state \notin MasterStates
    BY <1>2, <1>5 DEF MasterStates
  <1>10. d.msgs \in [Senders -> Seq(NearAnnounces)]
    BY <1>2, <1>6 DEF Sound
  <1> QED  BY <1>2, <1>7, <1>8, <1>9, <1>10 DEF Sound, d

Descriptors == {"EVENT", "GENERAL", "DELAY", "ANNOUNCE", "SYNC_RX", "QUALIFICATION",
                "MANNO", "SYNC_TX", "RTNL", "FAULT"}

\* The slots of a pass lie before the slot of the UDS port.
LEMMA SlotType ==
  ASSUME NEW p \in Ports, NEW f \in Descriptors
  PROVE  Slot(p, f) \in 0..UdsSlot
  <1>1. p \in Nat /\ NPorts \in Nat /\ p <= NPorts
    BY ConstantsAssumption DEF Ports
  <1>2. Fd(f) \in 0..9
    BY DEF Fd, Descriptors
  <1> QED  BY <1>1, <1>2 DEF Slot, UdsSlot

\* The environment's answers are Booleans.
LEMMA SuccessType ==
  ASSUME NEW b \in BOOLEAN, NEW ok \in Success(b)
  PROVE  ok \in BOOLEAN
  BY DEF Success

\* One descriptor's step keeps the invariant when its handler did.
LEMMA HandledSound ==
  ASSUME IInv, NEW p \in Ports, NEW f \in Descriptors, NEW r \in PortRecord,
         NEW e \in PortEvents, NEW due \in BOOLEAN, Sound(p, r, clk),
         Handled(p, f, r, e, due)
  PROVE  IInv'
  <1> PICK ok \in Success(InitMayFail), phc \in Success(PhcMayFail) :
         \E d \in {bc_dispatch(p, r, e, FALSE, ok, phc)} :
           /\ port' = [port EXCEPT ![p] = IF d.state = "FAULTY" THEN SetFaultTimer(d) ELSE d]
           /\ pos' = Slot(p, IF d.state = "FAULTY" THEN "RTNL" ELSE f)
           /\ sde' = (\/ sde \/ due
                      \/ e \in {"STATE_DECISION_EVENT", "ANNOUNCE_RECEIPT_TIMEOUT_EXPIRES"})
           /\ UNCHANGED <<clk, dds, snap>>
    BY DEF Handled
  <1> DEFINE d == bc_dispatch(p, r, e, FALSE, ok, phc)
             n == IF d.state = "FAULTY" THEN SetFaultTimer(d) ELSE d
  <1>1. ok \in BOOLEAN /\ phc \in BOOLEAN
    BY SuccessType, ConstantsAssumption
  <1>2. d \in PortRecord /\ Sound(p, d, clk)
    BY <1>1, DispatchSound
  <1>3. /\ port' = [port EXCEPT ![p] = n]
        /\ pos' = Slot(p, IF d.state = "FAULTY" THEN "RTNL" ELSE f)
        /\ sde' \in BOOLEAN
        /\ clk' = clk /\ dds' = dds /\ snap' = snap
    BY DEF IInv, TypeOK
  <1>4. n \in PortRecord /\ Sound(p, n, clk)
    <2> HIDE DEF d
    <2>1. CASE d.state # "FAULTY"
      BY <1>2, <2>1
    <2>2. CASE d.state = "FAULTY"
      <3> DEFINE b == d.lastFault \notin AsapFaults
      <3>1. n = [d EXCEPT !.faultTimer = b] /\ b \in BOOLEAN
        BY <2>2 DEF SetFaultTimer
      <3> HIDE DEF b
      <3>2. [d EXCEPT !.faultTimer = b] \in PortRecord
        BY <1>2, <3>1 DEF PortRecord
      <3>3. Sound(p, [d EXCEPT !.faultTimer = b], clk)
        BY <1>2 DEF Sound, WakesUp, PortRecord
      <3> QED  BY <3>1, <3>2, <3>3
    <2> QED  BY <2>1, <2>2
  <1>5. pos' \in 0..UdsSlot
    BY <1>3, SlotType DEF Descriptors
  <1> HIDE DEF n, d
  <1>6. TypeOK'
    <2>1. port' \in [Ports -> PortRecord]
      BY <1>3, <1>4 DEF IInv, TypeOK
    <2> QED  BY <2>1, <1>3, <1>5 DEF IInv, TypeOK
  <1>7. \A x \in Ports : Sound(x, port'[x], clk')
    BY <1>3, <1>4 DEF IInv, TypeOK
  <1>8. AnnouncedDistance'
    BY <1>3 DEF IInv, AnnouncedDistance
  <1> QED  BY <1>6, <1>7, <1>8 DEF IInv

-----------------------------------------------------------------------------
(* The handlers of the descriptors.                                        *)

\* A change of the running timers that keeps those of the state, of the delay
\* mechanism towards P2P, and of the flags of a port keeps what is true of it.
LEMMA TimersSound ==
  ASSUME NEW p, NEW c, NEW r \in PortRecord, Sound(p, r, c), NEW r2 \in PortRecord,
         r2.state = r.state, SameMasters(r2, r),
         r.armed \ {"SYNC_RX"} \subseteq r2.armed, r2.dm \in {r.dm, "P2P"}
  PROVE  Sound(p, r2, c)
  BY DEF Sound, SameMasters, WakesUp

\* fc_prune leaves a list of messages that has room for one more.
LEMMA KeptType ==
  ASSUME NEW S, NEW ms \in Seq(S), NEW k \in Kept(ms)
  PROVE  k \in Seq(S) /\ Len(k) <= FOREIGN_MASTER_THRESHOLD
  <1>1. PICK j \in 0..FOREIGN_MASTER_THRESHOLD : j <= Len(ms) /\ k = SubSeq(ms, 1, j)
    BY DEF Kept
  <1>2. \A i \in 1..j : ms[i] \in S
    BY <1>1 DEF FOREIGN_MASTER_THRESHOLD
  <1>3. j \in Int
    BY DEF FOREIGN_MASTER_THRESHOLD
  <1> QED  BY <1>1, <1>2, <1>3, SubSeqProperties DEF FOREIGN_MASTER_THRESHOLD

\* The announce message in front of what is kept of the earlier ones.
LEMMA PrependType ==
  ASSUME NEW a \in NearAnnounces, NEW ms \in Seq(NearAnnounces),
         Len(ms) <= FOREIGN_MASTER_THRESHOLD
  PROVE  <<a>> \o ms \in Messages /\ <<a>> \o ms \in Seq(NearAnnounces)
  <1>1. <<a>> \o ms \in Seq(NearAnnounces) /\ Len(<<a>> \o ms) = Len(ms) + 1
    BY ConcatProperties
  <1>2. <<a>> \o ms \in Seq(Announces)
    BY <1>1 DEF NearAnnounces
  <1> QED  BY <1>1, <1>2 DEF Messages, FOREIGN_MASTER_THRESHOLD

\* A new foreign master in front of the list hides none of the others.
LEMMA PrependMaster ==
  ASSUME NEW s \in Senders, NEW fms \in Seq(Senders)
  PROVE  /\ <<s>> \o fms \in Seq(Senders)
         /\ SeqRange(fms) \subseteq SeqRange(<<s>> \o fms)
  <1>1. /\ <<s>> \o fms \in Seq(Senders) /\ Len(<<s>> \o fms) = Len(fms) + 1
        /\ \A i \in 1..Len(fms) + 1 : (<<s>> \o fms)[i] = IF i <= 1 THEN s ELSE fms[i - 1]
    BY ConcatProperties
  <1>2. ASSUME NEW i \in 1..Len(fms)
        PROVE  fms[i] \in SeqRange(<<s>> \o fms)
    <2>1. i + 1 \in 1..Len(<<s>> \o fms) /\ (<<s>> \o fms)[i + 1] = fms[i]
      BY <1>1
    <2> QED  BY <2>1 DEF SeqRange
  <1> QED  BY <1>1, <1>2 DEF SeqRange

\* The messages of sender s become those of a near announce and what is kept.
LEMMA StoreSound ==
  ASSUME NEW p, NEW c, NEW r \in PortRecord, Sound(p, r, c), NEW s \in Senders,
         NEW a \in NearAnnounces, NEW ms \in Kept(r.msgs[s])
  PROVE  /\ [r EXCEPT !.msgs[s] = <<a>> \o ms] \in PortRecord
         /\ Sound(p, [r EXCEPT !.msgs[s] = <<a>> \o ms], c)
  <1>1. r.msgs[s] \in Seq(NearAnnounces)
    BY DEF Sound
  <1>2. ms \in Seq(NearAnnounces) /\ Len(ms) <= FOREIGN_MASTER_THRESHOLD
    BY <1>1, KeptType
  <1>3. <<a>> \o ms \in Messages /\ <<a>> \o ms \in Seq(NearAnnounces)
    BY <1>2, PrependType
  <1> DEFINE l == <<a>> \o ms
  <1> HIDE DEF l
  <1>4. [r EXCEPT !.msgs[s] = l] \in PortRecord
    BY <1>3 DEF PortRecord, l
  <1>5. /\ [r EXCEPT !.msgs[s] = l].msgs = [r.msgs EXCEPT ![s] = l]
        /\ [r EXCEPT !.msgs[s] = l].state = r.state
        /\ [r EXCEPT !.msgs[s] = l].armed = r.armed
        /\ [r EXCEPT !.msgs[s] = l].dm = r.dm
        /\ [r EXCEPT !.msgs[s] = l].best = r.best
        /\ [r EXCEPT !.msgs[s] = l].fms = r.fms
    BY DEF PortRecord
  <1>6. [r.msgs EXCEPT ![s] = l] \in [Senders -> Seq(NearAnnounces)]
    BY <1>3 DEF Sound, l
  <1> QED  BY <1>4, <1>5, <1>6 DEF Sound, WakesUp, l

\* process_announce keeps what is true of the port.
LEMMA AnnounceSound ==
  ASSUME NEW p, NEW c, NEW r \in PortRecord, Sound(p, r, c), NEW s \in Senders,
         NEW a \in Announces, NEW ms \in Kept(r.msgs[s])
  PROVE  /\ process_announce(r, s, a, ms).rec \in PortRecord
         /\ Sound(p, process_announce(r, s, a, ms).rec, c)
  <1> DEFINE stored == [r EXCEPT !.msgs[s] = <<a>> \o ms]
             found == [r EXCEPT !.fms = <<s>> \o r.fms]
             timed == [stored EXCEPT !.armed = @ \cup {"ANNOUNCE"}]
  <1>1. a.stepsRemoved \in Nat /\ MAX_STEPS \in Nat
    BY ConstantsAssumption DEF AnnounceMsg, MAX_STEPS
  <1>2. found \in PortRecord /\ Sound(p, found, c)
    <2>1. /\ <<s>> \o r.fms \in Seq(Senders)
          /\ SeqRange(r.fms) \subseteq SeqRange(<<s>> \o r.fms)
      BY PortFields, PrependMaster
    <2> DEFINE l == <<s>> \o r.fms
    <2> HIDE DEF l
    <2>2. [r EXCEPT !.fms = l] \in PortRecord
      BY <2>1 DEF PortRecord, l
    <2>3. Sound(p, [r EXCEPT !.fms = l], c)
      BY <2>1 DEF Sound, WakesUp, PortRecord, l
    <2> QED  BY <2>2, <2>3 DEF l
  <1>3. CASE a \in NearAnnounces
    <2>1. stored \in PortRecord /\ Sound(p, stored, c)
      BY <1>3, StoreSound
    <2>2. timed \in PortRecord /\ Sound(p, timed, c)
      <3> HIDE DEF stored
      <3>1. timed \in PortRecord
        BY <2>1 DEF PortRecord, Timers
      <3>2. /\ timed.state = stored.state /\ SameMasters(timed, stored)
            /\ stored.armed \ {"SYNC_RX"} \subseteq timed.armed /\ timed.dm = stored.dm
        BY <2>1 DEF PortRecord, SameMasters
      <3> QED  BY <2>1, <3>1, <3>2, TimersSound
    <2>3. add_foreign_master(r, s, a, ms).rec \in {found, stored}
      BY DEF add_foreign_master
    <2>4. update_current_master(r, s, a, ms).rec \in {found, stored, timed}
      <3>1. timed = [r EXCEPT !.msgs[s] = <<a>> \o ms, !.armed = r.armed \cup {"ANNOUNCE"}]
        BY DEF PortRecord
      <3> QED  BY <2>3, <3>1 DEF update_current_master
    <2>5. process_announce(r, s, a, ms).rec \in {r, found, stored, timed}
      <3> HIDE DEF found, stored, timed
      <3> QED  BY <1>1, <2>3, <2>4 DEF process_announce
    <2> QED  BY <1>2, <2>1, <2>2, <2>5
  <1>4. CASE a \notin NearAnnounces
    <2>1. a.stepsRemoved >= MAX_STEPS
      BY <1>1, <1>4 DEF NearAnnounces
    <2>2. process_announce(r, s, a, ms).rec = r
      BY <1>1, <2>1 DEF process_announce
    <2> QED  BY <2>2
  <1> QED  BY <1>3, <1>4

\* fc_clear of the best foreign master keeps what is true of the port.
LEMMA ClearSound ==
  ASSUME NEW p, NEW c, NEW r \in PortRecord, Sound(p, r, c)
  PROVE  ClearBest(r) \in PortRecord /\ Sound(p, ClearBest(r), c)
  <1>1. CASE r.best = NULL
    BY <1>1 DEF ClearBest
  <1>2. CASE r.best # NULL
    <2>1. ClearBest(r) = [r EXCEPT !.msgs[r.best] = <<>>]
      BY <1>2 DEF ClearBest
    <2>2. r.best \in Senders
      BY <1>2, PortFields
    <2>3. <<>> \in Messages /\ <<>> \in Seq(NearAnnounces)
      BY DEF Messages, FOREIGN_MASTER_THRESHOLD
    <2>4. [r EXCEPT !.msgs[r.best] = <<>>] \in PortRecord
      BY <2>2, <2>3 DEF PortRecord
    <2>5. /\ [r EXCEPT !.msgs[r.best] = <<>>].msgs = [r.msgs EXCEPT ![r.best] = <<>>]
          /\ [r EXCEPT !.msgs[r.best] = <<>>].state = r.state
          /\ [r EXCEPT !.msgs[r.best] = <<>>].armed = r.armed
          /\ [r EXCEPT !.msgs[r.best] = <<>>].dm = r.dm
          /\ [r EXCEPT !.msgs[r.best] = <<>>].best = r.best
          /\ [r EXCEPT !.msgs[r.best] = <<>>].fms = r.fms
      BY DEF PortRecord
    <2>6. [r.msgs EXCEPT ![r.best] = <<>>] \in [Senders -> Seq(NearAnnounces)]
      BY <2>3 DEF Sound
    <2> QED  BY <2>1, <2>4, <2>5, <2>6 DEF Sound, WakesUp
  <1> QED  BY <1>1, <1>2

\* The events and descriptors the handlers use.
LEMMA EventTypes ==
  /\ {"NONE", "STATE_DECISION_EVENT", "SYNCHRONIZATION_FAULT", "MASTER_CLOCK_SELECTED",
      "FAULT_DETECTED", "FAULT_CLEARED", "ANNOUNCE_RECEIPT_TIMEOUT_EXPIRES",
      "QUALIFICATION_TIMEOUT_EXPIRES", "INITIALIZE"} \subseteq PortEvents
  /\ Timers \cup {"EVENT", "GENERAL", "RTNL", "FAULT"} \subseteq Descriptors
  BY DEF PortEvents, Events, Timers, Descriptors

\* What the invariant says of one port.
LEMMA PortOf ==
  ASSUME IInv, NEW p \in Ports
  PROVE  port[p] \in PortRecord /\ Sound(p, port[p], clk)
  BY DEF IInv, TypeOK

\* The step of an Announce.
LEMMA RecvAnnounceSound ==
  ASSUME IInv, NEW p \in Ports, NEW s \in Hears[p], NEW a \in Announces, RecvAnnounce(p, s, a)
  PROVE  IInv'
  <1>1. s \in Senders
    BY ConstantsAssumption
  <1>2. PICK ms \in Kept(port[p].msgs[s]) :
          Handled(p, "GENERAL", process_announce(port[p], s, a, ms).rec,
                  IF process_announce(port[p], s, a, ms).changed
                  THEN "STATE_DECISION_EVENT" ELSE "NONE", FALSE)
    BY DEF RecvAnnounce
  <1>3. /\ process_announce(port[p], s, a, ms).rec \in PortRecord
        /\ Sound(p, process_announce(port[p], s, a, ms).rec, clk)
    BY <1>1, PortOf, AnnounceSound
  <1>4. (IF process_announce(port[p], s, a, ms).changed
         THEN "STATE_DECISION_EVENT" ELSE "NONE") \in PortEvents
    BY EventTypes
  <1>5. "GENERAL" \in Descriptors /\ FALSE \in BOOLEAN
    BY EventTypes
  <1> QED  BY <1>2, <1>3, <1>4, <1>5, HandledSound

\* The step of a Sync or a Follow_Up.
LEMMA SynchronizeSound ==
  ASSUME IInv, NEW p \in Ports, NEW f \in {"EVENT", "GENERAL"},
         NEW e \in {"SYNCHRONIZATION_FAULT", "MASTER_CLOCK_SELECTED"}, Synchronize(p, f, e)
  PROVE  IInv'
  <1> DEFINE r == [port[p] EXCEPT !.armed = IF SyncRxTimeout
                                            THEN @ \cup {"SYNC_RX"} ELSE @ \ {"SYNC_RX"}]
  <1>1. PICK ok \in Success(InitMayFail), phc \in Success(PhcMayFail) :
          Handled(p, f, bc_dispatch(p, r, e, FALSE, ok, phc), "NONE", FALSE)
    BY DEF Synchronize
  <1>2. ok \in BOOLEAN /\ phc \in BOOLEAN
    BY SuccessType, ConstantsAssumption
  <1>3. r \in PortRecord /\ Sound(p, r, clk)
    <2>1. port[p] \in PortRecord /\ Sound(p, port[p], clk)
      BY PortOf
    <2>2. /\ r \in PortRecord /\ r.state = port[p].state /\ SameMasters(r, port[p])
          /\ port[p].armed \ {"SYNC_RX"} \subseteq r.armed /\ r.dm = port[p].dm
      BY <2>1 DEF PortRecord, Timers, SameMasters
    <2> QED  BY <2>1, <2>2, TimersSound
  <1> HIDE DEF r
  <1>4. e \in PortEvents /\ "NONE" \in PortEvents /\ f \in Descriptors
    BY EventTypes
  <1>5. /\ bc_dispatch(p, r, e, FALSE, ok, phc) \in PortRecord
        /\ Sound(p, bc_dispatch(p, r, e, FALSE, ok, phc), clk)
    BY <1>2, <1>3, <1>4, DispatchSound
  <1> QED  BY <1>1, <1>4, <1>5, HandledSound

\* The step of a fault that receiving detects.
LEMMA RecvFaultSound ==
  ASSUME IInv, NEW p \in Ports, NEW f \in {"EVENT", "GENERAL"}, NEW ft \in Faults,
         RecvFault(p, f, ft)
  PROVE  IInv'
  <1> DEFINE r == IF ft = "UNSPECIFIED" THEN port[p] ELSE [port[p] EXCEPT !.lastFault = ft]
  <1>1. Handled(p, f, r, "FAULT_DETECTED", FALSE)
    BY DEF RecvFault
  <1>2. port[p] \in PortRecord /\ Sound(p, port[p], clk)
    BY PortOf
  <1>3. /\ r \in PortRecord /\ r.state = port[p].state /\ SameMasters(r, port[p])
        /\ port[p].armed \ {"SYNC_RX"} \subseteq r.armed /\ r.dm = port[p].dm
    BY <1>2, ConstantsAssumption DEF PortRecord, SameMasters, FaultTypes
  <1>4. Sound(p, r, clk)
    BY <1>2, <1>3, TimersSound
  <1>5. "FAULT_DETECTED" \in PortEvents /\ f \in Descriptors
    BY EventTypes
  <1> QED  BY <1>1, <1>3, <1>4, <1>5, HandledSound

\* The step of the first Pdelay_Req of an AUTO port.
LEMMA RecvPdelayReqSound ==
  ASSUME IInv, NEW p \in Ports, NEW sent \in BOOLEAN, RecvPdelayReq(p, sent)
  PROVE  IInv'
  <1> DEFINE r == [port[p] EXCEPT !.dm = "P2P", !.armed = @ \cup {"DELAY"}]
             e == IF sent THEN "NONE" ELSE "FAULT_DETECTED"
  <1>1. Handled(p, "EVENT", r, e, FALSE)
    BY DEF RecvPdelayReq
  <1>2. port[p] \in PortRecord /\ Sound(p, port[p], clk)
    BY PortOf
  <1>3. /\ r \in PortRecord /\ r.state = port[p].state /\ SameMasters(r, port[p])
        /\ port[p].armed \ {"SYNC_RX"} \subseteq r.armed /\ r.dm = "P2P"
    BY <1>2 DEF PortRecord, SameMasters, Timers
  <1>4. Sound(p, r, clk)
    BY <1>2, <1>3, TimersSound
  <1>5. e \in PortEvents /\ "EVENT" \in Descriptors
    BY EventTypes
  <1> QED  BY <1>1, <1>3, <1>4, <1>5, HandledSound

\* The step of a timer whose handler sets a timer again.
LEMMA TimerSound ==
  ASSUME IInv, NEW p \in Ports, NEW t \in Timers, NEW sent \in BOOLEAN,
         Handled(p, t, [port[p] EXCEPT !.armed = @ \cup {t}],
                 IF sent THEN "NONE" ELSE "FAULT_DETECTED", FALSE)
  PROVE  IInv'
  <1> DEFINE r == [port[p] EXCEPT !.armed = @ \cup {t}]
             e == IF sent THEN "NONE" ELSE "FAULT_DETECTED"
  <1>2. port[p] \in PortRecord /\ Sound(p, port[p], clk)
    BY PortOf
  <1>3. /\ r \in PortRecord /\ r.state = port[p].state /\ SameMasters(r, port[p])
        /\ port[p].armed \ {"SYNC_RX"} \subseteq r.armed /\ r.dm = port[p].dm
    BY <1>2 DEF PortRecord, SameMasters
  <1>4. Sound(p, r, clk)
    BY <1>2, <1>3, TimersSound
  <1>5. e \in PortEvents /\ t \in Descriptors
    BY EventTypes
  <1> QED  BY <1>3, <1>4, <1>5, HandledSound

\* The step of a receipt timeout.
LEMMA ReceiptTimerSound ==
  ASSUME IInv, NEW p \in Ports, NEW t \in {"ANNOUNCE", "SYNC_RX"}, NEW renewed \in BOOLEAN,
         ReceiptTimer(p, t, renewed)
  PROVE  IInv'
  <1> DEFINE renew == SlaveOnly /\ port[p].dm # "P2P"
             c == ClearBest(port[p])
             r == [c EXCEPT !.armed = @ \cup {"ANNOUNCE"}]
             e == IF renew /\ ~renewed THEN "FAULT_DETECTED"
                  ELSE "ANNOUNCE_RECEIPT_TIMEOUT_EXPIRES"
  <1>1. Handled(p, t, r, e, FALSE)
    BY DEF ReceiptTimer
  <1>2. c \in PortRecord /\ Sound(p, c, clk)
    BY PortOf, ClearSound
  <1>3. e \in PortEvents /\ t \in Descriptors
    BY EventTypes DEF Timers
  <1> HIDE DEF c, renew, e
  <1>4. /\ r \in PortRecord /\ r.state = c.state /\ SameMasters(r, c)
        /\ c.armed \ {"SYNC_RX"} \subseteq r.armed /\ r.dm = c.dm
    BY <1>2 DEF PortRecord, SameMasters, Timers
  <1>5. Sound(p, r, clk)
    BY <1>2, <1>4, TimersSound
  <1> HIDE DEF r
  <1> QED  BY <1>1, <1>3, <1>4, <1>5, HandledSound

LinkWord == [up : BOOLEAN, changed : BOOLEAN, label : BOOLEAN]

\* port_link_status leaves a link status word.
LEMMA LinkStatusType ==
  ASSUME NEW l \in LinkWord, NEW n \in LinkEvent
  PROVE  port_link_status(l, n).link \in LinkWord
  <1>1. /\ l.up \in BOOLEAN /\ n.up \in BOOLEAN /\ n.label \in BOOLEAN
        /\ (l.up # n.up) \in BOOLEAN
    BY DEF LinkWord, LinkEvent
  <1>2. [up |-> n.up, changed |-> l.up # n.up, label |-> n.label] \in LinkWord
    BY <1>1 DEF LinkWord
  <1>3. [up |-> FALSE, changed |-> TRUE, label |-> FALSE] \in LinkWord
    BY DEF LinkWord
  <1>4. port_link_status(l, n).link
          \in {[up |-> FALSE, changed |-> TRUE, label |-> FALSE],
               [up |-> n.up, changed |-> l.up # n.up, label |-> n.label]}
    BY DEF port_link_status
  <1> QED  BY <1>2, <1>3, <1>4

\* A link status word stands for an event of the port.
LEMMA LinkStatusEventType ==
  ASSUME NEW l
  PROVE  LinkStatusEvent(l) \in PortEvents
  BY EventTypes DEF LinkStatusEvent

\* The step of a link notification.
LEMMA LinkNotificationSound ==
  ASSUME IInv, NEW p \in Ports, NEW n \in LinkEvents, LinkNotification(p, n)
  PROVE  IInv'
  <1> DEFINE l == port_link_status(port[p].link, n).link
             r == [port[p] EXCEPT !.link = l]
             g == [r EXCEPT !.lastFault = "SWITCH_PHC"]
  <1>1. PICK ok \in Success(InitMayFail) :
          Handled(p, "RTNL",
                  IF port_link_status(port[p].link, n).phc THEN r
                  ELSE bc_dispatch(p, g, "FAULT_DETECTED", FALSE, ok, TRUE),
                  LinkStatusEvent(l), ~l.up)
    BY DEF LinkNotification
  <1>2. port[p] \in PortRecord /\ Sound(p, port[p], clk)
    BY PortOf
  <1>3. l \in LinkWord
    BY <1>2, PortFields, LinkStatusType, ConstantsAssumption DEF LinkWord
  <1>4. LinkStatusEvent(l) \in PortEvents /\ (~l.up) \in BOOLEAN
    BY LinkStatusEventType
  <1> HIDE DEF l
  <1>5. /\ r \in PortRecord /\ r.state = port[p].state /\ SameMasters(r, port[p])
        /\ port[p].armed \ {"SYNC_RX"} \subseteq r.armed /\ r.dm = port[p].dm
    BY <1>2, <1>3 DEF PortRecord, SameMasters, LinkWord
  <1>6. Sound(p, r, clk)
    BY <1>2, <1>5, TimersSound
  <1> HIDE DEF r
  <1>7. /\ g \in PortRecord /\ g.state = r.state /\ SameMasters(g, r)
        /\ r.armed \ {"SYNC_RX"} \subseteq g.armed /\ g.dm = r.dm
    BY <1>5 DEF PortRecord, SameMasters, FaultTypes
  <1>8. Sound(p, g, clk)
    BY <1>5, <1>6, <1>7, TimersSound
  <1> HIDE DEF g
  <1>9. ok \in BOOLEAN /\ "FAULT_DETECTED" \in PortEvents /\ "RTNL" \in Descriptors
    BY SuccessType, ConstantsAssumption, EventTypes
  <1>10. /\ bc_dispatch(p, g, "FAULT_DETECTED", FALSE, ok, TRUE) \in PortRecord
         /\ Sound(p, bc_dispatch(p, g, "FAULT_DETECTED", FALSE, ok, TRUE), clk)
    BY <1>7, <1>8, <1>9, DispatchSound
  <1>11. CASE port_link_status(port[p].link, n).phc
    BY <1>1, <1>4, <1>5, <1>6, <1>9, <1>11, HandledSound
  <1>12. CASE ~port_link_status(port[p].link, n).phc
    BY <1>1, <1>4, <1>9, <1>10, <1>12, HandledSound
  <1> QED  BY <1>11, <1>12

\* The step of the fault timer.
LEMMA FaultTimerSound ==
  ASSUME IInv, NEW p \in Ports, FaultTimer(p)
  PROVE  IInv'
  <1> DEFINE r == [port[p] EXCEPT !.faultTimer = FALSE]
  <1>1. PICK ok \in Success(InitMayFail) :
          port' = [port EXCEPT ![p] =
                     IF r.link.up THEN bc_dispatch(p, r, "FAULT_CLEARED", FALSE, ok, TRUE) ELSE r]
    BY DEF FaultTimer
  <1> DEFINE n == IF r.link.up THEN bc_dispatch(p, r, "FAULT_CLEARED", FALSE, ok, TRUE) ELSE r
  <1>2. port[p] \in PortRecord /\ Sound(p, port[p], clk)
    BY PortOf
  <1>3. /\ r \in PortRecord /\ r.state = port[p].state /\ SameMasters(r, port[p])
        /\ port[p].armed \ {"SYNC_RX"} \subseteq r.armed /\ r.dm = port[p].dm
    BY <1>2 DEF PortRecord, SameMasters
  <1>4. Sound(p, r, clk)
    BY <1>2, <1>3, TimersSound
  <1> HIDE DEF r
  <1>5. ok \in BOOLEAN /\ "FAULT_CLEARED" \in PortEvents
    BY SuccessType, ConstantsAssumption, EventTypes
  <1>6. /\ bc_dispatch(p, r, "FAULT_CLEARED", FALSE, ok, TRUE) \in PortRecord
        /\ Sound(p, bc_dispatch(p, r, "FAULT_CLEARED", FALSE, ok, TRUE), clk)
    BY <1>3, <1>4, <1>5, DispatchSound
  <1>7. n \in PortRecord /\ Sound(p, n, clk)
    BY <1>3, <1>4, <1>6
  <1>8. /\ port' = [port EXCEPT ![p] = n] /\ clk' = clk /\ dds' = dds /\ sde' = sde
        /\ snap' = snap /\ pos' = Slot(p, "FAULT")
    BY <1>1 DEF FaultTimer
  <1> HIDE DEF n
  <1>9. pos' \in 0..UdsSlot
    BY <1>8, SlotType, EventTypes
  <1>10. TypeOK'
    <2>1. port' \in [Ports -> PortRecord]
      BY <1>7, <1>8 DEF IInv, TypeOK
    <2> QED  BY <2>1, <1>8, <1>9 DEF IInv, TypeOK
  <1>11. \A x \in Ports : Sound(x, port'[x], clk')
    BY <1>7, <1>8 DEF IInv, TypeOK
  <1>12. AnnouncedDistance'
    BY <1>8 DEF IInv, AnnouncedDistance
  <1> QED  BY <1>10, <1>11, <1>12 DEF IInv

\* Every step of a port keeps the invariant.
LEMMA PortNextSound ==
  ASSUME IInv, NEW p \in Ports, PortNext(p)
  PROVE  IInv'
  <1>1. ASSUME NEW s \in Hears[p], NEW a \in Announces, RecvAnnounce(p, s, a)
        PROVE  IInv'
    BY <1>1, RecvAnnounceSound
  <1>2. ASSUME NEW f \in {"EVENT", "GENERAL"},
               NEW e \in {"SYNCHRONIZATION_FAULT", "MASTER_CLOCK_SELECTED"}, Synchronize(p, f, e)
        PROVE  IInv'
    BY <1>2, SynchronizeSound
  <1>3. ASSUME NEW f \in {"EVENT", "GENERAL"}, NEW ft \in Faults, RecvFault(p, f, ft)
        PROVE  IInv'
    BY <1>3, RecvFaultSound
  <1>4. ASSUME NEW sent \in Success(SendMayFail), RecvPdelayReq(p, sent)
        PROVE  IInv'
    BY <1>4, SuccessType, ConstantsAssumption, RecvPdelayReqSound
  <1>5. ASSUME NEW sent \in Success(SendMayFail), DelayTimer(p, sent)
        PROVE  IInv'
    <2>1. sent \in BOOLEAN /\ "DELAY" \in Timers
      BY SuccessType, ConstantsAssumption DEF Timers
    <2> QED  BY <1>5, <2>1, TimerSound DEF DelayTimer
  <1>6. ASSUME NEW sent \in Success(SendMayFail), NEW t \in {"MANNO", "SYNC_TX"},
               TransmitTimer(p, t, sent)
        PROVE  IInv'
    <2>1. sent \in BOOLEAN /\ t \in Timers
      BY SuccessType, ConstantsAssumption DEF Timers
    <2> QED  BY <1>6, <2>1, TimerSound DEF TransmitTimer
  <1>7. ASSUME NEW t \in {"ANNOUNCE", "SYNC_RX"}, NEW renewed \in Success(InitMayFail),
               ReceiptTimer(p, t, renewed)
        PROVE  IInv'
    BY <1>7, SuccessType, ConstantsAssumption, ReceiptTimerSound
  <1>8. ASSUME QualificationTimer(p)
        PROVE  IInv'
    <2>1. Handled(p, "QUALIFICATION", port[p], "QUALIFICATION_TIMEOUT_EXPIRES", FALSE)
      BY <1>8 DEF QualificationTimer
    <2>2. "QUALIFICATION" \in Descriptors /\ "QUALIFICATION_TIMEOUT_EXPIRES" \in PortEvents
      BY EventTypes DEF Timers
    <2> QED  BY <2>1, <2>2, PortOf, HandledSound
  <1>9. ASSUME NEW n \in LinkEvents, LinkNotification(p, n)
        PROVE  IInv'
    BY <1>9, LinkNotificationSound
  <1>10. ASSUME OtherLinkNotification(p)
         PROVE  IInv'
    <2>1. Handled(p, "RTNL", port[p], LinkStatusEvent(port[p].link), FALSE)
      BY <1>10 DEF OtherLinkNotification
    <2>2. "RTNL" \in Descriptors /\ LinkStatusEvent(port[p].link) \in PortEvents
      BY EventTypes, LinkStatusEventType
    <2> QED  BY <2>1, <2>2, PortOf, HandledSound
  <1>11. ASSUME FaultTimer(p)
         PROVE  IInv'
    BY <1>11, FaultTimerSound
  <1> QED  BY <1>1, <1>2, <1>3, <1>4, <1>5, <1>6, <1>7, <1>8, <1>9, <1>10, <1>11 DEF PortNext

\* So does management.
LEMMA ManageSound ==
  ASSUME IInv, NEW d \in DefaultDSs, Manage(d)
  PROVE  IInv'
  <1>1. UdsSlot \in 0..UdsSlot
    BY ConstantsAssumption DEF UdsSlot
  <1> QED  BY <1>1 DEF IInv, TypeOK, Manage, AnnouncedDistance

-----------------------------------------------------------------------------
(* The state decision.                                                     *)

\* fc_prune may leave k[s] messages of each sender s of port r.
Prunes(k, r) == /\ k \in [Senders -> 0..FOREIGN_MASTER_THRESHOLD]
                /\ \A s \in Senders : k[s] <= Len(r.msgs[s])

\* The port r with its best foreign master selected: the best, if there is one,
\* is in the list and has a message.
BestSelected(q, r) ==
  /\ q \in PortRecord /\ WakesUp(q)
  /\ q.state = r.state /\ q.armed = r.armed /\ q.dm = r.dm
  /\ q.msgs \in [Senders -> Seq(NearAnnounces)]
  /\ q.best # NULL => /\ q.best \in Senders /\ q.best \in SeqRange(q.fms)
                      /\ q.msgs[q.best] # <<>> /\ q.msgs[q.best][1] \in NearAnnounces

\* port_compute_best selects such a best foreign master.
LEMMA ComputeBestFacts ==
  ASSUME NEW p, NEW c, NEW r \in PortRecord, Sound(p, r, c), NEW k, Prunes(k, r)
  PROVE  BestSelected(port_compute_best(p, r, Pruned(r, k)), r)
  <1> DEFINE m == Pruned(r, k)
             q == port_compute_best(p, r, m)
  <1>0. /\ r.msgs \in [Senders -> Seq(NearAnnounces)] /\ WakesUp(r)
        /\ k \in [Senders -> 0..FOREIGN_MASTER_THRESHOLD]
        /\ \A s \in Senders : k[s] <= Len(r.msgs[s])
    BY DEF Sound, Prunes
  <1>1. ASSUME NEW s \in Senders
        PROVE  /\ m[s] \in Seq(NearAnnounces) /\ m[s] \in Messages
               /\ m[s] \in Seq(Announces)
    <2>1. /\ k[s] \in 0..2 /\ k[s] \in Int /\ k[s] <= Len(r.msgs[s])
          /\ r.msgs[s] \in Seq(NearAnnounces)
      BY <1>0 DEF FOREIGN_MASTER_THRESHOLD
    <2>2. \A i \in 1..k[s] : r.msgs[s][i] \in NearAnnounces
      BY <2>1
    <2>3. m[s] = SubSeq(r.msgs[s], 1, k[s])
      BY DEF Pruned
    <2>4. m[s] \in Seq(NearAnnounces) /\ Len(m[s]) <= 2
      BY <2>1, <2>2, <2>3, SubSeqProperties
    <2>5. m[s] \in Seq(Announces)
      BY <2>4 DEF NearAnnounces
    <2> QED  BY <2>4, <2>5 DEF Messages, FOREIGN_MASTER_THRESHOLD
  <1>2. CASE p \in MasterOnly
    <2>1. q = [r EXCEPT !.best = NULL]
      BY <1>2 DEF port_compute_best
    <2>2. [r EXCEPT !.best = NULL] \in PortRecord
      BY DEF PortRecord
    <2>3. /\ [r EXCEPT !.best = NULL].best = NULL /\ [r EXCEPT !.best = NULL].msgs = r.msgs
          /\ [r EXCEPT !.best = NULL].state = r.state /\ WakesUp([r EXCEPT !.best = NULL])
          /\ [r EXCEPT !.best = NULL].armed = r.armed /\ [r EXCEPT !.best = NULL].dm = r.dm
      BY <1>0 DEF PortRecord, WakesUp
    <2> QED  BY <1>0, <2>1, <2>2, <2>3 DEF BestSelected
  <1>3. CASE p \notin MasterOnly
    <2> DEFINE b == BestUpTo(Telecom, ForeignDatasets(p, r, m))
               fb == FinalBest(r, m, b)
               nm == [s \in Senders |-> IF s \in Beaten(r, m, b) \ {fb} THEN <<>> ELSE m[s]]
    <2>1. q = [r EXCEPT !.best = fb, !.msgs = nm]
      BY <1>3 DEF port_compute_best, Selected
    <2> HIDE DEF b
    <2>2. fb # NULL => /\ fb \in SeqRange(r.fms) /\ fb \in Senders
                       /\ Len(m[fb]) >= FOREIGN_MASTER_THRESHOLD
      <3> HIDE DEF m
      <3>1. r.fms \in Seq(Senders)
        BY PortFields
      <3> SUFFICES ASSUME fb # NULL
                   PROVE  /\ fb \in SeqRange(r.fms) /\ fb \in Senders
                          /\ Len(m[fb]) >= FOREIGN_MASTER_THRESHOLD
        OBVIOUS
      <3>2. PICK i \in 1..Len(r.fms) :
              i = b[Len(r.fms)] /\ r.fms[i] \in Qualified(r, m)
        BY DEF FinalBest
      <3>3. fb = r.fms[i]
        BY <3>2 DEF FinalBest
      <3>4. r.fms[i] \in SeqRange(r.fms) /\ r.fms[i] \in Senders
        BY <3>1 DEF SeqRange
      <3>5. Len(m[r.fms[i]]) >= FOREIGN_MASTER_THRESHOLD
        BY <3>2 DEF Qualified
      <3> QED  BY <3>3, <3>4, <3>5
    <2>3. nm \in [Senders -> Messages] /\ nm \in [Senders -> Seq(NearAnnounces)]
      <3>1. <<>> \in Messages /\ <<>> \in Seq(NearAnnounces)
        BY DEF Messages, FOREIGN_MASTER_THRESHOLD
      <3> HIDE DEF m, fb
      <3> QED  BY <1>1, <3>1
    <2>4. fb # NULL => nm[fb] = m[fb]
      <3> HIDE DEF m, fb
      <3> QED  BY <2>2
    <2>5. fb # NULL => m[fb][1] \in NearAnnounces /\ m[fb] # <<>>
      <3> HIDE DEF m, fb
      <3>1. fb # NULL => m[fb] \in Seq(NearAnnounces) /\ 1 \in 1..Len(m[fb])
        BY <1>1, <2>2 DEF FOREIGN_MASTER_THRESHOLD
      <3> QED  BY <3>1
    <2> HIDE DEF fb, nm
    <2>6. fb \in Senders \cup {NULL}
      BY <2>2
    <2>7. [r EXCEPT !.best = fb, !.msgs = nm] \in PortRecord
      BY <2>3, <2>6 DEF PortRecord
    <2>8. /\ [r EXCEPT !.best = fb, !.msgs = nm].best = fb
          /\ [r EXCEPT !.best = fb, !.msgs = nm].msgs = nm
          /\ [r EXCEPT !.best = fb, !.msgs = nm].fms = r.fms
          /\ [r EXCEPT !.best = fb, !.msgs = nm].state = r.state
          /\ [r EXCEPT !.best = fb, !.msgs = nm].armed = r.armed
          /\ [r EXCEPT !.best = fb, !.msgs = nm].dm = r.dm
          /\ WakesUp([r EXCEPT !.best = fb, !.msgs = nm])
      BY <1>0 DEF PortRecord, WakesUp
    <2> HIDE DEF m, q
    <2>9. BestSelected(q, r)
      BY <2>1, <2>2, <2>3, <2>4, <2>5, <2>7, <2>8 DEF BestSelected
    <2> QED  BY <2>9 DEF m, q
  <1> QED  BY <1>2, <1>3

\* Every data set is better than none.
LEMMA CompareNull ==
  ASSUME NEW a
  PROVE  clock_dscmp(Telecom, a, NULL) = IF a = NULL THEN 0 ELSE 1
  BY DEF clock_dscmp, dscmp, telecom_dscmp, A_BETTER

\* The clock's own data set is one.
LEMMA DefaultDsType ==
  ASSUME dds \in DefaultDSs
  PROVE  clock_default_ds # NULL
  <1>1. dds \in GmAttributes /\ LocalPriority[0] \in Nat /\ ClockId \in Nat
    BY ConstantsAssumption
  <1>2. OwnPid \in PortIdentity
    BY <1>1 DEF OwnPid, PortIdentity
  <1>3. clock_default_ds \in Dataset
    BY <1>1, <1>2 DEF clock_default_ds, Dataset, GmAttributes
  <1> QED  BY <1>3, NullAssumption

\* The data set of the clock's best foreign master.
BestDs(q, cb) == IF cb = NULL THEN NULL ELSE port_best_foreign(cb, q[cb])

\* What bmc_state_decision's recommendations presuppose.
LEMMA DecisionFacts ==
  ASSUME dds \in DefaultDSs, NEW p, NEW q, NEW cb
  PROVE  /\ DecisionEvent(p, q, cb) = "NONE" => q[p].state = "LISTENING"
         /\ DecisionEvent(p, q, cb) = "RS_SLAVE" =>
              /\ p = cb
              /\ ~(clock_dscmp(Telecom, clock_default_ds, BestDs(q, cb)) > 0)
              /\ ~(clock_default_ds.clockClass <= 127)
         /\ DecisionEvent(p, q, cb) = "RS_GRAND_MASTER" =>
              \/ clock_dscmp(Telecom, clock_default_ds, BestDs(q, cb)) > 0
              \/ clock_default_ds.clockClass <= 127
         /\ DecisionEvent(p, q, cb) = "RS_PASSIVE" => q[p].best # NULL
  <1> DEFINE own == clock_default_ds
             best == BestDs(q, cb)
             mine == port_best_foreign(p, q[p])
             role == bmc_state_decision(Telecom, own, best, mine, p = cb, q[p].state)
  <1>1. role \in {"LISTENING", "GRAND_MASTER", "MASTER", "PASSIVE", "SLAVE"}
    BY DEF bmc_state_decision
  <1>2. /\ role = "LISTENING" => q[p].state = "LISTENING"
        /\ role = "SLAVE" => /\ p = cb /\ ~(clock_dscmp(Telecom, own, best) > 0)
                             /\ ~(own.clockClass <= 127)
        /\ role = "GRAND_MASTER" => clock_dscmp(Telecom, own, best) > 0 \/ own.clockClass <= 127
        /\ role = "PASSIVE" => \/ ~(clock_dscmp(Telecom, own, mine) > 0)
                               \/ clock_dscmp(Telecom, best, mine) = A_BETTER_TOPO
    <2> HIDE DEF own, best, mine
    <2> QED  BY DEF bmc_state_decision
  <1>3. q[p].best = NULL => /\ clock_dscmp(Telecom, own, mine) > 0
                            /\ clock_dscmp(Telecom, best, mine) # A_BETTER_TOPO
    <2>1. q[p].best = NULL => mine = NULL
      BY DEF port_best_foreign
    <2>2. own # NULL
      BY DefaultDsType
    <2> HIDE DEF own, best, mine
    <2> QED  BY <2>1, <2>2, CompareNull DEF A_BETTER_TOPO
  <1>4. DecisionEvent(p, q, cb) =
          CASE role = "LISTENING" -> "NONE"
            [] role = "GRAND_MASTER" -> "RS_GRAND_MASTER"
            [] role = "MASTER" -> "RS_MASTER"
            [] role = "PASSIVE" -> "RS_PASSIVE"
            [] role = "SLAVE" -> "RS_SLAVE"
    BY DEF DecisionEvent, BestDs
  <1> HIDE DEF own, best, mine, role
  <1> QED  BY <1>1, <1>2, <1>3, <1>4 DEF own, best

\* What dispatching the recommendation e makes of the port r.
Recommended(d, r, e) ==
  /\ d \in PortRecord /\ WakesUp(d)
  /\ d.state \in Slaving => e = "RS_SLAVE"
  /\ d.state = "PASSIVE" => e = "RS_PASSIVE"
  /\ d.state \in Following => SameMasters(d, r)
  /\ SlaveOnly => d.state \notin MasterStates
  /\ d.msgs \in [Senders -> Seq(NearAnnounces)]

\* bc_dispatch obeys a recommendation.
LEMMA RecommendFacts ==
  ASSUME NEW p, NEW r0, NEW r, BestSelected(r, r0), NEW e \in RsEvents, NEW m \in BOOLEAN,
         NEW ok \in BOOLEAN, NEW phc \in BOOLEAN,
         SlaveOnly => r0.state \notin MasterStates, e = "NONE" => r.state = "LISTENING"
  PROVE  Recommended(bc_dispatch(p, r, e, m, ok, phc), r, e)
  <1> DEFINE d == bc_dispatch(p, r, e, m, ok, phc)
             next == state_machine(r.state, e, m)
  <1>0. /\ r \in PortRecord /\ WakesUp(r) /\ r.state = r0.state
        /\ r.msgs \in [Senders -> Seq(NearAnnounces)]
    BY DEF BestSelected
  <1>1. e \in Events /\ r.state \in States
    BY <1>0, PortFields DEF Events, RsEvents
  <1>2. /\ d \in PortRecord
        /\ d.state \in Following => d.state = next /\ SameMasters(d, r)
        /\ d.state \in {"LISTENING", "FAULTY", next}
        /\ d.msgs \in {r.msgs, NoMessages}
        /\ WakesUp(d)
    BY <1>0, <1>1, DispatchFacts
  <1>3. (next \in Slaving => e = "RS_SLAVE") /\ (next = "PASSIVE" => e = "RS_PASSIVE")
    BY <1>0, <1>1, FsmYields
  <1>4. SlaveOnly => next \notin MasterStates
    BY <1>0, <1>1, FsmSlaveOnly
  <1>5. NoMessages \in [Senders -> Seq(NearAnnounces)]
    BY DEF NoMessages
  <1> HIDE DEF d, next
  <1>6. SlaveOnly => d.state \notin MasterStates
    BY <1>2, <1>4 DEF MasterStates
  <1>7. Recommended(d, r, e)
    BY <1>0, <1>2, <1>3, <1>5, <1>6 DEF Following, Recommended
  <1> QED  BY <1>7 DEF d

\* The clock's record after the decision: c0 already has the new best.
LEMMA UpdatedClockFacts ==
  ASSUME TypeOK, NEW c0 \in ClockRecord, c0.announced.stepsRemoved <= MAX_STEPS,
         NEW rec, NEW q,
         (\E p \in Ports : rec[p] = "RS_SLAVE") =>
            /\ q[c0.best].best \in Senders
            /\ q[c0.best].msgs[q[c0.best].best][1] \in NearAnnounces
  PROVE  LET c == UpdatedClock(c0, rec, q) IN
         /\ c \in ClockRecord
         /\ c.announced.stepsRemoved <= MAX_STEPS
         /\ c.best = c0.best
         /\ (\E p \in Ports : rec[p] = "RS_SLAVE")
            /\ ~(\E p \in Ports : rec[p] = "RS_GRAND_MASTER") => c.parent = q[c0.best].best
  <1> DEFINE c == UpdatedClock(c0, rec, q)
  <1>2. CASE \E p \in Ports : rec[p] = "RS_GRAND_MASTER"
    <2> DEFINE a == [priority1 |-> dds.priority1, clockClass |-> dds.clockClass,
                     clockAccuracy |-> dds.clockAccuracy, variance |-> dds.variance,
                     priority2 |-> dds.priority2, identity |-> dds.identity,
                     stepsRemoved |-> 0]
    <2>1. c = [c0 EXCEPT !.parent = OwnPid, !.announced = a]
      BY <1>2 DEF UpdatedClock, clock_update_grandmaster
    <2>2. dds \in GmAttributes
      BY ConstantsAssumption DEF TypeOK
    <2>3. a \in AnnounceMsg /\ a.stepsRemoved <= MAX_STEPS
      BY <2>2 DEF GmAttributes, AnnounceMsg, MAX_STEPS
    <2> HIDE DEF a
    <2>4. /\ [c0 EXCEPT !.parent = OwnPid, !.announced = a] \in ClockRecord
          /\ [c0 EXCEPT !.parent = OwnPid, !.announced = a].announced = a
          /\ [c0 EXCEPT !.parent = OwnPid, !.announced = a].best = c0.best
      BY <2>3 DEF ClockRecord
    <2> QED  BY <1>2, <2>1, <2>3, <2>4
  <1>3. CASE /\ ~(\E p \in Ports : rec[p] = "RS_GRAND_MASTER")
             /\ \E p \in Ports : rec[p] = "RS_SLAVE"
    <2> DEFINE b == q[c0.best].best
               msg == q[c0.best].msgs[b][1]
               a == [msg EXCEPT !.stepsRemoved = @ + 1]
    <2>1. c = [c0 EXCEPT !.parent = b, !.announced = a]
      BY <1>3 DEF UpdatedClock, clock_update_slave
    <2>2. b \in Senders /\ msg \in AnnounceMsg /\ msg.stepsRemoved < MAX_STEPS
      BY <1>3, ConstantsAssumption DEF NearAnnounces
    <2> HIDE DEF b, msg
    <2>4. a \in AnnounceMsg /\ a.stepsRemoved <= MAX_STEPS
      BY <2>2 DEF AnnounceMsg, MAX_STEPS
    <2> HIDE DEF a
    <2>3. /\ [c0 EXCEPT !.parent = b, !.announced = a] \in ClockRecord
          /\ [c0 EXCEPT !.parent = b, !.announced = a].announced = a
          /\ [c0 EXCEPT !.parent = b, !.announced = a].best = c0.best
          /\ [c0 EXCEPT !.parent = b, !.announced = a].parent = b
      BY <2>2, <2>4 DEF ClockRecord
    <2> QED  BY <2>1, <2>3, <2>4 DEF b
  <1>4. CASE /\ ~(\E p \in Ports : rec[p] = "RS_GRAND_MASTER")
             /\ ~(\E p \in Ports : rec[p] = "RS_SLAVE")
    BY <1>4 DEF UpdatedClock
  <1> QED  BY <1>2, <1>3, <1>4

\* The new record of each port is d's, made of q's, the ports with their best
\* foreign masters, by the recommendations rec; port cb has the clock's best.
Taken(q, cb, id, rec, d) ==
  /\ rec \in [Ports -> RsEvents]
  /\ cb \in Ports \cup {NULL} /\ id \in Nat \cup {NULL}
  /\ cb \in Ports => cb # NULL /\ q[cb].best # NULL
  /\ \A p \in Ports : IF cb \in 1..(p - 1) /\ d[cb].best = NULL
                      THEN rec[p] \in DanglingEvents(p, q)
                      ELSE rec[p] = DecisionEvent(p, q, cb)
  /\ port' = [p \in Ports |-> d[p]]
  /\ clk' = UpdatedClock([clk EXCEPT !.best = cb, !.bestId = id], rec, q)
  /\ \A p \in Ports :
       /\ BestSelected(q[p], port[p])
       /\ rec[p] = "NONE" => q[p].state = "LISTENING"
       /\ rec[p] = "RS_SLAVE" => p = cb
       /\ rec[p] = "RS_PASSIVE" => q[p].best # NULL
       /\ \E m \in BOOLEAN, ok \in BOOLEAN, phc \in BOOLEAN :
            d[p] = bc_dispatch(p, q[p], rec[p], m, ok, phc)

\* What handle_state_decision_event chooses and does.
LEMMA DecisionTaken ==
  ASSUME IInv, handle_state_decision_event
  PROVE  \E q, cb, id, rec, d : Taken(q, cb, id, rec, d)
  <1>1. PICK k, iok, pok, q, cb :
          /\ k \in PruneChoices
          /\ iok \in [Ports -> Success(InitMayFail)]
          /\ pok \in [Ports -> Success(PhcMayFail)]
          /\ \A p \in Ports, s \in Senders : k[p][s] <= Len(port[p].msgs[s])
          /\ q = [p \in Ports |-> port_compute_best(p, port[p], Pruned(port[p], k[p]))]
          /\ cb = ClockBest(q)
          /\ Decide(q, cb, iok, pok)
    BY DEF handle_state_decision_event
  <1>2. PICK id \in {IF cb = NULL THEN ClockId ELSE port_best_foreign(cb, q[cb]).identity} :
          \E decided \in {[p \in Ports |-> DecisionEvent(p, q, cb)]} :
          \E rec \in Recommendations(decided, cb) :
          \E d \in {[p \in Ports |-> bc_dispatch(p, q[p], rec[p], id # clk.bestId,
                                                 iok[p], pok[p])]} :
            TakeDecision(q, cb, id, decided, rec, d)
    BY <1>1 DEF Decide
  <1>3. PICK decided \in {[p \in Ports |-> DecisionEvent(p, q, cb)]} :
          \E rec \in Recommendations(decided, cb) :
          \E d \in {[p \in Ports |-> bc_dispatch(p, q[p], rec[p], id # clk.bestId,
                                                 iok[p], pok[p])]} :
            TakeDecision(q, cb, id, decided, rec, d)
    BY <1>2
  <1>4. PICK rec \in Recommendations(decided, cb) :
          \E d \in {[p \in Ports |-> bc_dispatch(p, q[p], rec[p], id # clk.bestId,
                                                 iok[p], pok[p])]} :
            TakeDecision(q, cb, id, decided, rec, d)
    BY <1>3
  <1>5. PICK d \in {[p \in Ports |-> bc_dispatch(p, q[p], rec[p], id # clk.bestId,
                                                 iok[p], pok[p])]} :
           TakeDecision(q, cb, id, decided, rec, d)
    BY <1>4
  <1> rec \in [Ports -> RsEvents]
    BY DEF Recommendations
  <1> DEFINE m == id # clk.bestId
             c0 == [clk EXCEPT !.best = cb, !.bestId = id]
  <1>6. /\ \A p \in Ports : IF cb \in 1..(p - 1) /\ d[cb].best = NULL
                            THEN rec[p] \in DanglingEvents(p, q)
                            ELSE rec[p] = DecisionEvent(p, q, cb)
        /\ port' = [p \in Ports |-> d[p]]
        /\ clk' = UpdatedClock(c0, rec, q)
    BY <1>3, <1>5 DEF TakeDecision
  <1>7. ASSUME NEW p \in Ports
        PROVE  BestSelected(q[p], port[p])
    <2>1. port[p] \in PortRecord /\ Sound(p, port[p], clk)
      BY PortOf
    <2>2. Prunes(k[p], port[p])
      BY <1>1 DEF PruneChoices, Prunes
    <2>3. q[p] = port_compute_best(p, port[p], Pruned(port[p], k[p]))
      BY <1>1
    <2>4. BestSelected(port_compute_best(p, port[p], Pruned(port[p], k[p])), port[p])
      BY <2>1, <2>2, ComputeBestFacts
    <2> QED  BY <2>3, <2>4
  <1>8. /\ cb \in Ports \cup {NULL}
        /\ cb \in Ports => cb # NULL /\ q[cb].best # NULL
    <2>1. NULL \notin Ports
      BY NullAssumption, ConstantsAssumption DEF Ports
    <2> QED  BY <1>1, <2>1 DEF ClockBest
  <1>9. id \in Nat \cup {NULL}
    <2>1. CASE cb = NULL
      BY <1>2, <2>1, ConstantsAssumption
    <2>2. CASE cb # NULL
      <3>1. cb \in Ports /\ q[cb].best # NULL
        BY <1>8, <2>2
      <3>2. q[cb].msgs[q[cb].best][1] \in Announces
        BY <1>7, <3>1 DEF NearAnnounces, BestSelected
      <3>3. q[cb].msgs[q[cb].best][1].identity \in Nat
        BY <3>2, ConstantsAssumption DEF AnnounceMsg
      <3>4. port_best_foreign(cb, q[cb]).identity = q[cb].msgs[q[cb].best][1].identity
        BY <3>1 DEF port_best_foreign, announce_to_dataset
      <3> QED  BY <1>2, <2>2, <3>3, <3>4
    <2> QED  BY <2>1, <2>2
  <1>10. m \in BOOLEAN
    OBVIOUS
  <1>11. ASSUME NEW p \in Ports
        PROVE  /\ rec[p] = "NONE" => q[p].state = "LISTENING"
               /\ rec[p] = "RS_SLAVE" => p = cb
               /\ rec[p] = "RS_PASSIVE" => q[p].best # NULL
    <2>1. CASE rec[p] = DecisionEvent(p, q, cb)
      <3>1. dds \in DefaultDSs
        BY DEF IInv, TypeOK
      <3> QED  BY <2>1, <3>1, DecisionFacts
    <2>2. CASE rec[p] \in DanglingEvents(p, q)
      BY <2>2 DEF DanglingEvents
    <2> QED  BY <1>6, <2>1, <2>2
  <1>12. ASSUME NEW p \in Ports
        PROVE  \E x \in BOOLEAN, ok \in BOOLEAN, phc \in BOOLEAN :
                 d[p] = bc_dispatch(p, q[p], rec[p], x, ok, phc)
    <2>1. iok[p] \in BOOLEAN /\ pok[p] \in BOOLEAN
      BY <1>1, SuccessType, ConstantsAssumption
    <2>2. d[p] = bc_dispatch(p, q[p], rec[p], m, iok[p], pok[p])
      BY <1>5
    <2> HIDE DEF m
    <2> QED  BY <1>10, <2>1, <2>2
  <1>13. Taken(q, cb, id, rec, d)
    BY <1>6, <1>7, <1>8, <1>9, <1>11, <1>12 DEF Taken
  <1> QED  BY <1>13

\* Every port obeys its recommendation.
LEMMA TakenObeyed ==
  ASSUME IInv, NEW q, NEW cb, NEW id, NEW rec, NEW d, Taken(q, cb, id, rec, d), NEW p \in Ports
  PROVE  Recommended(d[p], q[p], rec[p])
  <1>1. PICK m \in BOOLEAN, ok \in BOOLEAN, phc \in BOOLEAN :
          d[p] = bc_dispatch(p, q[p], rec[p], m, ok, phc)
    BY DEF Taken
  <1>2. SlaveOnly => port[p].state \notin MasterStates
    BY PortOf DEF Sound
  <1>3. /\ rec[p] \in RsEvents /\ (rec[p] = "NONE" => q[p].state = "LISTENING")
        /\ BestSelected(q[p], port[p])
    BY DEF Taken
  <1>4. Recommended(bc_dispatch(p, q[p], rec[p], m, ok, phc), q[p], rec[p])
    BY <1>2, <1>3, RecommendFacts
  <1> QED  BY <1>1, <1>4

\* The whole state decision keeps the invariant.
LEMMA DecisionSound ==
  ASSUME IInv, handle_state_decision_event
  PROVE  /\ port' \in [Ports -> PortRecord] /\ clk' \in ClockRecord
         /\ clk'.announced.stepsRemoved <= MAX_STEPS
         /\ \A p \in Ports : Sound(p, port'[p], clk')
  <1>1. PICK q, cb, id, rec, d : Taken(q, cb, id, rec, d)
    BY DecisionTaken
  <1> DEFINE c0 == [clk EXCEPT !.best = cb, !.bestId = id]
  <1>6. /\ \A p \in Ports : IF cb \in 1..(p - 1) /\ d[cb].best = NULL
                            THEN rec[p] \in DanglingEvents(p, q)
                            ELSE rec[p] = DecisionEvent(p, q, cb)
        /\ port' = [p \in Ports |-> d[p]]
        /\ clk' = UpdatedClock(c0, rec, q)
    BY <1>1 DEF Taken
  <1>7. \A p \in Ports : BestSelected(q[p], port[p])
    BY <1>1 DEF Taken
  <1>8. /\ cb \in Ports \cup {NULL} /\ rec \in [Ports -> RsEvents]
        /\ cb \in Ports => cb # NULL /\ q[cb].best # NULL
    BY <1>1 DEF Taken
  <1>9. id \in Nat \cup {NULL}
    BY <1>1 DEF Taken
  <1>11. \A p \in Ports : /\ rec[p] = "NONE" => q[p].state = "LISTENING"
                          /\ rec[p] = "RS_SLAVE" => p = cb
                          /\ rec[p] = "RS_PASSIVE" => q[p].best # NULL
    BY <1>1 DEF Taken
  <1>12. \A p \in Ports : Recommended(d[p], q[p], rec[p])
    BY <1>1, TakenObeyed
  <1>13. (\E p \in Ports : rec[p] = "RS_SLAVE") =>
           /\ cb \in Ports /\ q[cb].best \in Senders
           /\ q[cb].msgs[q[cb].best][1] \in NearAnnounces
    BY <1>7, <1>8, <1>11 DEF BestSelected
  <1>14. c0 \in ClockRecord /\ c0.best = cb /\ c0.announced.stepsRemoved <= MAX_STEPS
    BY <1>8, <1>9 DEF IInv, TypeOK, AnnouncedDistance, ClockRecord
  <1> HIDE DEF c0
  <1>15. /\ clk' \in ClockRecord /\ clk'.announced.stepsRemoved <= MAX_STEPS
         /\ clk'.best = cb
         /\ (\E p \in Ports : rec[p] = "RS_SLAVE")
            /\ ~(\E p \in Ports : rec[p] = "RS_GRAND_MASTER") => clk'.parent = q[cb].best
    <2>1. TypeOK
      BY DEF IInv
    <2> QED  BY <1>6, <1>13, <1>14, <2>1, UpdatedClockFacts
  <1>16. ASSUME NEW p \in Ports, d[p].state \in Slaving
         PROVE  clk'.best = p /\ clk'.parent = d[p].best
    <2>1. rec[p] = "RS_SLAVE" /\ p = cb /\ SameMasters(d[p], q[p])
      BY <1>11, <1>12, <1>16 DEF Following, Recommended
    <2>2. d[cb].best # NULL
      BY <1>8, <2>1 DEF SameMasters
    <2>3. \A x \in Ports : rec[x] = DecisionEvent(x, q, cb)
      BY <1>6, <2>2
    <2>4. dds \in DefaultDSs
      BY DEF IInv, TypeOK
    <2>5. /\ ~(clock_dscmp(Telecom, clock_default_ds, BestDs(q, cb)) > 0)
          /\ ~(clock_default_ds.clockClass <= 127)
      BY <2>1, <2>3, <2>4, DecisionFacts
    <2>6. ~(\E x \in Ports : rec[x] = "RS_GRAND_MASTER")
      BY <2>3, <2>4, <2>5, DecisionFacts
    <2> QED  BY <1>15, <2>1, <2>6 DEF SameMasters
  <1>17. ASSUME NEW p \in Ports, d[p].state \in Following
         PROVE  d[p].best \in SeqRange(d[p].fms)
    <2>1. q[p].best # NULL /\ SameMasters(d[p], q[p])
      BY <1>8, <1>11, <1>12, <1>17 DEF Following, Recommended
    <2> QED  BY <1>7, <2>1 DEF SameMasters, BestSelected
  <1>18. ASSUME NEW p \in Ports
         PROVE  port'[p] \in PortRecord /\ Sound(p, port'[p], clk')
    <2>1. port'[p] = d[p]
      BY <1>6
    <2>2. Recommended(d[p], q[p], rec[p])
      BY <1>12
    <2>3. Sound(p, d[p], clk')
      BY <1>16, <1>17, <2>2 DEF Sound, SameMasters, Recommended
    <2> QED  BY <2>1, <2>2, <2>3 DEF Recommended
  <1>19. port' \in [Ports -> PortRecord]
    BY <1>6, <1>18
  <1> QED  BY <1>15, <1>18, <1>19

-----------------------------------------------------------------------------
(* The invariant is inductive.                                             *)

\* What a pass ends with: the decision, if one is due, and the next snapshot.
LEMMA EndPassSound ==
  ASSUME IInv, EndPass
  PROVE  IInv'
  <1>1. /\ port' \in [Ports -> PortRecord] /\ clk' \in ClockRecord
        /\ clk'.announced.stepsRemoved <= MAX_STEPS
        /\ \A p \in Ports : Sound(p, port'[p], clk')
    <2>1. CASE sde
      BY <2>1, DecisionSound DEF EndPass
    <2>2. CASE ~sde
      <3>1. port' = port /\ clk' = clk
        BY <2>2 DEF EndPass
      <3>2. ASSUME NEW p \in Ports
            PROVE  port'[p] \in PortRecord /\ Sound(p, port'[p], clk)
        BY <3>1, PortOf
      <3>3. port' \in [Ports -> PortRecord]
        BY <3>1 DEF IInv, TypeOK
      <3>4. clk \in ClockRecord /\ clk.announced.stepsRemoved <= MAX_STEPS
        BY DEF IInv, TypeOK, AnnouncedDistance
      <3> QED  BY <3>1, <3>2, <3>3, <3>4
    <2> QED  BY <2>1, <2>2 DEF IInv, TypeOK
  <1>2. snap' \in [Ports -> SUBSET (Timers \cup {"FAULT"})]
    <2>1. \A p \in Ports : port'[p].armed \in SUBSET Timers
      BY <1>1 DEF PortRecord
    <2> QED  BY <2>1 DEF EndPass
  <1>3. dds' \in DefaultDSs /\ sde' \in BOOLEAN /\ pos' \in 0..UdsSlot
    <2>1. dds' = dds /\ sde' = FALSE /\ pos' = 0
      BY DEF EndPass
    <2>2. 0 \in 0..UdsSlot /\ dds \in DefaultDSs
      BY ConstantsAssumption DEF IInv, TypeOK, UdsSlot
    <2> QED  BY <2>1, <2>2
  <1> QED  BY <1>1, <1>2, <1>3 DEF IInv, TypeOK, AnnouncedDistance, ClockRecord

\* What clock_create leaves.
LEMMA InitSound == Init => IInv
  <1> SUFFICES ASSUME Init
               PROVE  IInv
    OBVIOUS
  <1>1. dds \in DefaultDSs /\ dds \in GmAttributes
    BY ConstantsAssumption DEF Init
  <1>2. clk \in ClockRecord /\ clk.announced.stepsRemoved <= MAX_STEPS
    <2> DEFINE a == [priority1 |-> dds.priority1, clockClass |-> dds.clockClass,
                     clockAccuracy |-> dds.clockAccuracy, variance |-> dds.variance,
                     priority2 |-> dds.priority2, identity |-> dds.identity,
                     stepsRemoved |-> 0]
    <2>1. a \in AnnounceMsg /\ a.stepsRemoved <= MAX_STEPS
      BY <1>1 DEF GmAttributes, AnnounceMsg, MAX_STEPS
    <2>2. clk = [best |-> NULL, bestId |-> NULL, parent |-> OwnPid, announced |-> a]
      BY DEF Init, clock_update_grandmaster
    <2> HIDE DEF a
    <2> QED  BY <2>1, <2>2 DEF ClockRecord
  <1>3. PICK ok \in [Ports -> Success(InitMayFail)] :
          port = [p \in Ports |->
                    bc_dispatch(p, port_open(p), "INITIALIZE", FALSE, ok[p], TRUE)]
    BY DEF Init
  <1>4. ASSUME NEW p \in Ports
        PROVE  port[p] \in PortRecord /\ Sound(p, port[p], clk)
    <2> DEFINE o == port_open(p)
               d == bc_dispatch(p, o, "INITIALIZE", FALSE, ok[p], TRUE)
    <2>1. NoMessages \in [Senders -> Messages] /\ NoMessages \in [Senders -> Seq(NearAnnounces)]
      BY NoMessagesType DEF NoMessages
    <2>2. o \in PortRecord
      BY <2>1, ConstantsAssumption
      DEF port_open, PortRecord, States, FaultTypes
    <2>3. Sound(p, o, clk)
      BY <2>1 DEF port_open, Sound, WakesUp, Slaving, Mastering, Following, MasterStates
    <2>4. ok[p] \in BOOLEAN /\ "INITIALIZE" \in PortEvents
      BY SuccessType, ConstantsAssumption DEF PortEvents, Events
    <2> HIDE DEF o
    <2>5. d \in PortRecord /\ Sound(p, d, clk)
      BY <2>2, <2>3, <2>4, DispatchSound
    <2> HIDE DEF d
    <2>6. port[p] = d
      BY <1>3 DEF d, o
    <2> QED  BY <2>5, <2>6
  <1>5. port \in [Ports -> PortRecord]
    BY <1>3, <1>4
  <1>6. snap \in [Ports -> SUBSET (Timers \cup {"FAULT"})]
    <2>1. \A p \in Ports : port[p].armed \in SUBSET Timers
      BY <1>4 DEF PortRecord
    <2> QED  BY <2>1 DEF Init
  <1>7. sde \in BOOLEAN /\ pos \in 0..UdsSlot
    <2>1. sde = FALSE /\ pos = 0
      BY DEF Init
    <2>2. 0 \in 0..UdsSlot
      BY ConstantsAssumption DEF UdsSlot
    <2> QED  BY <2>1, <2>2
  <1> QED  BY <1>1, <1>2, <1>4, <1>5, <1>6, <1>7 DEF IInv, TypeOK, AnnouncedDistance

\* A stuttering step changes nothing.
LEMMA StutterSound == IInv /\ UNCHANGED vars => IInv'
  BY DEF IInv, TypeOK, AnnouncedDistance, Sound, WakesUp, vars, ClockRecord

\* The inductive invariant holds in every reachable state.
THEOREM Invariance == Spec => []IInv
  <1>1. Init => IInv
    BY InitSound
  <1>2. IInv /\ [Next]_vars => IInv'
    <2> SUFFICES ASSUME IInv, [Next]_vars
                 PROVE  IInv'
      OBVIOUS
    <2>1. ASSUME NEW p \in Ports, PortNext(p)
          PROVE  IInv'
      BY <2>1, PortNextSound
    <2>2. ASSUME NEW d \in DefaultDSs, Manage(d)
          PROVE  IInv'
      BY <2>2, ManageSound
    <2>3. CASE EndPass
      BY <2>3, EndPassSound
    <2>4. CASE UNCHANGED vars
      BY <2>4, StutterSound
    <2> QED  BY <2>1, <2>2, <2>3, <2>4 DEF Next
  <1> QED  BY <1>1, <1>2, PTL DEF Spec

-----------------------------------------------------------------------------
(* The theorems.                                                           *)

\* Every variable keeps its type: in particular no list of announce messages
\* grows past FOREIGN_MASTER_THRESHOLD + 1 (fc_prune, add_foreign_master).
THEOREM TypeCorrect == Spec => []TypeOK
  <1>1. IInv => TypeOK
    BY DEF IInv
  <1> QED  BY <1>1, Invariance, PTL

\* A port that follows a master follows the clock's parent, through the port
\* the clock took for its best (handle_state_decision_event, clock_update_slave).
THEOREM FollowsParentTheorem == Spec => []FollowsParent
  <1>1. IInv => FollowsParent
    <2> SUFFICES ASSUME IInv, NEW p \in Ports, port[p].state \in Slaving
                 PROVE  clk.best = p /\ port[p].best # NULL /\ clk.parent = port[p].best
      BY DEF FollowsParent
    <2>1. clk.best = p /\ clk.parent = port[p].best
      BY DEF IInv, Sound
    <2>2. clk.parent \in Senders \cup {OwnPid}
      BY DEF IInv, TypeOK, ClockRecord
    <2>3. OwnPid \in PortIdentity
      BY ConstantsAssumption DEF OwnPid, PortIdentity
    <2> QED  BY <2>1, <2>2, <2>3, ConstantsAssumption, NullAssumption
  <1> QED  BY <1>1, Invariance, PTL

\* At most one port follows a master: two such ports would both be the
\* clock's best.
THEOREM OneSlaveTheorem == Spec => []OneSlave
  <1>1. IInv => OneSlave
    BY DEF IInv, Sound, OneSlave
  <1> QED  BY <1>1, Invariance, PTL

\* update_current_master never meets a port without a best foreign master.
THEOREM CurrentMasterTheorem == Spec => []CurrentMasterExists
  <1>1. IInv => CurrentMasterExists
    BY DEF IInv, Sound, CurrentMasterExists, Following
  <1> QED  BY <1>1, Invariance, PTL

\* No port is left in a state without the timers that take it out of it.
THEOREM TimersRunTheorem == Spec => []TimersRun
  <1>1. IInv => TimersRun
    BY DEF IInv, Sound, TimersRun
  <1> QED  BY <1>1, Invariance, PTL

\* The distance the clock announces never exceeds the protocol's limit.
THEOREM AnnouncedDistanceTheorem == Spec => []AnnouncedDistance
  <1>1. IInv => AnnouncedDistance
    BY DEF IInv
  <1> QED  BY <1>1, Invariance, PTL

-----------------------------------------------------------------------------
(* What the roles allow.                                                   *)

\* The states of a port that leads its network or is about to.
Leading == Mastering \cup {"PRE_MASTER"}

-----------------------------------------------------------------------------
(* The inductive invariants.                                               *)

\* The timers of port r that depend on its role.
RoleTimers(r) ==
  /\ r.state # "INITIALIZING"
  /\ r.dm = "P2P" /\ r.state \in Enabled => "DELAY" \in r.armed
  /\ "DELAY" \in r.armed /\ r.dm # "P2P" => r.state \in Slaving
  /\ "MANNO" \in r.armed \/ "SYNC_TX" \in r.armed => r.state \in Mastering

\* A port that follows a master has a message of it.
HasMessage(r) == r.state \in Slaving => r.msgs[r.best] # <<>>

\* What the timers found expired at the snapshot sn may do to port p, whose record
\* is r, in a pass that has come to slot at: their states have not changed since.
Timely(p, r, at, sn) ==
  r.state \in Enabled =>
    /\ "DELAY" \in sn /\ at < Slot(p, "DELAY") /\ r.dm # "P2P" => r.state \in Slaving
    /\ \A t \in {"MANNO", "SYNC_TX"} : t \in sn /\ at < Slot(p, t) => r.state \in Mastering

Quiet == \A p \in Ports : /\ RoleTimers(port[p]) /\ HasMessage(port[p])
                          /\ Timely(p, port[p], pos, snap[p])

-----------------------------------------------------------------------------
(* The state machines.                                                     *)

\* The events that a running port dispatches.
RunEvents == Events \ {"INITIALIZE", "POWERUP"}

\* Only the recovery from a fault initialises a running port, and an enabled one
\* was enabled.
LEMMA FsmRuns ==
  ASSUME NEW s \in States \ {"INITIALIZING"}, NEW e \in RunEvents, NEW m \in BOOLEAN
  PROVE  /\ state_machine(s, e, m) = "INITIALIZING" =>
              s \notin Enabled /\ e \in {"FAULT_CLEARED", "DESIGNATED_ENABLED"}
         /\ state_machine(s, e, m) \in Enabled => s \in Enabled
  BY DEF state_machine, ptp_fsm, ptp_slave_fsm, CommonFsm, States, RunEvents, Events,
         CommonEvents, Enabled, Slaving, SlaveOnlyEnabled

\* Which roles the events of a port leave alone.
LEMMA FsmRoles ==
  ASSUME NEW s \in States \ {"INITIALIZING"}, NEW e \in RunEvents \cap PortEvents, NEW m \in BOOLEAN
  PROVE  /\ s \in Mastering /\ state_machine(s, e, m) \in Enabled =>
              state_machine(s, e, m) \in Mastering
         /\ s \in Slaving /\ e # "ANNOUNCE_RECEIPT_TIMEOUT_EXPIRES"
            /\ state_machine(s, e, m) \in Enabled => state_machine(s, e, m) \in Slaving
         /\ s \in Slaving /\ e \in {"ANNOUNCE_RECEIPT_TIMEOUT_EXPIRES", "FAULT_DETECTED"}
            => state_machine(s, e, m) \notin Slaving
  BY DEF state_machine, ptp_fsm, ptp_slave_fsm, CommonFsm, States, RunEvents, PortEvents, Events,
         CommonEvents, Enabled, Slaving, SlaveOnlyEnabled, Mastering

\* Of the port's own events only a receipt timeout makes it lead.
LEMMA FsmLeads ==
  ASSUME NEW s \in States, NEW e \in PortEvents, NEW m \in BOOLEAN
  PROVE  state_machine(s, e, m) \in Leading =>
           s \in Leading \/ e = "ANNOUNCE_RECEIPT_TIMEOUT_EXPIRES"
  BY DEF state_machine, ptp_fsm, ptp_slave_fsm, CommonFsm, States, PortEvents, Events,
         CommonEvents, Enabled, Slaving, SlaveOnlyEnabled, Leading, Mastering

\* A port that is to follow, or to be passive, does not lead.
LEMMA FsmObeys ==
  ASSUME NEW s \in States, NEW e \in {"RS_SLAVE", "RS_PASSIVE"}, NEW m \in BOOLEAN,
         SlaveOnly => s \notin MasterStates
  PROVE  state_machine(s, e, m) \notin Leading
  BY DEF state_machine, ptp_fsm, ptp_slave_fsm, CommonFsm, States, CommonEvents, Enabled,
         Slaving, SlaveOnlyEnabled, Leading, Mastering, MasterStates

-----------------------------------------------------------------------------
(* Moving a port where no fault is cleared at once.                        *)

\* Port d is made of port r, whose state machine's answer was next.
Moved(d, r, next) ==
  /\ RoleTimers(d)
  /\ d.dm = r.dm
  /\ d.state \in Enabled => d.state = next \/ next = "INITIALIZING"

\* port_state_update: a port is initialised, or has a new state and nothing else.
LEMMA UpdateShape ==
  ASSUME AsapFaults = {}, NEW r \in PortRecord, NEW e \in Events, NEW m \in BOOLEAN,
         NEW ok \in BOOLEAN, state_machine(r.state, e, m) = "INITIALIZING" => r.state \notin Enabled
  PROVE  LET u == port_state_update(r, e, m, ok)
             next == state_machine(r.state, e, m)
         IN /\ u \in PortRecord /\ u.dm = r.dm /\ u.state # "INITIALIZING"
            /\ next # "INITIALIZING" => u.state = next /\ u.armed = r.armed
            /\ next = "INITIALIZING" =>
                 u.state \in {"LISTENING", "FAULTY"} /\ (u.state = "FAULTY" => u.armed = r.armed)
  <1> DEFINE u == port_state_update(r, e, m, ok)
             next == state_machine(r.state, e, m)
             last == IF ok THEN "LISTENING" ELSE "FAULTY"
  <1>1. u = EnterState(r, next, ok)
    BY DEF port_state_update, AsapCleared
  <1>2. next \in States
    BY PortFields, FsmType
  <1>3. u \in PortRecord
    BY UpdateFacts
  <1> HIDE DEF next, u
  <1>4. CASE next # "INITIALIZING"
    <2>1. u = [r EXCEPT !.state = next]
      BY <1>1, <1>4 DEF EnterState
    <2>2. u.state = next /\ u.armed = r.armed /\ u.dm = r.dm
      BY <2>1 DEF PortRecord
    <2> QED  BY <1>3, <1>4, <2>2 DEF u, next
  <1>5. CASE next = "INITIALIZING"
    <2>1. r.state \notin Enabled
      BY <1>5 DEF next
    <2> DEFINE i == port_initialize(r, ok)
    <2>2. i \in PortRecord /\ i.dm = r.dm /\ (~ok => i.armed = r.armed)
      BY DEF port_initialize, PortRecord, FaultTypes, Timers
    <2>3. state_machine("INITIALIZING", IF ok THEN "INIT_COMPLETE" ELSE "FAULT_DETECTED", FALSE)
            = last
      BY FsmInit
    <2> HIDE DEF i, last
    <2>4. u = [i EXCEPT !.state = last]
      BY <1>1, <1>5, <2>1, <2>3 DEF EnterState, Initialized, i
    <2>5. u.state = last /\ u.armed = i.armed /\ u.dm = i.dm
      BY <2>2, <2>4 DEF PortRecord
    <2>6. u.state \in {"LISTENING", "FAULTY"} /\ (u.state = "FAULTY" => u.armed = r.armed)
      BY <2>2, <2>5 DEF last
    <2> QED  BY <1>3, <1>5, <2>2, <2>5, <2>6 DEF u, next
  <1> QED  BY <1>4, <1>5

\* port_e2e_transition and port_p2p_transition give a port the timers of its role.
LEMMA TransitionTimers ==
  ASSUME NEW u \in PortRecord, u.state # "INITIALIZING",
         u.dm = "P2P" /\ u.state \in Enabled \ {"LISTENING"} => "DELAY" \in u.armed
  PROVE  LET d == port_transition(u)
         IN RoleTimers(d) /\ d.state = u.state /\ d.dm = u.dm
  <1> DEFINE d == port_transition(u)
             new == Started(u.state, u.dm) \cup (IF u.dm = "P2P" THEN u.armed \cap {"DELAY"} ELSE {})
  <1>1. CASE u.state \in {"FAULTY", "DISABLED"}
    <2>1. d = port_disable(u)
      BY <1>1 DEF port_transition
    <2> HIDE DEF d
    <2>2. d.armed = {} /\ d.state = u.state /\ d.dm = u.dm
      BY <2>1 DEF port_disable, PortRecord
    <2>3. RoleTimers(d)
      BY <1>1, <2>2 DEF RoleTimers, Enabled
    <2> QED  BY <2>2, <2>3 DEF d
  <1>2. CASE u.state \notin {"FAULTY", "DISABLED"}
    <2>1. d = [u EXCEPT !.armed = new]
      BY <1>2 DEF port_transition
    <2>2. u.state \in States
      BY PortFields
    <2>3. u.dm = "P2P" => "DELAY" \in new
      BY <1>2, <2>2 DEF Started, Enabled, Slaving, Mastering
    <2>4. "DELAY" \in new /\ u.dm # "P2P" => u.state \in Slaving
      BY DEF Started, Slaving, Mastering
    <2>5. "MANNO" \in new \/ "SYNC_TX" \in new => u.state \in Mastering
      BY DEF Started, Slaving, Mastering
    <2> HIDE DEF new, d
    <2>6. d.armed = new /\ d.state = u.state /\ d.dm = u.dm
      BY <2>1 DEF PortRecord
    <2>7. RoleTimers(d)
      BY <2>3, <2>4, <2>5, <2>6 DEF RoleTimers
    <2> QED  BY <2>6, <2>7 DEF d
  <1> QED  BY <1>1, <1>2

\* A port has the timers of its role after a move, if it had them or is new.
LEMMA MoveQuiet ==
  ASSUME AsapFaults = {}, NEW r \in PortRecord, NEW e \in Events, NEW m \in BOOLEAN,
         NEW ok \in BOOLEAN,
         \/ RoleTimers(r) /\ e \in RunEvents
         \/ r.state = "INITIALIZING" /\ e = "INITIALIZE"
  PROVE  Moved(MovePort(r, e, m, ok), r, state_machine(r.state, e, m))
  <1> DEFINE u == port_state_update(r, e, m, ok)
             next == state_machine(r.state, e, m)
             d == MovePort(r, e, m, ok)
  <1>1. r.state \in States
    BY PortFields
  <1>2. next = "INITIALIZING" => r.state \notin Enabled
    BY <1>1, FsmRuns DEF RoleTimers, Enabled
  <1>3. /\ u \in PortRecord /\ u.dm = r.dm /\ u.state # "INITIALIZING"
        /\ next # "INITIALIZING" => u.state = next /\ u.armed = r.armed
        /\ next = "INITIALIZING" =>
             u.state \in {"LISTENING", "FAULTY"} /\ (u.state = "FAULTY" => u.armed = r.armed)
    BY <1>2, UpdateShape
  <1>4. d = IF u.state = r.state THEN u ELSE port_transition(u)
    BY DEF MovePort, Transitioned
  <1>5. r.state = "INITIALIZING" /\ e = "INITIALIZE" => next = "INITIALIZING"
    BY DEF state_machine, ptp_fsm, ptp_slave_fsm, CommonFsm, CommonEvents
  <1>6. r.state # "INITIALIZING" /\ e \in RunEvents /\ next \in Enabled => r.state \in Enabled
    BY <1>1, FsmRuns
  <1> HIDE DEF u, next, d
  <1>7. CASE u.state = r.state
    <2>1. d = u /\ RoleTimers(r)
      BY <1>3, <1>4, <1>7
    <2>2. u.armed = r.armed
      BY <1>2, <1>3, <1>7 DEF Enabled, States
    <2>3. RoleTimers(u)
      BY <1>3, <1>7, <2>1, <2>2 DEF RoleTimers
    <2> QED  BY <1>3, <2>1, <2>3 DEF Moved, d, next
  <1>8. CASE u.state # r.state
    <2>1. d = port_transition(u)
      BY <1>4, <1>8
    <2>2. u.dm = "P2P" /\ u.state \in Enabled \ {"LISTENING"} => "DELAY" \in u.armed
      BY <1>3, <1>5, <1>6 DEF RoleTimers, Enabled
    <2>3. RoleTimers(d) /\ d.state = u.state /\ d.dm = u.dm
      BY <1>3, <2>1, <2>2, TransitionTimers
    <2> QED  BY <1>3, <2>3 DEF Moved, d, next
  <1> QED  BY <1>7, <1>8

\* So it has after bc_dispatch, which may also fault the port.
LEMMA DispatchQuiet ==
  ASSUME AsapFaults = {}, NEW p, NEW r \in PortRecord, NEW e \in Events, NEW m \in BOOLEAN,
         NEW ok \in BOOLEAN, NEW phc \in BOOLEAN,
         \/ RoleTimers(r) /\ e \in RunEvents
         \/ r.state = "INITIALIZING" /\ e = "INITIALIZE"
  PROVE  Moved(bc_dispatch(p, r, e, m, ok, phc), r, state_machine(r.state, e, m))
  <1> DEFINE d == MovePort(r, e, m, ok)
             next == state_machine(r.state, e, m)
             f == [d EXCEPT !.lastFault = "SWITCH_PHC"]
             g == MovePort(f, "FAULT_DETECTED", FALSE, ok)
  <1>1. Moved(d, r, next) /\ d \in PortRecord
    BY MoveQuiet, MoveFacts
  <1> HIDE DEF d, next
  <1>2. CASE ~(p \in Jbod /\ d.state = "UNCALIBRATED" /\ d.state # r.state /\ ~phc)
    <2>1. bc_dispatch(p, r, e, m, ok, phc) = d
      BY <1>2 DEF bc_dispatch, SwitchPhc, d
    <2> QED  BY <1>1, <2>1 DEF next
  <1>3. CASE p \in Jbod /\ d.state = "UNCALIBRATED" /\ d.state # r.state /\ ~phc
    <2>1. bc_dispatch(p, r, e, m, ok, phc) = g
      BY <1>3 DEF bc_dispatch, SwitchPhc, d
    <2>2. /\ f \in PortRecord /\ f.state = "UNCALIBRATED" /\ f.armed = d.armed
          /\ f.dm = d.dm
      BY <1>1, <1>3 DEF PortRecord, FaultTypes
    <2>3. RoleTimers(f)
      BY <1>1, <1>3, <2>2 DEF Moved, RoleTimers
    <2>4. state_machine("UNCALIBRATED", "FAULT_DETECTED", FALSE) = "FAULTY"
      BY FsmInit
    <2> HIDE DEF f
    <2>5. "FAULT_DETECTED" \in RunEvents /\ "FAULT_DETECTED" \in Events
      BY DEF RunEvents, Events
    <2>6. Moved(g, f, "FAULTY")
      BY <2>2, <2>3, <2>4, <2>5, MoveQuiet
    <2> HIDE DEF g
    <2>7. Moved(g, r, next)
      BY <1>1, <2>2, <2>6 DEF Moved, Enabled
    <2> QED  BY <2>1, <2>7 DEF next
  <1> QED  BY <1>2, <1>3

-----------------------------------------------------------------------------
(* One descriptor of one port.                                             *)

\* The order of the descriptors (fd.h), as far as it matters.
LEMMA SlotOrder ==
  ASSUME NEW p \in Ports, NEW f \in Descriptors, NEW at \in Nat, at >= Slot(p, f)
  PROVE  /\ f # "EVENT" => at >= Slot(p, "GENERAL")
         /\ f \in {"RTNL", "FAULT"} => ~(at < Slot(p, "DELAY"))
         /\ f \in {"RTNL", "FAULT"} => \A t \in {"MANNO", "SYNC_TX"} : ~(at < Slot(p, t))
         /\ at < Slot(p, "DELAY") => f \in {"EVENT", "GENERAL"}
         /\ f # "FAULT" => Slot(p, f) <= Slot(p, "RTNL")
  <1>1. p \in Nat
    BY DEF Ports
  <1>2. /\ Slot(p, "EVENT") = 10 * p + 0 /\ Slot(p, "GENERAL") = 10 * p + 1
        /\ Slot(p, "DELAY") = 10 * p + 2 /\ Slot(p, "ANNOUNCE") = 10 * p + 3
        /\ Slot(p, "SYNC_RX") = 10 * p + 4 /\ Slot(p, "QUALIFICATION") = 10 * p + 5
        /\ Slot(p, "MANNO") = 10 * p + 6 /\ Slot(p, "SYNC_TX") = 10 * p + 7
        /\ Slot(p, "RTNL") = 10 * p + 8 /\ Slot(p, "FAULT") = 10 * p + 9
    BY DEF Slot, Fd
  <1> QED  BY <1>1, <1>2 DEF Descriptors

\* The place of a descriptor in the poll array is a number.
LEMMA SlotNat ==
  ASSUME NEW p \in Ports, NEW f \in Descriptors
  PROVE  Slot(p, f) \in Nat
  BY SlotType, ConstantsAssumption DEF UdsSlot

\* The handler of a descriptor left port o as r and returned the event e: it
\* made the port neither lead nor follow.
Handed(o, r, e) ==
  /\ r \in PortRecord /\ e \in RunEvents \cap PortEvents
  /\ r.state \in Leading => o.state \in Leading
  /\ r.state \in Slaving => o.state \in Slaving

\* Where no fault is cleared at once, it also left the port's role as it was, or
\* disabled the port, and it recovers the port only after its messages and timers.
HandedQuietly(f, o, r, e) ==
  /\ RoleTimers(r)
  /\ f \notin {"RTNL", "FAULT"} => /\ o.state \in Enabled
                                  /\ e \notin {"FAULT_CLEARED", "DESIGNATED_ENABLED"}
  /\ f \in {"EVENT", "GENERAL"} => e # "ANNOUNCE_RECEIPT_TIMEOUT_EXPIRES"
  /\ r.state \in Enabled => r.state = o.state \/ {r.state, o.state} \subseteq Slaving
  /\ r.dm \in {o.dm, "P2P"}
  /\ r.state \in Slaving /\ e \notin {"ANNOUNCE_RECEIPT_TIMEOUT_EXPIRES", "FAULT_DETECTED"}
       => r.msgs[r.best] # <<>>

\* The event of descriptor f leaves port p quiet.
LEMMA DescriptorQuiet ==
  ASSUME AsapFaults = {}, NEW p \in Ports, NEW f \in Descriptors, NEW o, NEW r, NEW e,
         Handed(o, r, e), HandedQuietly(f, o, r, e), NEW ok \in BOOLEAN, NEW phc \in BOOLEAN,
         NEW was \in Nat, NEW at \in Nat, was < Slot(p, f), Slot(p, f) <= at, NEW sn,
         Timely(p, o, was, sn)
  PROVE  LET d == bc_dispatch(p, r, e, FALSE, ok, phc)
         IN RoleTimers(d) /\ HasMessage(d) /\ Timely(p, d, at, sn)
  <1> DEFINE d == bc_dispatch(p, r, e, FALSE, ok, phc)
             next == state_machine(r.state, e, FALSE)
  <1>1. /\ r \in PortRecord /\ RoleTimers(r) /\ e \in RunEvents \cap PortEvents /\ e \in Events
        /\ r.state \in States \ {"INITIALIZING"}
    <2>1. r \in PortRecord /\ RoleTimers(r) /\ e \in RunEvents \cap PortEvents
      BY DEF Handed, HandedQuietly
    <2>2. r.state \in States
      BY <2>1, PortFields
    <2> QED  BY <2>1, <2>2 DEF RunEvents, RoleTimers
  <1>2. Moved(d, r, next)
    BY <1>1, DispatchQuiet
  <1>3. d.state \in Following => d.state = next /\ SameMasters(d, r)
    <2> HIDE DEF d, next
    <2>1. d.state \in {"LISTENING", "FAULTY", next}
      BY <1>1, DispatchFacts DEF d, next
    <2>2. d.state \in Following => SameMasters(d, r)
      BY <1>1, DispatchFacts DEF d
    <2> QED  BY <2>1, <2>2 DEF Following, Slaving
  <1>4. /\ next = "INITIALIZING" => r.state \notin Enabled /\ e \in {"FAULT_CLEARED", "DESIGNATED_ENABLED"}
        /\ next \in Enabled => r.state \in Enabled
    BY <1>1, FsmRuns
  <1>5. /\ r.state \in Mastering /\ next \in Enabled => next \in Mastering
        /\ r.state \in Slaving /\ e # "ANNOUNCE_RECEIPT_TIMEOUT_EXPIRES" /\ next \in Enabled
           => next \in Slaving
        /\ r.state \in Slaving /\ e \in {"ANNOUNCE_RECEIPT_TIMEOUT_EXPIRES", "FAULT_DETECTED"}
           => next \notin Slaving
    BY <1>1, FsmRoles
  <1>6. next \in Slaving => r.state \in Slaving
    BY <1>1, FsmFollows DEF PortEvents
  <1> HIDE DEF d, next
  <1>7. HasMessage(d)
    BY <1>3, <1>5, <1>6 DEF HasMessage, HandedQuietly, Following, SameMasters
  <1>9. ASSUME d.state \in Enabled, f \notin {"RTNL", "FAULT"}
        PROVE  /\ d.state = next /\ o.state \in Enabled
               /\ r.state = o.state \/ {r.state, o.state} \subseteq Slaving
    BY <1>2, <1>4, <1>9 DEF Moved, HandedQuietly
  <1>10. \A t \in Descriptors : at < Slot(p, t) => was < Slot(p, t)
    BY SlotNat
  <1>11. ASSUME d.state \in Enabled, "DELAY" \in sn, at < Slot(p, "DELAY"), d.dm # "P2P"
         PROVE  d.state \in Slaving
    <2>1. f \in {"EVENT", "GENERAL"}
      BY <1>11, SlotOrder
    <2>2. was < Slot(p, "DELAY")
      BY <1>10, <1>11, EventTypes DEF Timers
    <2>3. o.dm # "P2P" /\ e # "ANNOUNCE_RECEIPT_TIMEOUT_EXPIRES"
      BY <1>2, <1>11, <2>1 DEF Moved, HandedQuietly
    <2>4. o.state \in Slaving
      BY <1>9, <1>11, <2>1, <2>2, <2>3 DEF Timely
    <2> QED  BY <1>5, <1>9, <1>11, <2>1, <2>3, <2>4
  <1>12. ASSUME d.state \in Enabled, NEW t \in {"MANNO", "SYNC_TX"}, t \in sn, at < Slot(p, t)
         PROVE  d.state \in Mastering
    <2>1. f \notin {"RTNL", "FAULT"}
      BY <1>12, SlotOrder
    <2>2. was < Slot(p, t)
      BY <1>10, <1>12, EventTypes DEF Timers
    <2>3. o.state \in Mastering
      BY <1>9, <1>12, <2>1, <2>2 DEF Timely
    <2> QED  BY <1>5, <1>9, <1>12, <2>1, <2>3 DEF Mastering, Slaving
  <1>13. Timely(p, d, at, sn)
    BY <1>11, <1>12 DEF Timely
  <1> QED  BY <1>2, <1>7, <1>13 DEF Moved, d

\* The records of port o that differ in nothing that concerns its role.
Kin(r, o) ==
  /\ r \in PortRecord /\ r.state = o.state /\ r.dm = o.dm
  /\ r.best = o.best /\ r.msgs = o.msgs
  /\ r.armed \ {"ANNOUNCE", "SYNC_RX"} = o.armed \ {"ANNOUNCE", "SYNC_RX"}

\* The timers a role needs do not include those of reception.
LEMMA KinTimers ==
  ASSUME NEW o, NEW r, r.state = o.state, r.dm = o.dm, RoleTimers(o),
         r.armed \ {"ANNOUNCE", "SYNC_RX"} = o.armed \ {"ANNOUNCE", "SYNC_RX"}
  PROVE  RoleTimers(r)
  <1>1. \A t \in {"DELAY", "MANNO", "SYNC_TX"} : t \in r.armed <=> t \in o.armed
    <2> SUFFICES ASSUME NEW t \in {"DELAY", "MANNO", "SYNC_TX"}
                 PROVE  t \in r.armed <=> t \in o.armed
      OBVIOUS
    <2>1. t \notin {"ANNOUNCE", "SYNC_RX"}
      OBVIOUS
    <2> QED  BY <2>1
  <1> QED  BY <1>1 DEF RoleTimers

\* The events that a handler of a running port returns.
HandlerEvents == {"NONE", "STATE_DECISION_EVENT", "FAULT_DETECTED", "QUALIFICATION_TIMEOUT_EXPIRES"}

\* A handler that changed nothing of the port's role.
LEMMA KinHanded ==
  ASSUME NEW o, NEW r, Kin(r, o), NEW f, NEW e \in HandlerEvents,
         f \notin {"RTNL", "FAULT"} => o.state \in Enabled
  PROVE  /\ Handed(o, r, e)
         /\ RoleTimers(o) /\ HasMessage(o) => HandedQuietly(f, o, r, e)
  <1>1. e \in RunEvents \cap PortEvents /\ e \notin {"FAULT_CLEARED", "DESIGNATED_ENABLED"}
        /\ e # "ANNOUNCE_RECEIPT_TIMEOUT_EXPIRES"
    BY DEF HandlerEvents, RunEvents, PortEvents, Events
  <1>2. Handed(o, r, e)
    BY <1>1 DEF Handed, Kin
  <1>3. ASSUME RoleTimers(o), HasMessage(o) PROVE HandedQuietly(f, o, r, e)
    <2>1. RoleTimers(r)
      BY <1>3, KinTimers DEF Kin
    <2> QED  BY <1>1, <1>3, <2>1 DEF HandedQuietly, Kin, HasMessage
  <1> QED  BY <1>2, <1>3

\* What the handler of a descriptor of port p does.
Served(p) ==
  \E f \in Descriptors \ {"FAULT"}, due \in BOOLEAN : \E r, e :
    /\ Visit(p, f) /\ Handled(p, f, r, e, due) /\ Handed(port[p], r, e)
    /\ AsapFaults = {} /\ Quiet => HandedQuietly(f, port[p], r, e)

\* What Quiet says of one port.
LEMMA QuietPort ==
  ASSUME Quiet, NEW p \in Ports
  PROVE  RoleTimers(port[p]) /\ HasMessage(port[p]) /\ Timely(p, port[p], pos, snap[p])
  BY DEF Quiet

\* A handler that changed nothing of the role serves the port.
LEMMA KinServed ==
  ASSUME NEW p \in Ports, NEW f \in Descriptors \ {"FAULT"}, Visit(p, f), NEW r, Kin(r, port[p]),
         NEW e \in HandlerEvents, f # "RTNL" => port[p].state \in Enabled,
         NEW due \in BOOLEAN, Handled(p, f, r, e, due)
  PROVE  Served(p)
  <1>1. Handed(port[p], r, e)
    BY KinHanded
  <1>2. Quiet => HandedQuietly(f, port[p], r, e)
    BY KinHanded, QuietPort
  <1> QED  BY <1>1, <1>2 DEF Served

\* process_announce stores messages and starts a timer.
LEMMA AnnounceServed ==
  ASSUME IInv, NEW p \in Ports, NEW s \in Hears[p], NEW a \in Announces, RecvAnnounce(p, s, a)
  PROVE  Served(p)
  <1> DEFINE o == port[p]
  <1>1. s \in Senders /\ o \in PortRecord /\ Sound(p, o, clk)
    BY ConstantsAssumption, PortOf
  <1>2. PICK ms \in Kept(o.msgs[s]) :
          Handled(p, "GENERAL", process_announce(o, s, a, ms).rec,
                  IF process_announce(o, s, a, ms).changed
                  THEN "STATE_DECISION_EVENT" ELSE "NONE", FALSE)
    BY DEF RecvAnnounce
  <1> DEFINE r == process_announce(o, s, a, ms).rec
             e == IF process_announce(o, s, a, ms).changed
                  THEN "STATE_DECISION_EVENT" ELSE "NONE"
             l == <<a>> \o ms
  <1>3. r \in PortRecord
    BY <1>1, AnnounceSound
  <1>4. Visit(p, "GENERAL") /\ o.state \in Enabled
    BY DEF RecvAnnounce, Receive
  <1>5. l # <<>>
    <2>1. o.msgs[s] \in Seq(NearAnnounces)
      BY <1>1 DEF Sound
    <2>2. ms \in Seq(NearAnnounces) /\ Len(<<a>>) = 1
      BY <2>1, KeptType
    <2>3. ms \in Seq(Announces) /\ <<a>> \in Seq(Announces)
      BY <2>2 DEF NearAnnounces
    <2>4. Len(l) = 1 + Len(ms) /\ Len(ms) \in Nat
      BY <2>2, <2>3, ConcatProperties
    <2> QED  BY <2>4
  <1>6. r \in {o, [o EXCEPT !.fms = <<s>> \o o.fms], [o EXCEPT !.msgs[s] = l],
               [o EXCEPT !.msgs[s] = l, !.armed = o.armed \cup {"ANNOUNCE"}]}
    BY DEF process_announce, add_foreign_master, update_current_master
  <1> HIDE DEF l, r, e
  <1>7. /\ r.state = o.state /\ r.dm = o.dm /\ r.best = o.best
        /\ r.armed \ {"ANNOUNCE", "SYNC_RX"} = o.armed \ {"ANNOUNCE", "SYNC_RX"}
        /\ r.msgs = o.msgs \/ r.msgs = [o.msgs EXCEPT ![s] = l]
    BY <1>1, <1>6 DEF PortRecord
  <1>8. o.msgs[o.best] # <<>> => r.msgs[r.best] # <<>>
    <2>1. CASE r.msgs = o.msgs
      BY <1>7, <2>1
    <2>2. CASE r.msgs = [o.msgs EXCEPT ![s] = l]
      <3>1. o.msgs \in [Senders -> Messages]
        BY <1>1, PortFields
      <3>2. o.best = s => r.msgs[o.best] = l
        BY <1>1, <2>2, <3>1
      <3>3. o.best # s => r.msgs[o.best] = o.msgs[o.best]
        BY <2>2, <3>1
      <3> QED  BY <1>5, <1>7, <3>2, <3>3
    <2> QED  BY <1>7, <2>1, <2>2
  <1>9. /\ e \in RunEvents \cap PortEvents
        /\ e \notin {"FAULT_CLEARED", "DESIGNATED_ENABLED", "ANNOUNCE_RECEIPT_TIMEOUT_EXPIRES"}
    BY DEF e, RunEvents, PortEvents, Events
  <1>10. Handed(o, r, e)
    BY <1>3, <1>7, <1>9 DEF Handed
  <1>11. ASSUME Quiet PROVE HandedQuietly("GENERAL", o, r, e)
    <2>1. RoleTimers(o) /\ HasMessage(o)
      BY <1>11, QuietPort
    <2>2. RoleTimers(r)
      BY <1>7, <2>1, KinTimers
    <2> QED  BY <1>4, <1>7, <1>8, <1>9, <2>1, <2>2 DEF HandedQuietly, HasMessage
  <1>12. "GENERAL" \in Descriptors \ {"FAULT"} /\ Handled(p, "GENERAL", r, e, FALSE)
    BY <1>2, EventTypes DEF r, e
  <1> QED  BY <1>4, <1>10, <1>11, <1>12 DEF Served

\* An event of its own that a port dispatches does not make it lead or follow.
LEMMA DispatchRoles ==
  ASSUME NEW p, NEW r \in PortRecord, NEW e \in PortEvents, NEW ok \in BOOLEAN, NEW phc \in BOOLEAN
  PROVE  LET d == bc_dispatch(p, r, e, FALSE, ok, phc)
         IN /\ d \in PortRecord
            /\ d.state \in Leading => r.state \in Leading \/ e = "ANNOUNCE_RECEIPT_TIMEOUT_EXPIRES"
            /\ d.state \in Slaving => r.state \in Slaving /\ SameMasters(d, r)
  <1> DEFINE d == bc_dispatch(p, r, e, FALSE, ok, phc)
             next == state_machine(r.state, e, FALSE)
  <1>1. r.state \in States /\ e \in Events /\ e # "RS_SLAVE"
    BY PortFields DEF PortEvents
  <1>2. d \in PortRecord
    BY <1>1, DispatchFacts
  <1>3. d.state \in {"LISTENING", "FAULTY", next}
    BY <1>1, DispatchFacts
  <1>4. d.state \in Following => SameMasters(d, r)
    BY <1>1, DispatchFacts
  <1>5. next \in Leading => r.state \in Leading \/ e = "ANNOUNCE_RECEIPT_TIMEOUT_EXPIRES"
    BY <1>1, FsmLeads
  <1>6. next \in Slaving => r.state \in Slaving
    BY <1>1, FsmFollows
  <1> HIDE DEF d, next
  <1>7. d.state \in Leading => r.state \in Leading \/ e = "ANNOUNCE_RECEIPT_TIMEOUT_EXPIRES"
    BY <1>3, <1>5 DEF Leading, Mastering
  <1>8. d.state \in Slaving => r.state \in Slaving /\ SameMasters(d, r)
    BY <1>3, <1>4, <1>6 DEF Slaving, Following
  <1> QED  BY <1>2, <1>7, <1>8 DEF d

\* The servo's answer keeps a port following, or the clock refuses its PHC.
LEMMA SynchronizeServed ==
  ASSUME IInv, NEW p \in Ports, NEW f \in {"EVENT", "GENERAL"},
         NEW e \in {"SYNCHRONIZATION_FAULT", "MASTER_CLOCK_SELECTED"}, Synchronize(p, f, e)
  PROVE  Served(p)
  <1> DEFINE o == port[p]
             b == [o EXCEPT !.armed = IF SyncRxTimeout THEN @ \cup {"SYNC_RX"} ELSE @ \ {"SYNC_RX"}]
  <1>1. PICK ok \in Success(InitMayFail), phc \in Success(PhcMayFail) :
          Handled(p, f, bc_dispatch(p, b, e, FALSE, ok, phc), "NONE", FALSE)
    BY DEF Synchronize
  <1>2. ok \in BOOLEAN /\ phc \in BOOLEAN
    BY SuccessType, ConstantsAssumption
  <1>3. Visit(p, f) /\ o.state \in Slaving /\ o.state \in Enabled /\ o \in PortRecord
    BY PortOf DEF Synchronize, Receive
  <1>4. Kin(b, o)
    BY <1>3 DEF PortRecord, Timers, Kin
  <1> DEFINE r == bc_dispatch(p, b, e, FALSE, ok, phc)
             next == state_machine(b.state, e, FALSE)
  <1>5. b \in PortRecord /\ b.state = o.state /\ b.state \in States \ {"INITIALIZING"}
    BY <1>3, <1>4, PortFields DEF Kin, Slaving
  <1>6. /\ e \in PortEvents /\ e \in RunEvents /\ e \in Events /\ "NONE" \in RunEvents \cap PortEvents
        /\ e # "ANNOUNCE_RECEIPT_TIMEOUT_EXPIRES" /\ f \in Descriptors \ {"FAULT"}
        /\ e \notin {"FAULT_CLEARED", "DESIGNATED_ENABLED"}
    BY EventTypes DEF RunEvents, Events, PortEvents
  <1>7. /\ r \in PortRecord
        /\ r.state \in Leading => b.state \in Leading
        /\ r.state \in Slaving => b.state \in Slaving /\ SameMasters(r, b)
    BY <1>2, <1>5, <1>6, DispatchRoles
  <1>8. Handed(o, r, "NONE")
    BY <1>5, <1>6, <1>7 DEF Handed
  <1>9. ASSUME Quiet, AsapFaults = {} PROVE HandedQuietly(f, o, r, "NONE")
    <2>1. RoleTimers(o) /\ HasMessage(o)
      BY <1>9, QuietPort
    <2>2. RoleTimers(b)
      BY <1>4, <2>1, KinTimers DEF Kin
    <2>3. Moved(r, b, next)
      BY <1>2, <1>5, <1>6, <1>9, <2>2, DispatchQuiet
    <2>4. next # "INITIALIZING" /\ (next \in Enabled => next \in Slaving)
      BY <1>3, <1>5, <1>6, FsmRuns, FsmRoles
    <2> HIDE DEF r, next, b
    <2>5. r.state \in Enabled => r.state \in Slaving
      BY <2>3, <2>4 DEF Moved
    <2>6. r.state \in Slaving => r.msgs[r.best] # <<>>
      BY <1>3, <1>4, <1>7, <2>1 DEF Kin, HasMessage, SameMasters
    <2> QED  BY <1>3, <1>4, <2>3, <2>4, <2>5, <2>6 DEF Moved, HandedQuietly, Kin
  <1>10. Handled(p, f, r, "NONE", FALSE)
    BY <1>1
  <1> HIDE DEF r
  <1> QED  BY <1>3, <1>6, <1>8, <1>9, <1>10 DEF Served

\* A fault is noted and reported.
LEMMA FaultServed ==
  ASSUME IInv, NEW p \in Ports, NEW f \in {"EVENT", "GENERAL"}, NEW ft \in Faults,
         RecvFault(p, f, ft)
  PROVE  Served(p)
  <1> DEFINE r == IF ft = "UNSPECIFIED" THEN port[p] ELSE [port[p] EXCEPT !.lastFault = ft]
  <1>1. Handled(p, f, r, "FAULT_DETECTED", FALSE) /\ Visit(p, f) /\ port[p].state \in Enabled
    BY DEF RecvFault, Receive
  <1>2. port[p] \in PortRecord
    BY PortOf
  <1>3. Kin(r, port[p])
    BY <1>2, ConstantsAssumption DEF Kin, PortRecord, FaultTypes
  <1>4. f \in Descriptors \ {"FAULT"} /\ "FAULT_DETECTED" \in HandlerEvents
    BY EventTypes DEF HandlerEvents
  <1> HIDE DEF r
  <1> QED  BY <1>1, <1>3, <1>4, KinServed

\* A timer that a handler sets again is one of the port's role; the first
\* Pdelay_Req makes the port a peer to peer one that measures.
LEMMA RearmServed ==
  ASSUME IInv, NEW p \in Ports, NEW f \in Descriptors \ {"FAULT", "RTNL"}, NEW t \in Timers,
         NEW dm \in {port[p].dm, "P2P"}, NEW sent \in BOOLEAN, Visit(p, f), port[p].state \in Enabled,
         Handled(p, f, [port[p] EXCEPT !.dm = dm, !.armed = @ \cup {t}],
                 IF sent THEN "NONE" ELSE "FAULT_DETECTED", FALSE),
         dm # port[p].dm => t = "DELAY",
         Quiet => RoleTimers([port[p] EXCEPT !.dm = dm, !.armed = @ \cup {t}])
  PROVE  Served(p)
  <1> DEFINE o == port[p]
             r == [o EXCEPT !.dm = dm, !.armed = @ \cup {t}]
             e == IF sent THEN "NONE" ELSE "FAULT_DETECTED"
  <1>1. o \in PortRecord
    BY PortOf
  <1>2. /\ r \in PortRecord /\ r.state = o.state /\ r.dm = dm /\ r.best = o.best
        /\ r.msgs = o.msgs
    BY <1>1 DEF PortRecord
  <1>3. /\ e \in RunEvents \cap PortEvents
        /\ e \notin {"FAULT_CLEARED", "DESIGNATED_ENABLED", "ANNOUNCE_RECEIPT_TIMEOUT_EXPIRES"}
    BY DEF RunEvents, PortEvents, Events
  <1>4. Handled(p, f, r, e, FALSE) /\ (Quiet => RoleTimers(r))
    OBVIOUS
  <1> HIDE DEF r, e
  <1>5. Handed(o, r, e)
    BY <1>2, <1>3 DEF Handed
  <1>6. Quiet => HandedQuietly(f, o, r, e)
    BY <1>2, <1>3, <1>4, QuietPort DEF HandedQuietly, HasMessage
  <1> QED  BY <1>4, <1>5, <1>6 DEF Served

\* A peer delay request turns an AUTO port to peer to peer (process_pdelay_req).
LEMMA PdelayReqServed ==
  ASSUME IInv, NEW p \in Ports, NEW sent \in BOOLEAN, RecvPdelayReq(p, sent)
  PROVE  Served(p)
  <1> DEFINE r == [port[p] EXCEPT !.dm = "P2P", !.armed = @ \cup {"DELAY"}]
  <1>1. port[p] \in PortRecord
    BY PortOf
  <1>2. /\ Handled(p, "EVENT", r, IF sent THEN "NONE" ELSE "FAULT_DETECTED", FALSE)
        /\ Visit(p, "EVENT") /\ port[p].state \in Enabled
    BY DEF RecvPdelayReq, Receive
  <1>3. r.state = port[p].state /\ r.dm = "P2P" /\ r.armed = port[p].armed \cup {"DELAY"}
    BY <1>1 DEF PortRecord
  <1>4. Quiet => RoleTimers(r)
    BY <1>3, QuietPort DEF RoleTimers
  <1>5. "EVENT" \in Descriptors \ {"FAULT", "RTNL"} /\ "DELAY" \in Timers
    BY DEF Descriptors, Timers
  <1> QED  BY <1>2, <1>4, <1>5, RearmServed

\* The delay timer sends a request and is set again (port_delay_request).
LEMMA DelayServed ==
  ASSUME IInv, NEW p \in Ports, NEW sent \in BOOLEAN, DelayTimer(p, sent)
  PROVE  Served(p)
  <1> DEFINE o == port[p]
             r == [o EXCEPT !.dm = o.dm, !.armed = @ \cup {"DELAY"}]
  <1>1. o \in PortRecord
    BY PortOf
  <1>2. /\ Handled(p, "DELAY", [o EXCEPT !.armed = @ \cup {"DELAY"}],
                  IF sent THEN "NONE" ELSE "FAULT_DETECTED", FALSE)
        /\ Visit(p, "DELAY") /\ o.state \in Enabled /\ "DELAY" \in snap[p] /\ pos < Slot(p, "DELAY")
    BY DEF DelayTimer, Expired, Visit
  <1>3. [o EXCEPT !.armed = @ \cup {"DELAY"}] = r
    BY <1>1 DEF PortRecord
  <1>4. r.state = o.state /\ r.dm = o.dm /\ r.armed = o.armed \cup {"DELAY"}
    BY <1>1 DEF PortRecord
  <1>5. ASSUME Quiet PROVE RoleTimers(r)
    <2>1. RoleTimers(o) /\ Timely(p, o, pos, snap[p])
      BY <1>5, QuietPort
    <2>2. o.dm # "P2P" => o.state \in Slaving
      BY <1>2, <2>1 DEF Timely
    <2> HIDE DEF r
    <2> QED  BY <1>4, <2>1, <2>2 DEF RoleTimers
  <1>6. "DELAY" \in Descriptors \ {"FAULT", "RTNL"} /\ "DELAY" \in Timers
    BY DEF Descriptors, Timers
  <1> QED  BY <1>2, <1>3, <1>5, <1>6, RearmServed

\* A transmit timer sends an Announce or a Sync and is set again (bc_event).
LEMMA TransmitServed ==
  ASSUME IInv, NEW p \in Ports, NEW t \in {"MANNO", "SYNC_TX"}, NEW sent \in BOOLEAN,
         TransmitTimer(p, t, sent)
  PROVE  Served(p)
  <1> DEFINE o == port[p]
             r == [o EXCEPT !.dm = o.dm, !.armed = @ \cup {t}]
  <1>1. o \in PortRecord
    BY PortOf
  <1>2. /\ Handled(p, t, [o EXCEPT !.armed = @ \cup {t}],
                  IF sent THEN "NONE" ELSE "FAULT_DETECTED", FALSE)
        /\ Visit(p, t) /\ o.state \in Enabled /\ t \in snap[p] /\ pos < Slot(p, t)
    BY DEF TransmitTimer, Expired, Visit
  <1>3. [o EXCEPT !.armed = @ \cup {t}] = r
    BY <1>1 DEF PortRecord
  <1>4. r.state = o.state /\ r.dm = o.dm /\ r.armed = o.armed \cup {t}
    BY <1>1 DEF PortRecord
  <1>5. ASSUME Quiet PROVE RoleTimers(r)
    <2>1. RoleTimers(o) /\ Timely(p, o, pos, snap[p])
      BY <1>5, QuietPort
    <2>2. o.state \in Mastering
      BY <1>2, <2>1 DEF Timely
    <2> HIDE DEF r
    <2> QED  BY <1>4, <2>1, <2>2 DEF RoleTimers
  <1>6. t \in Descriptors \ {"FAULT", "RTNL"} /\ t \in Timers
    BY DEF Descriptors, Timers
  <1> QED  BY <1>2, <1>3, <1>5, <1>6, RearmServed

\* A receipt timeout forgets the master's messages and ends the port's following.
LEMMA ReceiptServed ==
  ASSUME IInv, NEW p \in Ports, NEW t \in {"ANNOUNCE", "SYNC_RX"}, NEW renewed \in BOOLEAN,
         ReceiptTimer(p, t, renewed)
  PROVE  Served(p)
  <1> DEFINE o == port[p]
             renew == SlaveOnly /\ o.dm # "P2P"
             c == ClearBest(o)
             r == [c EXCEPT !.armed = @ \cup {"ANNOUNCE"}]
             e == IF renew /\ ~renewed THEN "FAULT_DETECTED"
                  ELSE "ANNOUNCE_RECEIPT_TIMEOUT_EXPIRES"
  <1>1. Handled(p, t, r, e, FALSE) /\ Visit(p, t) /\ o.state \in Enabled
    BY DEF ReceiptTimer, Expired
  <1>2. o \in PortRecord /\ c \in PortRecord
    BY PortOf, ClearSound
  <1>3. c.state = o.state /\ c.dm = o.dm /\ c.armed = o.armed
    BY <1>2 DEF ClearBest, PortRecord
  <1>5. /\ e \in RunEvents \cap PortEvents
        /\ e \in {"ANNOUNCE_RECEIPT_TIMEOUT_EXPIRES", "FAULT_DETECTED"}
        /\ e \notin {"FAULT_CLEARED", "DESIGNATED_ENABLED"}
    BY DEF RunEvents, PortEvents, Events
  <1> HIDE DEF c, renew, e
  <1>6. /\ r \in PortRecord /\ r.state = c.state /\ r.dm = c.dm
        /\ r.armed = c.armed \cup {"ANNOUNCE"}
    BY <1>2 DEF PortRecord, Timers
  <1> HIDE DEF r
  <1>7. Handed(o, r, e)
    BY <1>3, <1>5, <1>6 DEF Handed
  <1>8. ASSUME Quiet PROVE HandedQuietly(t, o, r, e)
    <2>1. RoleTimers(o)
      BY <1>8, QuietPort
    <2>2. r.armed \ {"ANNOUNCE", "SYNC_RX"} = o.armed \ {"ANNOUNCE", "SYNC_RX"}
      BY <1>3, <1>6
    <2>3. RoleTimers(r)
      BY <1>3, <1>6, <2>1, <2>2, KinTimers
    <2> QED  BY <1>1, <1>3, <1>5, <1>6, <2>3 DEF HandedQuietly
  <1>9. t \in Descriptors \ {"FAULT"}
    BY DEF Descriptors
  <1> QED  BY <1>1, <1>7, <1>8, <1>9 DEF Served

\* A link status word reports a fault, its end or nothing.
LEMMA LinkEventFacts ==
  ASSUME NEW l
  PROVE  LinkStatusEvent(l) \in {"NONE", "FAULT_DETECTED", "FAULT_CLEARED"}
  BY DEF LinkStatusEvent

\* A link notification notes the link's status; a PHC that the clock refused
\* faults the port first.
LEMMA LinkServed ==
  ASSUME IInv, NEW p \in Ports, NEW n \in LinkEvents, LinkNotification(p, n)
  PROVE  Served(p)
  <1> DEFINE o == port[p]
             l == port_link_status(o.link, n).link
             b == [o EXCEPT !.link = l]
             g == [b EXCEPT !.lastFault = "SWITCH_PHC"]
             e == LinkStatusEvent(l)
  <1>1. Visit(p, "RTNL")
    BY DEF LinkNotification
  <1>2. PICK ok \in Success(InitMayFail) :
          Handled(p, "RTNL",
                  IF port_link_status(o.link, n).phc THEN b
                  ELSE bc_dispatch(p, g, "FAULT_DETECTED", FALSE, ok, TRUE), e, ~l.up)
    BY DEF LinkNotification
  <1> DEFINE h == bc_dispatch(p, g, "FAULT_DETECTED", FALSE, ok, TRUE)
             r == IF port_link_status(o.link, n).phc THEN b ELSE h
  <1>3. o \in PortRecord /\ ok \in BOOLEAN
    BY PortOf, SuccessType, ConstantsAssumption
  <1>4. l \in LinkWord
    BY <1>3, PortFields, LinkStatusType, ConstantsAssumption DEF LinkWord
  <1>5. e \in {"NONE", "FAULT_DETECTED", "FAULT_CLEARED"} /\ (~l.up) \in BOOLEAN
    BY LinkEventFacts
  <1>6. e \in RunEvents \cap PortEvents
    BY <1>5 DEF RunEvents, PortEvents, Events
  <1> HIDE DEF l, e
  <1>7. Kin(b, o)
    BY <1>3, <1>4 DEF Kin, PortRecord, LinkWord
  <1> HIDE DEF b
  <1>8. Kin(g, o)
    BY <1>7 DEF Kin, PortRecord, FaultTypes
  <1> HIDE DEF g
  <1>9. g \in PortRecord /\ g.state \in States /\ g.state = o.state
    BY <1>8, PortFields DEF Kin
  <1>10. /\ "FAULT_DETECTED" \in PortEvents /\ "FAULT_DETECTED" \in RunEvents
         /\ "FAULT_DETECTED" \in Events
    BY DEF PortEvents, RunEvents, Events
  <1>11. /\ h \in PortRecord
         /\ h.state \in Leading => g.state \in Leading
         /\ h.state \in Slaving => g.state \in Slaving /\ SameMasters(h, g)
    BY <1>3, <1>9, <1>10, DispatchRoles
  <1>12. Handed(o, r, e)
    BY <1>6, <1>7, <1>9, <1>11 DEF Handed, Kin
  <1>13. ASSUME Quiet, AsapFaults = {} PROVE HandedQuietly("RTNL", o, r, e)
    <2>1. RoleTimers(o) /\ HasMessage(o)
      BY <1>13, QuietPort
    <2>2. RoleTimers(b) /\ RoleTimers(g)
      BY <1>7, <1>8, <2>1, KinTimers DEF Kin
    <2> DEFINE next == state_machine(g.state, "FAULT_DETECTED", FALSE)
    <2>3. Moved(h, g, next)
      BY <1>3, <1>9, <1>10, <1>13, <2>2, DispatchQuiet
    <2>4. next # "INITIALIZING" /\ (next \in Enabled => next = g.state)
      BY <1>9, <2>2 DEF state_machine, ptp_fsm, ptp_slave_fsm, CommonFsm, States, CommonEvents,
                         Enabled, Slaving, SlaveOnlyEnabled, RoleTimers
    <2> HIDE DEF next, h
    <2>5. HandedQuietly("RTNL", o, b, e)
      BY <1>7, <2>1, <2>2 DEF HandedQuietly, Kin, HasMessage
    <2>6. HandedQuietly("RTNL", o, h, e)
      BY <1>8, <1>9, <1>11, <2>1, <2>3, <2>4 DEF HandedQuietly, Kin, HasMessage, Moved, SameMasters
    <2> QED  BY <2>5, <2>6
  <1>14. "RTNL" \in Descriptors \ {"FAULT"} /\ Handled(p, "RTNL", r, e, ~l.up)
    BY <1>2 DEF Descriptors
  <1> HIDE DEF r
  <1> QED  BY <1>1, <1>5, <1>12, <1>13, <1>14 DEF Served

\* Every step of a port but that of the fault timer serves a descriptor.
LEMMA PortServed ==
  ASSUME IInv, NEW p \in Ports, PortNext(p)
  PROVE  FaultTimer(p) \/ Served(p)
  <1>1. ASSUME NEW s \in Hears[p], NEW a \in Announces, RecvAnnounce(p, s, a)
        PROVE  Served(p)
    BY <1>1, AnnounceServed
  <1>2. ASSUME NEW f \in {"EVENT", "GENERAL"},
               NEW e \in {"SYNCHRONIZATION_FAULT", "MASTER_CLOCK_SELECTED"}, Synchronize(p, f, e)
        PROVE  Served(p)
    BY <1>2, SynchronizeServed
  <1>3. ASSUME NEW f \in {"EVENT", "GENERAL"}, NEW ft \in Faults, RecvFault(p, f, ft)
        PROVE  Served(p)
    BY <1>3, FaultServed
  <1>4. ASSUME NEW sent \in Success(SendMayFail), RecvPdelayReq(p, sent)
        PROVE  Served(p)
    BY <1>4, SuccessType, ConstantsAssumption, PdelayReqServed
  <1>5. ASSUME NEW sent \in Success(SendMayFail), DelayTimer(p, sent)
        PROVE  Served(p)
    BY <1>5, SuccessType, ConstantsAssumption, DelayServed
  <1>6. ASSUME NEW sent \in Success(SendMayFail), NEW t \in {"MANNO", "SYNC_TX"},
               TransmitTimer(p, t, sent)
        PROVE  Served(p)
    BY <1>6, SuccessType, ConstantsAssumption, TransmitServed
  <1>7. ASSUME NEW t \in {"ANNOUNCE", "SYNC_RX"}, NEW renewed \in Success(InitMayFail),
               ReceiptTimer(p, t, renewed)
        PROVE  Served(p)
    BY <1>7, SuccessType, ConstantsAssumption, ReceiptServed
  <1>8. port[p] \in PortRecord /\ Kin(port[p], port[p])
    BY PortOf DEF Kin
  <1>9. ASSUME QualificationTimer(p)
        PROVE  Served(p)
    <2>1. /\ Handled(p, "QUALIFICATION", port[p], "QUALIFICATION_TIMEOUT_EXPIRES", FALSE)
          /\ Visit(p, "QUALIFICATION") /\ port[p].state \in Enabled
      BY <1>9 DEF QualificationTimer, Expired
    <2>2. "QUALIFICATION" \in Descriptors \ {"FAULT"} /\ "QUALIFICATION_TIMEOUT_EXPIRES" \in HandlerEvents
      BY DEF Descriptors, HandlerEvents
    <2> QED  BY <1>8, <2>1, <2>2, KinServed
  <1>10. ASSUME NEW n \in LinkEvents, LinkNotification(p, n)
         PROVE  Served(p)
    BY <1>10, LinkServed
  <1>11. ASSUME OtherLinkNotification(p)
         PROVE  Served(p)
    <2> DEFINE e == LinkStatusEvent(port[p].link)
    <2>1. Handled(p, "RTNL", port[p], e, FALSE) /\ Visit(p, "RTNL")
      BY <1>11 DEF OtherLinkNotification
    <2>2. e \in {"NONE", "FAULT_DETECTED", "FAULT_CLEARED"}
      BY LinkEventFacts
    <2> HIDE DEF e
    <2>3. e \in RunEvents \cap PortEvents
      BY <2>2 DEF RunEvents, PortEvents, Events
    <2>4. Handed(port[p], port[p], e)
      BY <1>8, <2>3 DEF Handed
    <2>5. Quiet => HandedQuietly("RTNL", port[p], port[p], e)
      BY QuietPort DEF HandedQuietly, HasMessage
    <2>6. "RTNL" \in Descriptors \ {"FAULT"}
      BY DEF Descriptors
    <2> QED  BY <2>1, <2>4, <2>5, <2>6 DEF Served
  <1> QED  BY <1>1, <1>2, <1>3, <1>4, <1>5, <1>6, <1>7, <1>9, <1>10, <1>11 DEF PortNext

-----------------------------------------------------------------------------
(* The steps of the ports.                                                 *)

\* Records of a port that differ at most in the fault timer.
Alike(n, d) ==
  /\ n.state = d.state /\ n.armed = d.armed /\ n.dm = d.dm
  /\ n.best = d.best /\ n.msgs = d.msgs

\* As a pass goes on, less can happen to a port that is left alone.
LEMMA Later ==
  ASSUME NEW x \in Ports, NEW r, NEW sn, NEW was \in Nat, NEW at \in Nat, was <= at,
         Timely(x, r, was, sn)
  PROVE  Timely(x, r, at, sn)
  <1>1. \A t \in Descriptors : Slot(x, t) \in Nat
    BY SlotNat
  <1>2. {"GENERAL", "DELAY", "MANNO", "SYNC_TX"} \subseteq Descriptors
    BY DEF Descriptors
  <1>3. /\ was >= Slot(x, "GENERAL") => at >= Slot(x, "GENERAL")
        /\ \A t \in {"DELAY", "MANNO", "SYNC_TX"} : at < Slot(x, t) => was < Slot(x, t)
    BY <1>1, <1>2
  <1> QED  BY <1>3 DEF Timely

\* An event of descriptor f of port p leaves all ports quiet.
LEMMA StepQuiet ==
  ASSUME AsapFaults = {}, IInv, Quiet, NEW p \in Ports, NEW f \in Descriptors, Visit(p, f),
         NEW r, NEW e, Handed(port[p], r, e), HandedQuietly(f, port[p], r, e),
         NEW ok \in BOOLEAN, NEW phc \in BOOLEAN,
         NEW n, Alike(n, bc_dispatch(p, r, e, FALSE, ok, phc)),
         port' = [port EXCEPT ![p] = n], pos' \in Nat, Slot(p, f) <= pos', snap' = snap
  PROVE  Quiet'
  <1> DEFINE d == bc_dispatch(p, r, e, FALSE, ok, phc)
  <1>1. port \in [Ports -> PortRecord] /\ pos \in Nat /\ pos < Slot(p, f) /\ Slot(p, f) \in Nat
    BY SlotNat, ConstantsAssumption DEF IInv, TypeOK, Visit, UdsSlot
  <1>2. RoleTimers(d) /\ HasMessage(d) /\ Timely(p, d, pos', snap[p])
    BY <1>1, QuietPort, DescriptorQuiet
  <1> HIDE DEF d
  <1>3. RoleTimers(n) /\ HasMessage(n) /\ Timely(p, n, pos', snap[p])
    BY <1>2 DEF Alike, RoleTimers, HasMessage, Timely, d
  <1>4. ASSUME NEW x \in Ports, x # p
        PROVE  /\ RoleTimers(port'[x]) /\ HasMessage(port'[x])
               /\ Timely(x, port'[x], pos', snap[x])
    <2>1. port'[x] = port[x]
      BY <1>1, <1>4
    <2>2. RoleTimers(port[x]) /\ HasMessage(port[x]) /\ Timely(x, port[x], pos, snap[x])
      BY QuietPort
    <2>3. Timely(x, port[x], pos', snap[x])
      BY <1>1, <2>2, Later
    <2> QED  BY <2>1, <2>2, <2>3
  <1>5. port'[p] = n
    BY <1>1
  <1> QED  BY <1>3, <1>4, <1>5 DEF Quiet

\* The roles after a step: no port begins to follow, and one begins to lead only
\* if a decision is due.
RolesKept ==
  /\ clk' = clk /\ dds' = dds /\ (sde => sde')
  /\ \A x \in Ports : /\ port'[x].state \in Leading => port[x].state \in Leading \/ sde'
                      /\ port'[x].state \in Slaving => port[x].state \in Slaving

\* Where no port starts to lead or to follow, a decision stays obeyed.
LEMMA KeptRoles ==
  ASSUME NoEcho, PrimaryNeverFollows, RolesKept
  PROVE  NoEcho' /\ PrimaryNeverFollows'
  BY DEF NoEcho, PrimaryNeverFollows, RolesKept, Leading

\* A served descriptor.
LEMMA ServedStep ==
  ASSUME IInv, NEW p \in Ports, Served(p)
  PROVE  RolesKept /\ (AsapFaults = {} /\ Quiet => Quiet')
  <1>1. PICK f \in Descriptors \ {"FAULT"}, due \in BOOLEAN :
          \E r, e : /\ Visit(p, f) /\ Handled(p, f, r, e, due) /\ Handed(port[p], r, e)
                    /\ AsapFaults = {} /\ Quiet => HandedQuietly(f, port[p], r, e)
    BY DEF Served
  <1>2. PICK r, e : /\ Visit(p, f) /\ Handled(p, f, r, e, due) /\ Handed(port[p], r, e)
                    /\ AsapFaults = {} /\ Quiet => HandedQuietly(f, port[p], r, e)
    BY <1>1
  <1>3. PICK ok \in Success(InitMayFail), phc \in Success(PhcMayFail) :
         \E d \in {bc_dispatch(p, r, e, FALSE, ok, phc)} :
           /\ port' = [port EXCEPT ![p] = IF d.state = "FAULTY" THEN SetFaultTimer(d) ELSE d]
           /\ pos' = Slot(p, IF d.state = "FAULTY" THEN "RTNL" ELSE f)
           /\ sde' = (\/ sde \/ due
                      \/ e \in {"STATE_DECISION_EVENT", "ANNOUNCE_RECEIPT_TIMEOUT_EXPIRES"})
           /\ UNCHANGED <<clk, dds, snap>>
    BY <1>2 DEF Handled
  <1> DEFINE d == bc_dispatch(p, r, e, FALSE, ok, phc)
             n == IF d.state = "FAULTY" THEN SetFaultTimer(d) ELSE d
  <1>4. ok \in BOOLEAN /\ phc \in BOOLEAN
    BY SuccessType, ConstantsAssumption
  <1>5. /\ port' = [port EXCEPT ![p] = n]
        /\ pos' = Slot(p, IF d.state = "FAULTY" THEN "RTNL" ELSE f)
        /\ sde \/ e = "ANNOUNCE_RECEIPT_TIMEOUT_EXPIRES" => sde'
        /\ clk' = clk /\ dds' = dds /\ snap' = snap
    BY <1>3
  <1>6. r \in PortRecord /\ e \in PortEvents
    BY <1>2 DEF Handed
  <1>7. /\ d \in PortRecord
        /\ d.state \in Leading => r.state \in Leading \/ e = "ANNOUNCE_RECEIPT_TIMEOUT_EXPIRES"
        /\ d.state \in Slaving => r.state \in Slaving
    BY <1>4, <1>6, DispatchRoles
  <1>8. Alike(n, d)
    <2> HIDE DEF d
    <2> QED  BY <1>7 DEF Alike, SetFaultTimer, PortRecord
  <1>9. pos' \in Nat /\ Slot(p, f) <= pos'
    <2>1. "RTNL" \in Descriptors /\ f \in Descriptors
      BY DEF Descriptors
    <2>2. Slot(p, f) \in Nat /\ Slot(p, "RTNL") \in Nat
      BY <2>1, SlotNat
    <2>3. Slot(p, f) <= Slot(p, "RTNL")
      BY <2>1, <2>2, SlotOrder
    <2> HIDE DEF d
    <2> QED  BY <1>5, <2>2, <2>3
  <1> HIDE DEF n
  <1>10. RolesKept
    <2>1. port \in [Ports -> PortRecord]
      BY DEF IInv, TypeOK
    <2>2. port'[p] = n /\ \A x \in Ports : x # p => port'[x] = port[x]
      BY <1>5, <2>1
    <2>3. n.state \in Leading => port[p].state \in Leading \/ sde'
      BY <1>2, <1>5, <1>7, <1>8 DEF Handed, Alike
    <2>4. n.state \in Slaving => port[p].state \in Slaving
      BY <1>2, <1>7, <1>8 DEF Handed, Alike
    <2> QED  BY <1>5, <2>2, <2>3, <2>4 DEF RolesKept
  <1>11. ASSUME AsapFaults = {}, Quiet PROVE Quiet'
    BY <1>2, <1>4, <1>5, <1>8, <1>9, <1>11, StepQuiet
  <1> QED  BY <1>10, <1>11

\* The fault timer.
LEMMA FaultTimerStep ==
  ASSUME IInv, NEW p \in Ports, FaultTimer(p)
  PROVE  RolesKept /\ (AsapFaults = {} /\ Quiet => Quiet')
  <1> DEFINE o == port[p]
             r == [o EXCEPT !.faultTimer = FALSE]
  <1>1. PICK ok \in Success(InitMayFail) :
          port' = [port EXCEPT ![p] =
                     IF r.link.up THEN bc_dispatch(p, r, "FAULT_CLEARED", FALSE, ok, TRUE) ELSE r]
    BY DEF FaultTimer
  <1> DEFINE d == bc_dispatch(p, r, "FAULT_CLEARED", FALSE, ok, TRUE)
             n == IF r.link.up THEN d ELSE r
  <1>2. /\ port' = [port EXCEPT ![p] = n] /\ clk' = clk /\ dds' = dds /\ sde' = sde
        /\ snap' = snap /\ pos' = Slot(p, "FAULT") /\ Visit(p, "FAULT")
    BY <1>1 DEF FaultTimer
  <1>3. port \in [Ports -> PortRecord] /\ o \in PortRecord /\ ok \in BOOLEAN
    BY SuccessType, ConstantsAssumption DEF IInv, TypeOK
  <1>4. Kin(r, o)
    BY <1>3 DEF Kin, PortRecord
  <1> HIDE DEF r
  <1>5. /\ r \in PortRecord /\ r.state = o.state /\ "FAULT_CLEARED" \in RunEvents \cap PortEvents
        /\ "NONE" \in RunEvents \cap PortEvents /\ "FAULT" \in Descriptors
    BY <1>4 DEF Kin, RunEvents, PortEvents, Events, Descriptors
  <1>6. /\ d.state \in Leading => r.state \in Leading
        /\ d.state \in Slaving => r.state \in Slaving
    BY <1>3, <1>5, DispatchRoles
  <1>7. RolesKept
    <2> HIDE DEF d
    <2>1. port'[p] = n /\ \A x \in Ports : x # p => port'[x] = port[x]
      BY <1>2, <1>3
    <2> QED  BY <1>2, <1>5, <1>6, <2>1 DEF RolesKept
  <1>8. pos' \in Nat /\ Slot(p, "FAULT") <= pos'
    BY <1>2, <1>5, SlotNat
  <1>9. ASSUME AsapFaults = {}, Quiet PROVE Quiet'
    <2>1. RoleTimers(o) /\ HasMessage(o) /\ RoleTimers(r)
      BY <1>4, <1>9, QuietPort, KinTimers DEF Kin
    <2>2. /\ Handed(o, r, "FAULT_CLEARED") /\ HandedQuietly("FAULT", o, r, "FAULT_CLEARED")
          /\ Handed(o, r, "NONE") /\ HandedQuietly("FAULT", o, r, "NONE")
      BY <1>4, <1>5, <2>1 DEF Handed, HandedQuietly, HasMessage, Kin
    <2>3. Alike(n, d) => Quiet'
      BY <1>2, <1>3, <1>5, <1>8, <1>9, <2>2, StepQuiet
    <2>4. CASE r.link.up
      BY <2>3, <2>4 DEF Alike
    <2>5. CASE ~r.link.up
      <3> DEFINE d0 == bc_dispatch(p, r, "NONE", FALSE, ok, TRUE)
      <3>1. state_machine(r.state, "NONE", FALSE) = r.state
        BY DEF state_machine, ptp_fsm, ptp_slave_fsm, CommonFsm, CommonEvents, Enabled, Slaving,
               SlaveOnlyEnabled
      <3>2. port_state_update(r, "NONE", FALSE, ok) = [r EXCEPT !.state = r.state]
        BY <1>9, <2>1, <3>1 DEF port_state_update, AsapCleared, EnterState, RoleTimers
      <3>3. [r EXCEPT !.state = r.state] = r
        BY <1>5 DEF PortRecord
      <3>4. MovePort(r, "NONE", FALSE, ok) = r
        BY <3>2, <3>3 DEF MovePort, Transitioned
      <3>5. d0 = r
        BY <3>4 DEF bc_dispatch, SwitchPhc
      <3>6. Alike(n, d0)
        BY <2>5, <3>5 DEF Alike
      <3> QED  BY <1>2, <1>3, <1>5, <1>8, <1>9, <2>2, <3>6, StepQuiet
    <2> QED  BY <2>4, <2>5
  <1> QED  BY <1>7, <1>9

-----------------------------------------------------------------------------
(* The state decision.                                                     *)

\* The port that has the clock's best is not recommended to be a master.
LEMMA BestDecision ==
  ASSUME NEW q, NEW cb
  PROVE  DecisionEvent(cb, q, cb) # "RS_MASTER"
  <1> DEFINE role == bmc_state_decision(Telecom, clock_default_ds,
                IF cb = NULL THEN NULL ELSE port_best_foreign(cb, q[cb]),
                port_best_foreign(cb, q[cb]), cb = cb, q[cb].state)
  <1>1. role \in {"LISTENING", "GRAND_MASTER", "PASSIVE", "SLAVE"}
    BY DEF bmc_state_decision
  <1>2. DecisionEvent(cb, q, cb) =
          CASE role = "LISTENING" -> "NONE"
            [] role = "GRAND_MASTER" -> "RS_GRAND_MASTER"
            [] role = "MASTER" -> "RS_MASTER"
            [] role = "PASSIVE" -> "RS_PASSIVE"
            [] role = "SLAVE" -> "RS_SLAVE"
    BY DEF DecisionEvent
  <1> HIDE DEF role
  <1> QED  BY <1>1, <1>2

\* The parent and the best of the clock after a decision.
LEMMA DecidedClock ==
  ASSUME IInv, NEW q, NEW cb, NEW id, NEW rec, NEW d, Taken(q, cb, id, rec, d)
  PROVE  /\ clk'.best = cb
         /\ (\E p \in Ports : rec[p] = "RS_GRAND_MASTER") => clk'.parent = OwnPid
  <1> DEFINE c0 == [clk EXCEPT !.best = cb, !.bestId = id]
             a == [priority1 |-> dds.priority1, clockClass |-> dds.clockClass,
                   clockAccuracy |-> dds.clockAccuracy, variance |-> dds.variance,
                   priority2 |-> dds.priority2, identity |-> dds.identity, stepsRemoved |-> 0]
             a2 == [q[c0.best].msgs[q[c0.best].best][1] EXCEPT !.stepsRemoved = @ + 1]
             b == q[c0.best].best
  <1>1. clk' = UpdatedClock(c0, rec, q) /\ cb \in Ports \cup {NULL} /\ id \in Nat \cup {NULL}
    BY DEF Taken
  <1>2. c0 \in ClockRecord /\ c0.best = cb
    BY <1>1 DEF IInv, TypeOK, ClockRecord
  <1>3. clock_update_grandmaster(c0) = [c0 EXCEPT !.parent = OwnPid, !.announced = a]
    BY DEF clock_update_grandmaster
  <1>4. clock_update_slave(c0, q[c0.best]) = [c0 EXCEPT !.parent = b, !.announced = a2]
    BY DEF clock_update_slave
  <1> HIDE DEF c0, a, a2, b
  <1>5. /\ [c0 EXCEPT !.parent = OwnPid, !.announced = a].best = cb
        /\ [c0 EXCEPT !.parent = OwnPid, !.announced = a].parent = OwnPid
        /\ [c0 EXCEPT !.parent = b, !.announced = a2].best = cb
    BY <1>2 DEF ClockRecord
  <1> QED  BY <1>1, <1>2, <1>3, <1>4, <1>5 DEF UpdatedClock

\* A decision echoes nothing, makes no port of a primary reference follow, and
\* leaves every port with the timers and the messages of its role.
LEMMA DecisionRoles ==
  ASSUME IInv, handle_state_decision_event, NEW p \in Ports
  PROVE  /\ port'[p].state \in Leading /\ clk'.best = p => clk'.parent = OwnPid
         /\ dds.clockClass <= 127 => port'[p].state \notin Slaving
         /\ AsapFaults = {} /\ Quiet =>
              RoleTimers(port'[p]) /\ HasMessage(port'[p])
  <1>1. PICK q, cb, id, rec, d : Taken(q, cb, id, rec, d)
    BY DecisionTaken
  <1>2. PICK m \in BOOLEAN, ok \in BOOLEAN, phc \in BOOLEAN :
          d[p] = bc_dispatch(p, q[p], rec[p], m, ok, phc)
    BY <1>1 DEF Taken
  <1> DEFINE next == state_machine(q[p].state, rec[p], m)
  <1>3. /\ BestSelected(q[p], port[p]) /\ rec[p] \in RsEvents
        /\ rec[p] = "NONE" => q[p].state = "LISTENING"
        /\ rec[p] = "RS_SLAVE" => p = cb
        /\ cb \in Ports => q[cb].best # NULL
        /\ port'[p] = d[p]
    BY <1>1 DEF Taken
  <1>4. p = cb => rec[p] = DecisionEvent(cb, q, cb)
    <2>1. p \in Nat /\ p \notin 1..(p - 1)
      BY DEF Ports
    <2> QED  BY <1>1, <2>1 DEF Taken
  <1>5. /\ q[p] \in PortRecord /\ q[p].state = port[p].state /\ q[p].armed = port[p].armed
        /\ q[p].dm = port[p].dm
    BY <1>3 DEF BestSelected
  <1>6. q[p].state \in States /\ rec[p] \in Events /\ rec[p] \in RunEvents
    BY <1>3, <1>5, PortFields DEF RsEvents, RunEvents, Events
  <1>7. Recommended(d[p], q[p], rec[p])
    BY <1>1, TakenObeyed
  <1>8. d[p].state \in {"LISTENING", "FAULTY", next}
    BY <1>2, <1>5, <1>6, DispatchFacts
  <1>9. clk'.best = cb /\ (rec[p] = "RS_GRAND_MASTER" => clk'.parent = OwnPid)
    BY <1>1, DecidedClock
  <1>10. SlaveOnly => q[p].state \notin MasterStates
    BY <1>5, PortOf DEF Sound
  <1>11. rec[p] \in {"RS_SLAVE", "RS_PASSIVE", "NONE"} => next \notin Leading
    <2>1. rec[p] \in {"RS_SLAVE", "RS_PASSIVE"} => next \notin Leading
      BY <1>6, <1>10, FsmObeys
    <2>2. rec[p] = "NONE" => next = "LISTENING"
      BY <1>3 DEF state_machine, ptp_fsm, ptp_slave_fsm, CommonEvents, Enabled, SlaveOnlyEnabled,
                  Slaving, States
    <2> QED  BY <2>1, <2>2 DEF Leading, Mastering
  <1> HIDE DEF next
  <1>12. d[p].state \in Leading /\ clk'.best = p => clk'.parent = OwnPid
    <2> SUFFICES ASSUME d[p].state \in Leading, clk'.best = p
                 PROVE  clk'.parent = OwnPid
      OBVIOUS
    <2>1. next \in Leading
      BY <1>8 DEF Leading, Mastering
    <2>2. rec[p] # "RS_MASTER"
      BY <1>4, <1>9, BestDecision
    <2>3. rec[p] = "RS_GRAND_MASTER"
      BY <1>3, <1>11, <2>1, <2>2 DEF RsEvents
    <2> QED  BY <1>9, <2>3
  <1>13. ASSUME d[p].state \in Slaving
         PROVE  rec[p] = "RS_SLAVE" /\ p = cb /\ q[p].best # NULL /\ SameMasters(d[p], q[p])
    BY <1>3, <1>7, <1>13 DEF Recommended, Following
  <1>14. dds.clockClass <= 127 => d[p].state \notin Slaving
    <2>1. dds \in DefaultDSs /\ clock_default_ds.clockClass = dds.clockClass
      BY DEF IInv, TypeOK, clock_default_ds
    <2>2. DecisionEvent(cb, q, cb) = "RS_SLAVE" => ~(clock_default_ds.clockClass <= 127)
      BY <2>1, DecisionFacts
    <2> QED  BY <1>4, <1>13, <2>1, <2>2
  <1>15. ASSUME AsapFaults = {}, Quiet
         PROVE  RoleTimers(d[p]) /\ HasMessage(d[p])
    <2>1. RoleTimers(q[p])
      BY <1>5, <1>15, QuietPort DEF RoleTimers
    <2>2. Moved(d[p], q[p], next)
      BY <1>2, <1>5, <1>6, <1>15, <2>1, DispatchQuiet DEF next
    <2>3. RoleTimers(d[p])
      BY <2>2 DEF Moved, RoleTimers
    <2>4. HasMessage(d[p])
      BY <1>3, <1>13 DEF HasMessage, SameMasters, BestSelected
    <2> QED  BY <2>3, <2>4
  <1> QED  BY <1>3, <1>12, <1>14, <1>15

-----------------------------------------------------------------------------
(* The other steps and the initial states.                                 *)

\* At the snapshot the timers that run are those of the roles.
LEMMA SnapshotTimely ==
  ASSUME NEW p \in Ports, NEW r, RoleTimers(r),
         NEW sn, sn \ {"FAULT"} \subseteq r.armed
  PROVE  Timely(p, r, 0, sn)
  <1>1. \A t \in {"DELAY", "MANNO", "SYNC_TX"} : t \in sn => t \in r.armed
    <2> SUFFICES ASSUME NEW t \in {"DELAY", "MANNO", "SYNC_TX"}, t \in sn PROVE t \in r.armed
      OBVIOUS
    <2>1. t # "FAULT"
      OBVIOUS
    <2> QED  BY <2>1
  <1> QED  BY <1>1 DEF Timely, RoleTimers

\* The end of a pass.
LEMMA EndPassStep ==
  ASSUME IInv, EndPass, NoEcho, PrimaryNeverFollows
  PROVE  NoEcho' /\ PrimaryNeverFollows' /\ (AsapFaults = {} /\ Quiet => Quiet')
  <1>1. /\ pos' = 0 /\ sde' = FALSE /\ dds' = dds
        /\ snap' = [p \in Ports |-> port'[p].armed
                       \cup (IF port'[p].faultTimer THEN {"FAULT"} ELSE {})]
    BY DEF EndPass
  <1>2. ASSUME NEW p \in Ports
        PROVE  /\ port'[p].state \in Leading /\ clk'.best = p => clk'.parent = OwnPid
               /\ dds.clockClass <= 127 => port'[p].state \notin Slaving
               /\ AsapFaults = {} /\ Quiet =>
                    RoleTimers(port'[p]) /\ HasMessage(port'[p])
    <2>1. CASE sde
      <3>1. handle_state_decision_event
        BY <2>1 DEF EndPass
      <3> QED  BY <3>1, DecisionRoles
    <2>2. CASE ~sde
      <3>1. port'[p] = port[p] /\ clk' = clk
        BY <2>2 DEF EndPass
      <3>2. port[p].state \in Leading /\ clk.best = p => clk.parent = OwnPid
        BY <2>2 DEF NoEcho, Leading
      <3>3. dds.clockClass <= 127 => port[p].state \notin Slaving
        BY <2>2 DEF PrimaryNeverFollows
      <3>4. Quiet => RoleTimers(port[p]) /\ HasMessage(port[p])
        BY QuietPort
      <3> QED  BY <3>1, <3>2, <3>3, <3>4
    <2> QED  BY <2>1, <2>2 DEF IInv, TypeOK
  <1>3. NoEcho'
    BY <1>2 DEF NoEcho, Leading
  <1>4. PrimaryNeverFollows'
    BY <1>1, <1>2 DEF PrimaryNeverFollows
  <1>5. ASSUME AsapFaults = {}, Quiet PROVE Quiet'
    <2>1. ASSUME NEW p \in Ports
          PROVE  /\ RoleTimers(port'[p]) /\ HasMessage(port'[p])
                 /\ Timely(p, port'[p], pos', snap'[p])
      <3>1. RoleTimers(port'[p]) /\ HasMessage(port'[p])
        BY <1>2, <1>5
      <3>2. snap'[p] \ {"FAULT"} \subseteq port'[p].armed
        BY <1>1
      <3>3. Timely(p, port'[p], 0, snap'[p])
        BY <3>1, <3>2, SnapshotTimely
      <3> QED  BY <1>1, <3>1, <3>3
    <2> QED  BY <2>1 DEF Quiet
  <1> QED  BY <1>3, <1>4, <1>5

\* Management asks for a decision.
LEMMA ManageStep ==
  ASSUME IInv, NEW d \in DefaultDSs, Manage(d)
  PROVE  NoEcho' /\ PrimaryNeverFollows' /\ (Quiet => Quiet')
  <1>1. /\ sde' = TRUE /\ pos' = UdsSlot /\ pos < UdsSlot
        /\ port' = port /\ snap' = snap
    BY DEF Manage
  <1>2. pos \in Nat /\ UdsSlot \in Nat
    BY ConstantsAssumption DEF IInv, TypeOK, UdsSlot
  <1>3. ASSUME Quiet, NEW p \in Ports PROVE Timely(p, port[p], pos', snap[p])
    BY <1>1, <1>2, <1>3, QuietPort, Later
  <1>4. Quiet => Quiet'
    BY <1>1, <1>3 DEF Quiet
  <1> QED  BY <1>1, <1>4 DEF NoEcho, PrimaryNeverFollows

\* clock_create.
LEMMA InitRoles ==
  ASSUME Init
  PROVE  NoEcho /\ PrimaryNeverFollows /\ (AsapFaults = {} => Quiet)
  <1>1. PICK ok \in [Ports -> Success(InitMayFail)] :
          port = [p \in Ports |->
                    bc_dispatch(p, port_open(p), "INITIALIZE", FALSE, ok[p], TRUE)]
    BY DEF Init
  <1>2. clk.parent = OwnPid
    BY DEF Init, clock_update_grandmaster
  <1>3. ASSUME NEW p \in Ports
        PROVE  /\ port[p].state \notin Slaving
               /\ AsapFaults = {} => RoleTimers(port[p])
    <2> DEFINE o == port_open(p)
               d == bc_dispatch(p, o, "INITIALIZE", FALSE, ok[p], TRUE)
    <2>1. o \in PortRecord /\ o.state = "INITIALIZING"
      BY NoMessagesType, ConstantsAssumption DEF port_open, PortRecord, States, FaultTypes
    <2>2. ok[p] \in BOOLEAN /\ "INITIALIZE" \in Events
      BY SuccessType, ConstantsAssumption DEF Events
    <2>3. state_machine("INITIALIZING", "INITIALIZE", FALSE) = "INITIALIZING"
      BY DEF state_machine, ptp_fsm, ptp_slave_fsm, CommonFsm, CommonEvents
    <2>4. port[p] = d
      BY <1>1
    <2> HIDE DEF o
    <2>5. d \in PortRecord /\ d.state \in {"LISTENING", "FAULTY", "INITIALIZING"}
      <3>1. d \in PortRecord
        BY <2>1, <2>2, DispatchFacts
      <3>2. d.state \in {"LISTENING", "FAULTY", state_machine(o.state, "INITIALIZE", FALSE)}
        BY <2>1, <2>2, DispatchFacts
      <3> HIDE DEF d
      <3> QED  BY <2>1, <2>3, <3>1, <3>2
    <2>6. AsapFaults = {} => RoleTimers(d)
      BY <2>1, <2>2, <2>3, DispatchQuiet DEF Moved
    <2> HIDE DEF d
    <2> QED  BY <2>4, <2>5, <2>6 DEF Slaving
  <1>4. NoEcho
    BY <1>2 DEF NoEcho
  <1>5. PrimaryNeverFollows
    BY <1>3 DEF PrimaryNeverFollows
  <1>6. ASSUME AsapFaults = {} PROVE Quiet
    <2>1. ASSUME NEW p \in Ports PROVE Timely(p, port[p], pos, snap[p])
      <3>1. pos = 0 /\ snap[p] = port[p].armed
        BY DEF Init
      <3>2. snap[p] \ {"FAULT"} \subseteq port[p].armed
        BY <3>1
      <3>3. Timely(p, port[p], 0, snap[p])
        BY <1>3, <1>6, <3>2, SnapshotTimely
      <3> QED  BY <3>1, <3>3
    <2> QED  BY <1>3, <1>6, <2>1 DEF Quiet, HasMessage
  <1> QED  BY <1>4, <1>5, <1>6

\* A step of any kind.
LEMMA StepRoles ==
  ASSUME IInv, [Next]_vars, NoEcho, PrimaryNeverFollows
  PROVE  NoEcho' /\ PrimaryNeverFollows' /\ (AsapFaults = {} /\ Quiet => Quiet')
  <1> DEFINE Goal == NoEcho' /\ PrimaryNeverFollows' /\ (AsapFaults = {} /\ Quiet => Quiet')
  <1>1. ASSUME NEW p \in Ports, PortNext(p) PROVE Goal
    <2>1. RolesKept /\ (AsapFaults = {} /\ Quiet => Quiet')
      BY <1>1, PortServed, ServedStep, FaultTimerStep
    <2> QED  BY <2>1, KeptRoles
  <1>2. ASSUME NEW d \in DefaultDSs, Manage(d) PROVE Goal
    BY <1>2, ManageStep
  <1>3. CASE EndPass
    BY <1>3, EndPassStep
  <1>4. CASE UNCHANGED vars
    BY <1>4 DEF vars, NoEcho, PrimaryNeverFollows, Quiet
  <1> QED  BY <1>1, <1>2, <1>3, <1>4 DEF Next

-----------------------------------------------------------------------------
(* The theorems.                                                           *)

\* Whatever the faults and however soon they are cleared: once a pass's decision is
\* taken, a port that leads is not the one the clock synchronises through, and no port
\* of a clock of class 127 or less follows (handle_state_decision_event,
\* bmc_state_decision).
THEOREM DecisionsObeyed == Spec => [](NoEcho /\ PrimaryNeverFollows)
  <1>1. Init => NoEcho /\ PrimaryNeverFollows
    BY InitRoles
  <1>2. IInv /\ NoEcho /\ PrimaryNeverFollows /\ [Next]_vars => NoEcho' /\ PrimaryNeverFollows'
    BY StepRoles
  <1> QED  BY <1>1, <1>2, Invariance, PTL DEF Spec

\* Where no fault is cleared at once, the timers, the messages and the snapshot of
\* every port fit its role all the time (port_e2e_transition, port_p2p_transition,
\* clock_poll): an expired timer is handled in the role in which it was started.
THEOREM RolesQuiet == ASSUME AsapFaults = {} PROVE Spec => []Quiet
  <1>1. Init => Quiet
    BY InitRoles
  <1>2. IInv /\ NoEcho /\ PrimaryNeverFollows /\ Quiet /\ [Next]_vars => Quiet'
    BY StepRoles
  <1> QED  BY <1>1, <1>2, Invariance, DecisionsObeyed, PTL DEF Spec

\* A peer to peer port measures its link in every enabled state (port_p2p_transition).
THEOREM PeerDelayTheorem == ASSUME AsapFaults = {} PROVE Spec => []PeerDelayRuns
  <1>1. Quiet => PeerDelayRuns
    BY DEF Quiet, RoleTimers, PeerDelayRuns
  <1> QED  BY <1>1, RolesQuiet, PTL

\* What a port sends and what the clock announces agree with the roles of the ports
\* (handle_state_decision_event, port_tx_announce, port_delay_request).
THEOREM RolesTheorem == ASSUME AsapFaults = {} PROVE Spec => []Roles
  <1>1. IInv /\ Quiet => OnlyMastersTransmit
    BY DEF Quiet, RoleTimers, OnlyMastersTransmit
  <1>2. IInv /\ Quiet => HybridDestination
    <2> SUFFICES ASSUME IInv, Quiet, NEW p \in Hybrid, Expired(p, "DELAY"), port[p].dm # "P2P"
                 PROVE  port[p].best # NULL /\ port[p].msgs[port[p].best] # <<>>
      BY DEF HybridDestination
    <2>1. p \in Ports
      BY ConstantsAssumption
    <2>2. port[p].state \in Slaving
      BY <2>1, QuietPort DEF Timely, Expired, Visit
    <2>3. port[p].msgs[port[p].best] # <<>>
      BY <2>1, <2>2, QuietPort DEF HasMessage
    <2>4. port[p].best \in SeqRange(port[p].fms) /\ port[p].fms \in Seq(Senders)
      BY <2>1, <2>2, PortOf, PortFields DEF Sound, Following
    <2>5. port[p].best \in Senders
      BY <2>4 DEF SeqRange
    <2> QED  BY <2>3, <2>5, ConstantsAssumption, NullAssumption
  <1>3. NoEcho /\ PrimaryNeverFollows /\ OnlyMastersTransmit /\ HybridDestination => Roles
    BY DEF Roles
  <1> QED  BY <1>1, <1>2, <1>3, Invariance, RolesQuiet, DecisionsObeyed, PTL
=============================================================================
