-------------------------- MODULE TransparentClock --------------------------
(***************************************************************************)
(* A transparent clock (tc.c, e2e_tc.c, p2p_tc.c): messages are forwarded  *)
(* from the port they arrive at to all others, and the time a Sync or a    *)
(* Delay_Req stayed inside is added to the correction of the Follow_Up or  *)
(* Delay_Resp that belongs to it.  Each port remembers what it sent in a   *)
(* list of descriptors; the buffers of the messages are counted (msg.c)    *)
(* and shared by the lists.                                                *)
(*                                                                         *)
(* A residence time is abstracted to the record of what it measures, a     *)
(* correction to the set of residence times added to it.                   *)
(***************************************************************************)
EXTENDS PortFsm, Integers, FiniteSets, SequencesExt

CONSTANTS
  NULL,
  PortList,       \* the ports in the order of the clock's list
  Messages,       \* the messages that arrive: [type, oneStep, src: a port identity,
                  \* seq: a sequence number, domain: whether it is the clock's own]
  Buffers,        \* bound: message buffers, a set of numbers (the code may malloc more)
  Configs,        \* pairs of a delay mechanism and a value of tc_spanning_tree
  Recommended,    \* what a state decision may recommend: functions from ports to events
  MayFail         \* the types of the messages that may fail to be sent, or of event
                  \* messages whose time stamp may be missing

Ports == ToSet(PortList)

EventTypes == {"SYNC", "DELAY_REQ"}

TcAssumption ==
  /\ \A m \in Messages :
       /\ m.type \in {"SYNC", "FOLLOW_UP", "DELAY_REQ", "DELAY_RESP", "ANNOUNCE", "PDELAY"}
       /\ m.oneStep \in BOOLEAN /\ (m.oneStep => m.type = "SYNC") /\ m.domain \in BOOLEAN
  /\ Buffers \subseteq Nat /\ IsFiniteSet(Buffers)
  /\ Configs \subseteq {"E2E", "P2P"} \X BOOLEAN
  /\ MayFail \subseteq EventTypes \cup {"FOLLOW_UP", "DELAY_RESP", "ANNOUNCE"}
  /\ Recommended \subseteq [Ports -> {"RS_SLAVE", "RS_MASTER", "RS_GRAND_MASTER", "RS_PASSIVE"}]

VARIABLES
  mech,    \* the delay mechanism
  tree,    \* tc_spanning_tree
  state,   \* the ports' states
  delay,   \* whether the port's delay timer is armed
  list,    \* tc_transmitted: descriptors [buf, ingress, residence]
  buf,     \* the buffers
  out      \* what the last step completed and sent: the properties' view

vars == <<mech, tree, state, delay, list, buf, out>>

\* What a handler works on.
World == [state |-> state, delay |-> delay, list |-> list, buf |-> buf, out |-> {}]

Unused(ref) == [type |-> NULL, src |-> NULL, seq |-> NULL, corr |-> {}, old |-> FALSE, ref |-> ref]

\* The handler is done; what a buffer in the pool contains does not matter.
Become(w) ==
  /\ state' = w.state /\ delay' = w.delay /\ list' = w.list /\ out' = w.out
  /\ buf' = [b \in Buffers |-> IF w.buf[b].ref > 0 THEN w.buf[b] ELSE Unused(w.buf[b].ref)]
  /\ UNCHANGED <<mech, tree>>

Residence(m, q, p) == [src |-> m.src, seq |-> m.seq, in |-> q, out |-> p]

-----------------------------------------------------------------------------
(* Buffers.  A buffer is in the pool again when its last reference is put. *)

Free(w) == {b \in Buffers : w.buf[b].ref <= 0}

msg_allocate(w, b, m) ==
  [w EXCEPT !.buf[b] = [type |-> m.type, src |-> m.src, seq |-> m.seq,
                        corr |-> {}, old |-> FALSE, ref |-> 1]]

msg_get(w, b) == [w EXCEPT !.buf[b].ref = @ + 1]

msg_put(w, b) == [w EXCEPT !.buf[b].ref = @ - 1]

PutAll(w, ds) == FoldLeft(LAMBDA v, d : msg_put(v, d.buf), w, ds)

\* Mutation: the list is emptied without releasing the messages.
tc_flush_leaking(w, p) == [w EXCEPT !.list[p] = <<>>]

tc_flush(w, p) == [PutAll(w, w.list[p]) EXCEPT !.list[p] = <<>>]

\* The descriptors tc_prune leaves: it stops at the first one of the last second.
Current(w, ds) ==
  LET young == {i \in DOMAIN ds : ~w.buf[ds[i].buf].old}
  IN IF young = {} THEN <<>> ELSE SubSeq(ds, Min(young), Len(ds))

tc_prune(w, p) ==
  LET kept == Current(w, w.list[p])
      gone == SubSeq(w.list[p], 1, Len(w.list[p]) - Len(kept))
  IN [PutAll(w, gone) EXCEPT !.list[p] = kept]

-----------------------------------------------------------------------------
(* The ports.                                                              *)

\* Mutation: the delay timer is stopped with the others.
tc_dispatch_all_timers(w, p, e, mdiff) ==
  LET next == ptp_fsm(w.state[p], e, mdiff)
      s == IF next = "INITIALIZING" THEN "LISTENING" ELSE next
      moved == [w EXCEPT !.state[p] = s]
  IN CASE s = w.state[p] -> w
       [] s # w.state[p] /\ s \in {"FAULTY", "DISABLED"} ->
            [tc_flush(moved, p) EXCEPT !.delay[p] = FALSE]
       [] OTHER -> [moved EXCEPT !.delay[p] = s = "LISTENING"]

\* e2e_dispatch and p2p_dispatch: port_disable stops every timer and flushes;
\* otherwise the delay timer is left running.
tc_dispatch(w, p, e, mdiff) ==
  LET next == ptp_fsm(w.state[p], e, mdiff)
      s == IF next = "INITIALIZING" THEN "LISTENING" ELSE next
      moved == [w EXCEPT !.state[p] = s]
  IN CASE s = w.state[p] -> w
       [] s # w.state[p] /\ s \in {"FAULTY", "DISABLED"} ->
            [tc_flush(moved, p) EXCEPT !.delay[p] = FALSE]
       [] OTHER -> [moved EXCEPT !.delay[p] = @ \/ s = "LISTENING"]

Fault(w, p) == tc_dispatch(w, p, "FAULT_DETECTED", FALSE)

\* tc_blocked: Delay_Req runs from master to slave ports, all else the other way.
\* A message of another domain is forwarded without regard to the tree.
tc_blocked(w, q, p, m) ==
  \/ q = p
  \/ /\ tree /\ m.domain
     /\ IF m.type = "DELAY_REQ"
        THEN ~(w.state[q] \in Slaving \cup Mastering /\ w.state[p] \in Slaving)
        ELSE ~(w.state[q] \in Slaving /\ w.state[p] \in Mastering)

-----------------------------------------------------------------------------
(* Residence times.                                                        *)

Remember(w, q, p, b, residence) ==
  [msg_get(w, b) EXCEPT
     !.list[p] = Append(@, [buf |-> b, ingress |-> q, residence |-> residence])]

\* The descriptor leaves the list, if it is still there, and is released.
Release(w, p, d) ==
  [msg_put(w, d.buf) EXCEPT !.list[p] = IF d \in ToSet(@) THEN Remove(@, d) ELSE @]

\* Mutation: the sequence number is not compared.
SameMessage_any_number(w, q, b, d) ==
  /\ d.ingress = q
  /\ w.buf[b].src = w.buf[d.buf].src

SameMessage(w, q, b, d) ==
  /\ d.ingress = q
  /\ w.buf[b].seq = w.buf[d.buf].seq /\ w.buf[b].src = w.buf[d.buf].src

tc_match_syfup(w, q, b, d) ==
  /\ SameMessage(w, q, b, d)
  /\ <<w.buf[d.buf].type, w.buf[b].type>> \in {<<"SYNC", "FOLLOW_UP">>, <<"FOLLOW_UP", "SYNC">>}

\* The identity in a Delay_Resp is the one of the requesting port.
tc_match_delay(w, p, b, d) ==
  SameMessage(w, p, b, d) /\ w.buf[d.buf].type = "DELAY_REQ"

\* transport_send of a general message: a port that is down has no socket.
Sent(w, p, ok) == ok[p] /\ w.state[p] \in Enabled

\* The message goes out with residence added to its correction, which has its
\* former value afterwards.
SendCompleted(w, q, p, b, residence, ok) ==
  LET m == w.buf[b] IN
  IF ~Sent(w, p, ok) THEN Fault(w, p)
  ELSE [w EXCEPT !.out = @ \cup {[type |-> m.type, at |-> Residence(m, q, p),
                                  corr |-> m.corr \cup {residence}]}]

\* The first descriptor of the list that passes the test.
FirstOf(ds, S) == ds[Min(S)]

tc_complete_syfup(w, q, p, b, residence, ok) ==
  LET found == {i \in DOMAIN w.list[p] : tc_match_syfup(w, q, b, w.list[p][i])}
      d == FirstOf(w.list[p], found)
  IN CASE found = {} -> Remember(w, q, p, b, residence)
       [] found # {} /\ w.buf[b].type = "FOLLOW_UP" ->
            Release(SendCompleted(w, q, p, b, d.residence, ok), p, d)
       [] found # {} /\ w.buf[b].type = "SYNC" ->
            Release(SendCompleted(w, q, p, d.buf, residence, ok), p, d)

tc_complete_response(w, q, p, b, ok) ==
  LET found == {i \in DOMAIN w.list[q] : tc_match_delay(w, p, b, w.list[q][i])}
      d == FirstOf(w.list[q], found)
  IN IF found = {} THEN w ELSE Release(SendCompleted(w, q, p, b, d.residence, ok), q, d)

tc_complete(w, q, p, b, residence, ok) ==
  CASE w.buf[b].type \in {"SYNC", "FOLLOW_UP"} -> tc_complete_syfup(w, q, p, b, residence, ok)
    [] w.buf[b].type = "DELAY_REQ" -> Remember(w, q, p, b, residence)
    [] w.buf[b].type = "DELAY_RESP" -> tc_complete_response(w, q, p, b, ok)

-----------------------------------------------------------------------------
(* Forwarding.  ok and stamped tell, for each port, how sending ends.      *)

\* The ports that are not blocked get the message, in the order of the list.
tc_forward(w, q, m, ok) ==
  FoldLeft(LAMBDA v, p : IF tc_blocked(v, q, p, m) \/ Sent(v, p, ok) THEN v ELSE Fault(v, p),
           w, PortList)

tc_fwd_event(w, q, b, m, ok, stamped) ==
  FoldLeft(LAMBDA v, p :
             IF tc_blocked(v, q, p, m) THEN v
             ELSE IF Sent(v, p, stamped)
             THEN tc_complete(v, q, p, b, Residence(m, q, p), ok)
             ELSE Fault(v, p),
           tc_forward(w, q, m, stamped), PortList)

\* tc_fwd_folup and tc_fwd_response
tc_fwd_general(w, q, b, m, ok) ==
  FoldLeft(LAMBDA v, p : IF tc_blocked(v, q, p, m) THEN v
                         ELSE tc_complete(v, q, p, b, NULL, ok),
           w, PortList)

\* A one step Sync goes out as a two step one, followed by a new Follow_Up.
tc_fwd_sync(w, q, b, m, ok, stamped) ==
  LET event == tc_fwd_event(w, q, b, m, ok, stamped)
      f == Min(Free(w))
      fup == [m EXCEPT !.type = "FOLLOW_UP"]
  IN IF m.oneStep
     THEN msg_put(tc_fwd_general(msg_allocate(event, f, fup), q, f, fup, ok), f)
     ELSE event

\* What e2e_event and p2p_event do with a message besides processing it locally.
Forward(w, q, b, m, ok, stamped) ==
  CASE m.type = "SYNC" -> tc_fwd_sync(w, q, b, m, ok, stamped)
    [] m.type = "FOLLOW_UP" -> tc_fwd_general(w, q, b, m, ok)
    [] m.type = "DELAY_REQ" /\ mech = "E2E" -> tc_fwd_event(w, q, b, m, ok, stamped)
    [] m.type = "DELAY_RESP" /\ mech = "E2E" -> tc_fwd_general(w, q, b, m, ok)
    [] m.type = "ANNOUNCE" -> tc_forward(w, q, m, ok)
    [] OTHER -> w

\* The events process_sync and process_follow_up may dispatch to a port that
\* follows (see PortMessages), and the fault of a rogue peer delay response.
LocalEvents(q, m) ==
  CASE m.domain /\ m.type \in {"SYNC", "FOLLOW_UP"} /\ state[q] \in Slaving ->
         {"NONE", "SYNCHRONIZATION_FAULT", "MASTER_CLOCK_SELECTED"}
    [] m.domain /\ m.type = "PDELAY" /\ mech = "P2P" -> {"NONE", "FAULT_DETECTED"}
    [] OTHER -> {"NONE"}

\* The general message a message that arrived goes out as or with.
Outgoing(m) == IF m.type = "SYNC" THEN "FOLLOW_UP" ELSE m.type

Receive(q, m, ok, stamped, e) ==
  /\ state[q] \in Enabled
  /\ Cardinality(Free(World)) >= IF m.oneStep THEN 2 ELSE 1
  /\ e \in LocalEvents(q, m)
  /\ LET b == Max(Free(World))
         done == Forward(msg_allocate(World, b, m), q, b, m, ok, stamped)
     IN Become(msg_put(tc_dispatch(done, q, e, FALSE), b))

-----------------------------------------------------------------------------
(* Timers, link and state decisions.                                       *)

\* FD_DELAY_TIMER: the list is pruned; an own request may fail.
DelayTimer(p, sent) ==
  /\ delay[p]
  /\ ~sent => state[p] \in (IF mech = "P2P" THEN Enabled ELSE Slaving)
  /\ \E w \in {tc_prune(World, p)} :
       Become(IF sent THEN w ELSE Fault(w, p))

\* The announce and qualification timers.
StateTimer(p) ==
  \/ /\ state[p] \in {"LISTENING", "PASSIVE"} \cup Slaving
     /\ Become(tc_dispatch(World, p, "ANNOUNCE_RECEIPT_TIMEOUT_EXPIRES", FALSE))
  \/ /\ state[p] = "PRE_MASTER"
     /\ Become(tc_dispatch(World, p, "QUALIFICATION_TIMEOUT_EXPIRES", FALSE))

\* A link that goes down or comes up, or the fault timer.
Link(p, e) ==
  /\ IF e = "FAULT_CLEARED" THEN state[p] = "FAULTY" ELSE state[p] \in Enabled
  /\ Become(tc_dispatch(World, p, e, FALSE))

StateDecision(rec, mdiff) ==
  Become(FoldLeft(LAMBDA w, p : tc_dispatch(w, p, rec[p], mdiff), World, PortList))

\* A second passes for everything that is kept.
Second ==
  /\ Become([World EXCEPT !.buf = [b \in Buffers |-> [buf[b] EXCEPT !.old = buf[b].ref > 0]]])

Init ==
  /\ \E c \in Configs : mech = c[1] /\ tree = c[2]
  /\ state = [p \in Ports |-> "LISTENING"]
  /\ delay = [p \in Ports |-> TRUE]
  /\ list = [p \in Ports |-> <<>>]
  /\ buf = [b \in Buffers |-> Unused(0)]
  /\ out = {}

\* Sending succeeds everywhere, or fails on one port.
Outcomes(mayFail) == {[p \in Ports |-> p # f] : f \in IF mayFail THEN Ports \cup {NULL} ELSE {NULL}}

Next ==
  \/ \E q \in Ports, m \in Messages :
       \E ok \in Outcomes(Outgoing(m) \in MayFail \ EventTypes),
          stamped \in Outcomes(m.type \in MayFail \cap EventTypes), e \in LocalEvents(q, m) :
         Receive(q, m, ok, stamped, e)
  \/ \E p \in Ports, sent \in BOOLEAN : DelayTimer(p, sent)
  \/ \E p \in Ports : StateTimer(p)
  \/ \E p \in Ports, e \in {"FAULT_DETECTED", "FAULT_CLEARED"} : Link(p, e)
  \/ \E rec \in Recommended, mdiff \in BOOLEAN : StateDecision(rec, mdiff)
  \/ Second

Spec == Init /\ [][Next]_vars

-----------------------------------------------------------------------------
(* Properties.                                                             *)

Residences ==
  {[src |-> m.src, seq |-> m.seq, in |-> q, out |-> p] : m \in Messages, q \in Ports, p \in Ports}

TypeOK ==
  /\ <<mech, tree>> \in Configs
  /\ state \in [Ports -> States] /\ delay \in [Ports -> BOOLEAN]
  /\ \A p \in Ports :
       list[p] \in Seq([buf : Buffers, ingress : Ports, residence : Residences \cup {NULL}])
  /\ \A b \in Buffers : buf[b].ref \in Int /\ buf[b].corr = {}
  /\ out \subseteq [type : {"FOLLOW_UP", "DELAY_RESP"}, at : Residences, corr : SUBSET Residences]

Holders(b) == {pi \in {<<p, i>> : p \in Ports, i \in 1..Cardinality(Buffers)} :
                 pi[2] \in DOMAIN list[pi[1]] /\ list[pi[1]][pi[2]].buf = b}

\* "Messages are reference counted", and msg_put releases "a reference to a message,
\* decreasing its reference count by one" (msg.h): between two events, a buffer has
\* exactly the references of the lists that hold it, so none is lost and none is recycled
\* while a port still remembers it (tc_flush, tc_prune, tc_complete).  It is not so where
\* a Follow_Up cannot be sent: the fault flushes the list of the port, and what it held
\* is released once more (tc_complete_syfup).
RefsExact ==
  /\ TypeOK
  /\ \A b \in Buffers : Cardinality(Holders(b)) = buf[b].ref

\* A Follow_Up leaves with the residence time its own Sync had on this very way
\* through the clock and no other, a Delay_Resp with the one of its request on
\* the way back (tc_complete_syfup, tc_complete_response).
RightResidence ==
  \A o \in out :
    o.corr = {IF o.type = "FOLLOW_UP" THEN o.at ELSE [o.at EXCEPT !.in = o.at.out, !.out = o.at.in]}

\* What a port that is up remembers is pruned a second later: its delay timer
\* keeps running through every change of state, and the prune, which looks only
\* at the head of the list, finds the oldest there (e2e_dispatch, tc_prune).
WillBePruned ==
  \A p \in Ports : state[p] \in Enabled /\ list[p] # <<>> =>
    /\ delay[p]
    /\ \A i, j \in DOMAIN list[p] :
         i < j /\ buf[list[p][j].buf].old => buf[list[p][i].buf].old
=============================================================================
