---------------------------- MODULE PortMessages ----------------------------
(***************************************************************************)
(* The messages a port of an ordinary or boundary clock keeps while it     *)
(* measures: the unpaired Sync or Follow_Up, the Delay_Reqs waiting for an *)
(* answer and the peer delay exchange (port.c), the reference counts of    *)
(* their buffers (msg.c) and the time stamps tsproc.c combines.            *)
(*                                                                         *)
(* The network is the worst possible: every message of the given sets may  *)
(* arrive at any time, so that loss, duplication, delay and reordering are *)
(* all included.  A time stamp of the local clock is abstracted to the     *)
(* question whether it was taken on the clock as it runs now or before the *)
(* last step of the clock.                                                 *)
(***************************************************************************)
EXTENDS PortFsm, Integers, Sequences

CONSTANTS
  NULL,
  Sources,       \* identities of the ports of other clocks
  SeqMod,        \* sequence numbers are taken modulo SeqMod (2^16 in the code)
  Configs,       \* the configurations: delay mechanism, 802.1AS, tsproc mode,
                 \* check_fup_sync, net_sync_monitor, samples of a rate estimate
  Traffic,       \* for each configuration, the messages that may arrive
  MaxRequests,   \* bound: Delay_Reqs sent within the 5 s delay_req_prune keeps
  NewParents,    \* whether a state decision may replace the parent
  SendMayFail    \* whether sending may fail

SeqIds == 0..(SeqMod - 1)
Modes == {"FILTER", "RAW", "FILTER_WEIGHT", "RAW_WEIGHT"}
ALLOWED_LOST_RESPONSES == 3

\* A time stamp of the local clock: none, of before or of after its last step.
Stamps == {"none", "old", "now"}

\* What is kept of a request, of a response and of a response's follow up.
Requests == [seq : SeqIds, at : Stamps]
Responses == [src : Sources, seq : SeqIds, oneStep : BOOLEAN, mine : BOOLEAN, at : Stamps]
FollowUps == [src : Sources, seq : SeqIds, mine : BOOLEAN, at : Stamps]

ASSUME ConstantsAssumption ==
  /\ SeqMod \in Nat \ {0}
  /\ NULL \notin Sources \cup Requests \cup Responses \cup FollowUps
  /\ Configs \subseteq [dm : {"E2E", "P2P", "AUTO"}, as : BOOLEAN, mode : Modes,
                        fupSync : BOOLEAN, nsm : BOOLEAN, maxCount : Nat \ {0}]
  /\ \A c \in Configs :
       /\ Traffic[c].sync \subseteq [src : Sources, seq : SeqIds, oneStep : BOOLEAN]
       /\ Traffic[c].fup \subseteq [src : Sources, seq : SeqIds]
       /\ Traffic[c].delayResp \subseteq [src : Sources, seq : SeqIds, mine : BOOLEAN]
       /\ Traffic[c].pdelayReq \subseteq Sources
       /\ Traffic[c].pdelayResp \subseteq
            [src : Sources, seq : SeqIds, oneStep : BOOLEAN, mine : BOOLEAN]
       /\ Traffic[c].pdelayFup \subseteq [src : Sources, seq : SeqIds, mine : BOOLEAN]
  /\ MaxRequests \in Nat \ {0}
  /\ {NewParents, SendMayFail} \subseteq BOOLEAN

VARIABLES
  conf,   \* the options read at start
  port,   \* the port's record
  clk,    \* the clock: parent, and tsproc's t2, t3 and filtered delay
  pair    \* the last Sync and Follow_Up used together

vars == <<conf, port, clk, pair>>

Success == IF SendMayFail THEN BOOLEAN ELSE {TRUE}

Seq16(n) == n % SeqMod

-----------------------------------------------------------------------------
(* Reference counts.  port.used is the number of buffers taken from the    *)
(* pool; a buffer goes back when its count reaches zero.  Only last keeps  *)
(* its count, because its pointer outlives its reference.                  *)

Held(x) == IF x = NULL THEN 0 ELSE 1

Nothing(ref) == [kind |-> NULL, src |-> NULL, seq |-> 0, at |-> "none", ref |-> ref]

\* msg_put(p->last_syncfup); syfu is set to EMPTY with it, so the content of the
\* message is not read again.
PutLast(r) == [r EXCEPT !.last = Nothing(@.ref - 1), !.syfu = "EMPTY",
                        !.used = IF r.last.ref = 1 THEN @ - 1 ELSE @]

\* msg_get(m); p->last_syncfup = m
KeepLast(r, m, kind, at, syfu) ==
  [r EXCEPT !.last = [kind |-> kind, src |-> m.src, seq |-> m.seq, at |-> at, ref |-> 1],
            !.used = @ + 1, !.syfu = syfu]

\* Mutation: the message is forgotten without being released.
flush_last_sync_leaking(r) == [r EXCEPT !.syfu = "EMPTY", !.last = Nothing(@.ref)]

flush_last_sync(r) ==
  IF r.syfu = "EMPTY" THEN r ELSE PutLast(r)

flush_delay_req(r) == [r EXCEPT !.reqs = <<>>, !.used = @ - Len(r.reqs)]

ForgetRequest(r) == [r EXCEPT !.req = NULL, !.used = @ - Held(r.req)]

ForgetResponses(r) ==
  [r EXCEPT !.rsp = NULL, !.fup = NULL, !.used = @ - Held(r.rsp) - Held(r.fup)]

flush_peer_delay(r) == ForgetResponses(ForgetRequest(r))

\* delay_req_prune: the oldest requests go, k of them stay.
delay_req_prune(r, k) ==
  [r EXCEPT !.reqs = SubSeq(@, 1, k), !.used = @ - (Len(r.reqs) - k)]

-----------------------------------------------------------------------------
(* The port's state (port_state_update and the transitions) and the        *)
(* capability of an 802.1AS port.                                          *)

port_disable(r) == flush_peer_delay(flush_delay_req(flush_last_sync(r)))

port_nrate_initialize(r) ==
  [r EXCEPT !.missing = ALLOWED_LOST_RESPONSES + 1, !.capable = FALSE, !.peer = NULL,
            !.rate = [started |-> FALSE, count |-> 0, valid |-> FALSE]]

port_initialize(r) == port_nrate_initialize([r EXCEPT !.multiCount = 0, !.multi = FALSE])

\* Entering a state, as far as kept messages are concerned.
port_transition(r) ==
  CASE r.state \in {"FAULTY", "DISABLED"} -> port_disable(r)
    [] r.state = "UNCALIBRATED" /\ r.dm = "P2P" -> flush_peer_delay(flush_last_sync(r))
    [] r.state = "UNCALIBRATED" /\ r.dm # "P2P" -> flush_delay_req(flush_last_sync(r))
    [] OTHER -> r

\* INITIALIZING is left at once: a port that was faulty listens again.
port_state_update(r, e, mdiff) ==
  LET next == ptp_fsm(r.state, e, mdiff)
  IN IF next = "INITIALIZING"
     THEN [port_initialize(r) EXCEPT !.state = ptp_fsm(next, "INIT_COMPLETE", FALSE)]
     ELSE [r EXCEPT !.state = next]

bc_dispatch(r, e, mdiff) ==
  LET moved == port_state_update(r, e, mdiff)
  IN IF moved.state = r.state THEN moved ELSE port_transition(moved)

\* An 802.1AS port takes part only while its neighbour answers properly.
IsCapable(r) ==
  conf.as => /\ r.near /\ r.missing <= ALLOWED_LOST_RESPONSES
             /\ r.multiCount = 0 /\ r.peer # NULL /\ r.rate.valid

port_capable(r) ==
  IF IsCapable(r) THEN [r EXCEPT !.capable = TRUE]
  ELSE IF r.capable THEN port_nrate_initialize(r) ELSE r

-----------------------------------------------------------------------------
(* Time stamp processing (tsproc.c, clock_synchronize).                    *)

\* tsproc_update_offset has what its mode needs; t1 and t2 have just been set.
OffsetReady(c) ==
  CASE conf.mode = "FILTER" -> c.delay
    [] conf.mode \in {"RAW", "RAW_WEIGHT"} -> c.t3 # "none"
    [] conf.mode = "FILTER_WEIGHT" -> c.t3 # "none" /\ c.delay

\* tsproc_update_delay succeeds: a delay is computed from t2 and t3.
DelayReady(c) == c.t2 # "none" /\ c.t3 # "none"

tsproc_reset(c, full) ==
  [c EXCEPT !.t2 = "none", !.t3 = "none", !.delay = IF full THEN FALSE ELSE @]

\* clock_path_delay
clock_path_delay(c, at) ==
  LET up == [c EXCEPT !.t3 = at] IN [up EXCEPT !.delay = @ \/ DelayReady(up)]

\* clock_peer_delay: the port's delay is taken over as it is.
clock_peer_delay(c, at) == [c EXCEPT !.t3 = at, !.delay = TRUE]

\* The clock is stepped: every kept local stamp is one of the old time.
Age(at) == IF at = "now" THEN "old" ELSE at
Aged(x) == [x EXCEPT !.at = Age(@)]
AgeIn(x) == IF x = NULL THEN NULL ELSE Aged(x)

Stepped(r) ==
  [r EXCEPT !.last = Aged(@), !.req = AgeIn(@), !.rsp = AgeIn(@),
            !.reqs = [i \in DOMAIN @ |-> Aged(@[i])]]

\* clock_synchronize, when the servo answers servo.
SynchronizedClock(c, at, servo) ==
  LET down == [c EXCEPT !.t2 = at]
  IN IF servo = "JUMP" THEN tsproc_reset(down, FALSE) ELSE down

\* The answers clock_synchronize may give.
ServoStates(c) == IF OffsetReady(c) THEN {"UNLOCKED", "JUMP", "LOCKED"} ELSE {"UNLOCKED"}

\* Mutation: a step of the clock leaves the peer delay request.
port_synchronize_keeping_request(r, servo) ==
  CASE servo = "UNLOCKED" -> bc_dispatch(r, "SYNCHRONIZATION_FAULT", FALSE)
    [] servo = "JUMP" -> flush_delay_req(bc_dispatch(Stepped(r), "SYNCHRONIZATION_FAULT", FALSE))
    [] servo = "LOCKED" -> bc_dispatch(r, "MASTER_CLOCK_SELECTED", FALSE)

port_synchronize(r, servo) ==
  CASE servo = "UNLOCKED" -> bc_dispatch(r, "SYNCHRONIZATION_FAULT", FALSE)
    [] servo = "JUMP" ->
         ForgetRequest(flush_delay_req(bc_dispatch(Stepped(r), "SYNCHRONIZATION_FAULT", FALSE)))
    [] servo = "LOCKED" -> bc_dispatch(r, "MASTER_CLOCK_SELECTED", FALSE)

-----------------------------------------------------------------------------
(* Sync and Follow_Up.                                                     *)

Half(kind, m) == [kind |-> kind, src |-> m.src, seq |-> m.seq]

\* The message takes the place of the one kept before, if any.
Replace(r, m, kind, at, syfu) == KeepLast(flush_last_sync(r), m, kind, at, syfu)

\* port_syfufsm on FUP_MATCH and SYNC_MATCH.  The dispatch inside
\* port_synchronize may have flushed the message already; it is put again.
UseBoth(r, servo) == PutLast(port_synchronize(r, servo))

Accepts(r, m) == r.state \in Slaving /\ m.src = clk.parent

\* bc_event: port_ignore evaluates the capability before anything else.
Receive == port.state \in Enabled

RecvSync(m, swOk, servo) ==
  /\ Receive
  /\ \E r \in {port_capable(port)} :
       CASE ~r.capable \/ ~Accepts(r, m) ->
              servo = "UNLOCKED" /\ port' = r /\ UNCHANGED <<clk, pair>>
         [] r.capable /\ Accepts(r, m) /\ m.oneStep ->
              /\ servo \in ServoStates([clk EXCEPT !.t2 = "now"])
              /\ clk' = SynchronizedClock(clk, "now", servo)
              /\ port' = flush_last_sync(port_synchronize(r, servo))
              /\ pair' = pair
         [] r.capable /\ Accepts(r, m) /\ ~m.oneStep
              /\ r.syfu = "HAVE_FUP" /\ r.last.seq = m.seq /\ swOk ->
              /\ servo \in ServoStates([clk EXCEPT !.t2 = "now"])
              /\ clk' = SynchronizedClock(clk, "now", servo)
              /\ port' = UseBoth(r, servo)
              /\ pair' = [sync |-> Half("SYNC", m), fup |-> Half("FOLLOW_UP", r.last)]
         [] OTHER ->
              /\ servo = "UNLOCKED"
              /\ port' = Replace(r, m, "SYNC", "now", "HAVE_SYNC")
              /\ UNCHANGED <<clk, pair>>
  /\ conf' = conf

\* Mutation: a Follow_Up is taken for the one of the Sync that is kept.
FupMatches_any(r, m) == r.syfu = "HAVE_SYNC"

FupMatches(r, m) == r.syfu = "HAVE_SYNC" /\ r.last.seq = m.seq

RecvFollowUp(m, servo) ==
  /\ Receive
  /\ \E r \in {port_capable(port)} :
       CASE ~Accepts(r, m) -> servo = "UNLOCKED" /\ port' = r /\ UNCHANGED <<clk, pair>>
         [] Accepts(r, m) /\ FupMatches(r, m) ->
              /\ servo \in ServoStates([clk EXCEPT !.t2 = r.last.at])
              /\ clk' = SynchronizedClock(clk, r.last.at, servo)
              /\ port' = UseBoth(r, servo)
              /\ pair' = [sync |-> Half("SYNC", r.last), fup |-> Half("FOLLOW_UP", m)]
         [] OTHER ->
              /\ servo = "UNLOCKED"
              /\ port' = Replace(r, m, "FOLLOW_UP", "none", "HAVE_FUP")
              /\ UNCHANGED <<clk, pair>>
  /\ conf' = conf
-----------------------------------------------------------------------------
(* Delay requests, both kinds.                                             *)

\* A handler left the port as r and the clock as c and returned event e.
Return(r, c, e) ==
  /\ port' = bc_dispatch(r, e, FALSE)
  /\ clk' = c
  /\ UNCHANGED <<conf, pair>>

NextSeq(r) == [r EXCEPT !.seq = Seq16(@ + 1)]

\* An outstanding request counts as lost, if the port is capable.  A port that
\* is not 802.1AS never reads the count, which is capped here.
LoseRequest(r) ==
  IF r.req = NULL THEN r
  ELSE IF IsCapable(r) /\ r.missing <= ALLOWED_LOST_RESPONSES
  THEN ForgetRequest([port_capable(r) EXCEPT !.missing = @ + 1])
  ELSE ForgetRequest(port_capable(r))

port_pdelay_request(r, sent) ==
  LET counted == NextSeq([r EXCEPT !.multiCount = IF r.multi THEN @ ELSE 0, !.multi = FALSE])
  IN IF sent
     THEN [LoseRequest(counted) EXCEPT !.req = [seq |-> r.seq, at |-> "now"], !.used = @ + 1]
     ELSE counted

E2eRequest(r, sent) ==
  IF sent
  THEN [NextSeq(r) EXCEPT !.reqs = <<[seq |-> r.seq, at |-> "now"]>> \o @, !.used = @ + 1]
  ELSE NextSeq(r)

\* What was answered before belongs to an earlier request now.
Asked(r) == [r EXCEPT !.rsp = AgeIn(@), !.fup = AgeIn(@)]

\* FD_DELAY_TIMER: prune, forget the last answers and send a request.
DelayTimer(k, sent) ==
  /\ (port.dm = "P2P" /\ port.state \in Enabled) \/ port.state \in Slaving
  /\ k \in 0..Len(port.reqs) /\ k < MaxRequests
  /\ \E r \in {Asked(ForgetResponses(delay_req_prune(port, k)))} :
       Return(IF port.dm = "P2P" THEN port_pdelay_request(r, sent) ELSE E2eRequest(r, sent),
              clk, IF sent THEN "NONE" ELSE "FAULT_DETECTED")

\* The first request in the list with the sequence number of the response.
Answered(r, m) == {i \in DOMAIN r.reqs :
  r.reqs[i].seq = m.seq /\ \A j \in 1..(i - 1) : r.reqs[j].seq # m.seq}

RecvDelayResp(m) ==
  /\ Receive
  /\ \E r \in {port_capable(port)} :
       IF Accepts(r, m) /\ m.mine /\ Answered(r, m) # {}
       THEN \E i \in Answered(r, m) :
              Return([r EXCEPT !.reqs = SubSeq(@, 1, i - 1) \o SubSeq(@, i + 1, Len(@)),
                               !.used = @ - 1],
                     clock_path_delay(clk, r.reqs[i].at), "NONE")
       ELSE Return(r, clk, "NONE")

\* port_tx_sync sends seqnum.sync and seqnum.sync - 1 in the Follow_Up.
port_tx_sync(r) == [r EXCEPT !.sync = Seq16(@ + 1)]

\* Mutation: the port goes on from the number of the monitor's request.
NsmReply_without_restore(r, n) == port_tx_sync([r EXCEPT !.sync = n])

\* The Sync of a monitor's reply carries the number of the request; the port's own
\* number is put back, whether or not the Sync and its Follow_Up could be sent.
NsmReply(r, n) == [port_tx_sync([r EXCEPT !.sync = n]) EXCEPT !.sync = r.sync]

\* process_delay_req; nsm is a request of a network synchronisation monitor, which is
\* also sent a Sync.  sent tells of the response, synced of that Sync and its Follow_Up.
RecvDelayReq(n, nsm, sent, synced) ==
  /\ Receive
  /\ nsm => conf.nsm
  /\ \E r \in {port_capable(port)} :
       IF r.dm # "P2P" /\ (nsm \/ r.state \in Mastering)
       THEN Return(IF nsm /\ sent /\ r.capable THEN NsmReply(r, n) ELSE r, clk,
                   IF sent /\ (nsm /\ r.capable => synced) THEN "NONE" ELSE "FAULT_DETECTED")
       ELSE Return(r, clk, "NONE")

\* FD_SYNC_TX_TIMER
SyncTxTimer(sent) ==
  /\ port.state \in Mastering
  /\ \E r \in {port_capable(port)} :
       Return(IF r.capable THEN port_tx_sync(r) ELSE r, clk,
              IF sent \/ ~r.capable THEN "NONE" ELSE "FAULT_DETECTED")

-----------------------------------------------------------------------------
(* The peer delay exchange.                                                *)

\* The neighbour's identity is learnt, or found to have changed.
NotePeer(r, src) ==
  CASE r.peer = NULL -> [r EXCEPT !.peer = src]
    [] r.peer # NULL /\ r.peer # src -> port_capable([r EXCEPT !.peer = NULL])
    [] OTHER -> r

RecvPdelayReq(src, sent) ==
  /\ Receive
  /\ \E r \in {port_capable(port)} :
       IF r.dm = "E2E" THEN Return(r, clk, "NONE")
       ELSE Return(NotePeer([r EXCEPT !.dm = "P2P"], src), clk,
                   IF sent THEN "NONE" ELSE "FAULT_DETECTED")

\* The answer is complete: a one step response, or a response and its follow up.
Complete(r) ==
  /\ r.rsp # NULL /\ r.rsp.mine /\ r.rsp.seq = r.req.seq
  /\ r.rsp.oneStep \/ /\ r.fup # NULL /\ r.fup.mine
                      /\ r.fup.seq = r.rsp.seq /\ r.fup.src = r.rsp.src

port_nrate_calculate(r) ==
  [r EXCEPT !.missing = 0,
            !.rate = CASE ~@.started -> [@ EXCEPT !.started = TRUE]
                       [] @.started /\ @.count + 1 < conf.maxCount -> [@ EXCEPT !.count = @ + 1]
                       [] OTHER -> [started |-> TRUE, count |-> 0, valid |-> TRUE]]

\* near: the delay found lies between the thresholds of port_capable.
port_peer_delay(r, near) ==
  IF ~Complete(r) THEN Return(r, clk, "NONE")
  ELSE Return(ForgetRequest(IF conf.as THEN [port_nrate_calculate(r) EXCEPT !.near = near] ELSE r),
              IF r.state \in Slaving THEN clock_peer_delay(clk, r.req.at) ELSE clk, "NONE")

\* A second responder is counted once per request.
CountResponder(r, m) ==
  IF r.rsp # NULL /\ r.rsp.src # m.src /\ ~r.multi
  THEN [r EXCEPT !.multi = TRUE, !.multiCount = @ + 1] ELSE r

BadNetwork(r, m) == r.rsp # NULL /\ r.rsp.src # m.src /\ r.multiCount >= 3

KeepResponse(r, m) ==
  [r EXCEPT !.rsp = [src |-> m.src, seq |-> m.seq, oneStep |-> m.oneStep, mine |-> m.mine,
                     at |-> "now"], !.used = @ + 1 - Held(r.rsp)]

RecvPdelayResp(m, near) ==
  /\ Receive
  /\ \E r \in {CountResponder(port_capable(port), m)} :
       IF BadNetwork(r, m) \/ r.req = NULL THEN Return(r, clk, "FAULT_DETECTED")
       ELSE port_peer_delay(KeepResponse(NotePeer(r, m.src), m), near)

RecvPdelayRespFup(m, near) ==
  /\ Receive
  /\ \E r \in {port_capable(port)} :
       IF r.req = NULL THEN Return(r, clk, "NONE")
       ELSE port_peer_delay([r EXCEPT !.fup = [src |-> m.src, seq |-> m.seq, mine |-> m.mine,
                                               at |-> "now"],
                                      !.used = @ + 1 - Held(r.fup)], near)

\* A message of another domain or of this clock itself, or one without a stamp.
IgnoreMessage == Receive /\ Return(port_capable(port), clk, "NONE")

-----------------------------------------------------------------------------
(* The rest of the port and of the clock, as events (see BoundaryClock).   *)

\* handle_state_decision_event: a new grandmaster (mdiff) resets tsproc; a port
\* that is to follow finds its master's identity in the parent data set.
StateDecision(e, s, mdiff) ==
  /\ port.state \in Enabled
  /\ IF e = "RS_SLAVE" THEN s \in Sources ELSE s = NULL
  /\ s # clk.parent => NewParents \/ clk.parent = NULL \/ s = NULL
  /\ port' = bc_dispatch(port, e, mdiff)
  /\ clk' = [(IF mdiff THEN tsproc_reset(clk, TRUE) ELSE clk) EXCEPT !.parent = s]
  /\ UNCHANGED <<conf, pair>>

\* FD_ANNOUNCE_TIMER and FD_SYNC_RX_TIMER
ReceiptTimer(k) ==
  /\ port.state \in {"LISTENING", "PASSIVE"} \cup Slaving
  /\ k \in 0..Len(port.reqs)
  /\ Return(delay_req_prune(port, k), clk, "ANNOUNCE_RECEIPT_TIMEOUT_EXPIRES")

PortEvent(e) ==
  /\ e = "QUALIFICATION_TIMEOUT_EXPIRES" => port.state = "PRE_MASTER"
  /\ e = "FAULT_CLEARED" => port.state = "FAULTY"
  /\ Return(port, clk, e)

Init ==
  /\ conf \in Configs
  /\ port = [state |-> "LISTENING", dm |-> conf.dm, syfu |-> "EMPTY",
             last |-> Nothing(0),
             reqs |-> <<>>, req |-> NULL, rsp |-> NULL, fup |-> NULL, seq |-> 0, sync |-> 0,
             peer |-> NULL, multi |-> FALSE, multiCount |-> 0, near |-> TRUE,
             missing |-> ALLOWED_LOST_RESPONSES + 1, capable |-> FALSE,
             rate |-> [started |-> FALSE, count |-> 0, valid |-> FALSE], used |-> 0]
  /\ clk = [parent |-> NULL, t2 |-> "none", t3 |-> "none", delay |-> FALSE]
  /\ pair = NULL

ServoAnswers == {"UNLOCKED", "JUMP", "LOCKED"}

Next ==
  \/ \E m \in Traffic[conf].sync, swOk \in (IF conf.fupSync THEN BOOLEAN ELSE {TRUE}), v \in ServoAnswers :
       RecvSync(m, swOk, v)
  \/ \E m \in Traffic[conf].fup, v \in ServoAnswers : RecvFollowUp(m, v)
  \/ \E m \in Traffic[conf].delayResp : RecvDelayResp(m)
  \/ \E m \in Traffic[conf].pdelayResp, near \in BOOLEAN : RecvPdelayResp(m, near)
  \/ \E m \in Traffic[conf].pdelayFup, near \in BOOLEAN : RecvPdelayRespFup(m, near)
  \/ \E n \in SeqIds, nsm \in BOOLEAN, sent \in Success, synced \in Success :
       RecvDelayReq(n, nsm, sent, synced)
  \/ \E s \in Traffic[conf].pdelayReq, sent \in Success : RecvPdelayReq(s, sent)
  \/ \E k \in 0..MaxRequests, sent \in Success : DelayTimer(k, sent)
  \/ \E sent \in Success : SyncTxTimer(sent)
  \/ IgnoreMessage
  \/ \E e \in {"RS_SLAVE", "RS_PASSIVE", "RS_GRAND_MASTER"}, s \in Sources \cup {NULL},
       mdiff \in BOOLEAN : StateDecision(e, s, mdiff)
  \/ \E k \in 0..MaxRequests : ReceiptTimer(k)
  \/ \E e \in {"QUALIFICATION_TIMEOUT_EXPIRES", "FAULT_DETECTED", "FAULT_CLEARED"} : PortEvent(e)

Spec == Init /\ [][Next]_vars
-----------------------------------------------------------------------------
(* Properties.                                                             *)

SyncHalf == [kind : {"SYNC"}, src : Sources, seq : SeqIds]
FupHalf == [kind : {"FOLLOW_UP"}, src : Sources, seq : SeqIds]

\* The last Sync or Follow_Up, and the estimate of the neighbour's rate.
Lasts == [kind : {"SYNC", "FOLLOW_UP", NULL}, src : Sources \cup {NULL}, seq : SeqIds,
          at : Stamps, ref : -1..1]
Rates == [started : BOOLEAN, count : Nat, valid : BOOLEAN]

PortRecord ==
  [state : States, dm : {"E2E", "P2P", "AUTO"}, syfu : {"EMPTY", "HAVE_SYNC", "HAVE_FUP"},
   last : Lasts, reqs : Seq(Requests), req : Requests \cup {NULL}, rsp : Responses \cup {NULL},
   fup : FollowUps \cup {NULL}, seq : SeqIds, sync : SeqIds, peer : Sources \cup {NULL},
   multi : BOOLEAN, multiCount : 0..3, near : BOOLEAN,
   missing : 0..(ALLOWED_LOST_RESPONSES + 1), capable : BOOLEAN,
   rate : Rates, used : Nat]

ClockRecord == [parent : Sources \cup {NULL}, t2 : Stamps, t3 : Stamps, delay : BOOLEAN]

TypeOK ==
  /\ conf \in Configs
  /\ port \in PortRecord
  /\ clk \in ClockRecord
  /\ pair \in [sync : SyncHalf, fup : FupHalf] \cup {NULL}

\* Every buffer taken from the pool is one the port still refers to, and the
\* kept Sync or Follow_Up is referred to exactly as long as syfu says so,
\* through all the flushes of transitions, steps of the clock and faults.
NoLeak ==
  /\ TypeOK
  /\ port.used = Held(port.req) + Held(port.rsp) + Held(port.fup) + Len(port.reqs)
                 + (IF port.syfu = "EMPTY" THEN 0 ELSE 1)
  /\ port.syfu # "EMPTY" <=> port.last.ref = 1

\* No local time stamp of before a step of the clock is ever combined with one
\* of after it: tsproc_reset, flush_delay_req and port_synchronize together
\* leave no old stamp in reach, nor the answers to an earlier peer request.
OneTimescale ==
  /\ "old" \notin {clk.t2, clk.t3}
  /\ \A i \in DOMAIN port.reqs : port.reqs[i].at = "now"
  /\ port.syfu = "HAVE_SYNC" => port.last.at = "now"
  /\ port.req # NULL => /\ port.req.at = "now"
                        /\ port.rsp # NULL => port.rsp.at = "now"
                        /\ port.fup # NULL => port.fup.at = "now"

\* The Syncs a port sends as a master are numbered without gaps or repetitions:
\* the replies to network synchronisation monitors, which a port sends in any
\* state and with the numbers of the requests, do not disturb the numbering, also
\* when they cannot be sent (process_delay_req, port_tx_sync).
SyncNumbers ==
  [][/\ port'.sync \in {port.sync, Seq16(port.sync + 1)}
     /\ port'.sync # port.sync => port.state \in Mastering]_vars

\* The matcher implements its abstract specification.
Matcher == INSTANCE SyncPairing WITH
  half <- IF port.syfu = "EMPTY" THEN NULL ELSE Half(port.last.kind, port.last)

MatcherSpec == Matcher!Spec

=============================================================================
