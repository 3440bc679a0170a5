------------------------- MODULE PortMessagesProofs -------------------------
(***************************************************************************)
(* No leak of a message buffer, no mixing of the time before and after a   *)
(* step of the clock, and the refinement of SyncPairing, for any set of    *)
(* sources, any configurations and any traffic.                            *)
(***************************************************************************)
EXTENDS PortMessages, SequenceTheorems, TLAPS

-----------------------------------------------------------------------------
(* What is true of a port's record between two events.                     *)

\* The reference counts of NoLeak.
Balanced(r) ==
  /\ r.used = Held(r.req) + Held(r.rsp) + Held(r.fup) + Len(r.reqs)
              + (IF r.syfu = "EMPTY" THEN 0 ELSE 1)
  /\ r.syfu # "EMPTY" <=> r.last.ref = 1

\* syfu tells the kind of the message that is kept, which has a sender.
RightKind(r) ==
  /\ r.syfu = "HAVE_SYNC" => r.last.kind = "SYNC" /\ r.last.src \in Sources
  /\ r.syfu = "HAVE_FUP" => r.last.kind = "FOLLOW_UP" /\ r.last.src \in Sources

\* The third response of a second responder is answered with a fault, and the
\* count starts again when the port is initialised.
Counted(r) ==
  r.state # "INITIALIZING" /\ (r.state \in Enabled => r.multiCount <= 2)

\* The part of OneTimescale that is about the port.
Fresh(r) ==
  /\ \A i \in DOMAIN r.reqs : r.reqs[i].at = "now"
  /\ r.syfu = "HAVE_SYNC" => r.last.at = "now"
  /\ r.req # NULL => /\ r.req.at = "now"
                     /\ r.rsp # NULL => r.rsp.at = "now"
                     /\ r.fup # NULL => r.fup.at = "now"

Sound(r) == r \in PortRecord /\ Balanced(r) /\ RightKind(r)

IInv ==
  /\ TypeOK
  /\ Sound(port) /\ Counted(port) /\ Fresh(port)
  /\ "old" \notin {clk.t2, clk.t3}

\* The half of a pair that a port keeps: the refinement mapping.
Kept(r) == IF r.syfu = "EMPTY" THEN NULL ELSE Half(r.last.kind, r.last)

\* From r to d the port took no message for a half and sent no Sync of its own.
Mute(r, d) ==
  /\ d.sync = r.sync
  /\ Kept(d) \in {Kept(r), NULL}
  /\ r.last.ref \in {0, 1} => d.last.ref \in {0, 1}

\* Moreover what is still kept has the time stamps it had.
Quiet(r, d) == Mute(r, d) /\ (Fresh(r) => Fresh(d))

\* The same messages are kept.
SameMessages(r, d) ==
  /\ d.last = r.last /\ d.syfu = r.syfu /\ d.used = r.used /\ d.sync = r.sync
  /\ d.reqs = r.reqs /\ d.req = r.req /\ d.rsp = r.rsp /\ d.fup = r.fup

\* The port is where it was.
SamePlace(r, d) == d.state = r.state /\ d.dm = r.dm /\ d.multiCount = r.multiCount

\* d is r less some of its messages.
Released(r, d) == Sound(d) /\ Quiet(r, d) /\ SamePlace(r, d)

\* Quiet steps can be put together.
LEMMA QuietTwice ==
  ASSUME NEW r, NEW d, NEW f, Quiet(r, d), Quiet(d, f)
  PROVE  Quiet(r, f)
  BY DEF Quiet, Mute

\* A record with the same messages is as sound, and nothing happened to it.
LEMMA SameIsSound ==
  ASSUME NEW r, NEW d, Sound(r), d \in PortRecord, SameMessages(r, d)
  PROVE  Sound(d) /\ Quiet(r, d)
  BY DEF Sound, SameMessages, Balanced, RightKind, Quiet, Mute, Fresh, Kept

-----------------------------------------------------------------------------
(* Releasing messages.                                                     *)

\* A kept message is not NULL.
LEMMA HeldFacts ==
  ASSUME NEW r \in PortRecord
  PROVE  /\ Held(NULL) = 0
         /\ Held(r.req) \in {0, 1} /\ Held(r.rsp) \in {0, 1} /\ Held(r.fup) \in {0, 1}
         /\ Len(r.reqs) \in Nat
  BY DEF Held, PortRecord

\* msg_put of the last Sync or Follow_Up, whether or not it was flushed before.
LEMMA PutLastSound ==
  ASSUME NEW r, Sound(r), r.last.ref \in {0, 1}
  PROVE  /\ Sound(PutLast(r)) /\ SamePlace(r, PutLast(r))
         /\ PutLast(r).sync = r.sync /\ Kept(PutLast(r)) = NULL
         /\ Fresh(r) => Fresh(PutLast(r))
         /\ PutLast(r).last.ref = r.last.ref - 1
         /\ PutLast(r).syfu = "EMPTY" /\ PutLast(r).req = r.req /\ PutLast(r).reqs = r.reqs
  <1> DEFINE d == PutLast(r)
             n == Nothing(r.last.ref - 1)
             u == IF r.last.ref = 1 THEN r.used - 1 ELSE r.used
  <1>1. r \in PortRecord /\ Balanced(r)
    BY DEF Sound
  <1>2. n \in Lasts /\ n.ref = r.last.ref - 1
    <2>1. SeqMod \in Nat \ {0}
      BY ConstantsAssumption
    <2> QED  BY <2>1 DEF Nothing, Lasts, SeqIds, Stamps
  <1>3. u \in Nat
    BY <1>1, HeldFacts DEF Balanced, PortRecord
  <1>4. d = [r EXCEPT !.last = n, !.syfu = "EMPTY", !.used = u]
    BY DEF PutLast
  <1>5. u = Held(r.req) + Held(r.rsp) + Held(r.fup) + Len(r.reqs)
    BY <1>1, HeldFacts DEF Balanced, PortRecord
  <1> HIDE DEF d, n, u
  <1>6. /\ d \in PortRecord /\ SamePlace(r, d)
        /\ d.req = r.req /\ d.reqs = r.reqs /\ d.rsp = r.rsp /\ d.fup = r.fup
        /\ d.syfu = "EMPTY" /\ d.sync = r.sync /\ d.used = u /\ d.last = n
    BY <1>1, <1>2, <1>3, <1>4 DEF PortRecord, SamePlace
  <1>7. Balanced(d) /\ RightKind(d)
    BY <1>1, <1>2, <1>5, <1>6, HeldFacts DEF Balanced, RightKind
  <1>8. Kept(d) = NULL /\ (Fresh(r) => Fresh(d))
    BY <1>6 DEF Kept, Fresh
  <1> QED  BY <1>2, <1>6, <1>7, <1>8 DEF Sound, d

\* flush_last_sync releases the kept half, once.
LEMMA FlushLastSound ==
  ASSUME NEW r, Sound(r)
  PROVE  /\ Released(r, flush_last_sync(r))
         /\ flush_last_sync(r).syfu = "EMPTY"
         /\ flush_last_sync(r).req = r.req /\ flush_last_sync(r).reqs = r.reqs
  <1>1. CASE r.syfu = "EMPTY"
    BY <1>1 DEF flush_last_sync, Released, SamePlace, Quiet, Mute
  <1>2. CASE r.syfu # "EMPTY"
    <2>1. r.last.ref = 1
      BY <1>2 DEF Sound, Balanced
    <2> QED  BY <1>2, <2>1, PutLastSound DEF flush_last_sync, Released, Quiet, Mute
  <1> QED  BY <1>1, <1>2

\* flush_delay_req releases every Delay_Req.
LEMMA FlushRequestsSound ==
  ASSUME NEW r, Sound(r)
  PROVE  /\ Released(r, flush_delay_req(r))
         /\ flush_delay_req(r).req = r.req /\ flush_delay_req(r).reqs = <<>>
  <1> DEFINE d == flush_delay_req(r)
             u == r.used - Len(r.reqs)
  <1>1. r \in PortRecord /\ Balanced(r)
    BY DEF Sound
  <1>2. u \in Nat /\ u = Held(r.req) + Held(r.rsp) + Held(r.fup)
                        + (IF r.syfu = "EMPTY" THEN 0 ELSE 1)
    BY <1>1, HeldFacts DEF Balanced
  <1>3. d = [r EXCEPT !.reqs = <<>>, !.used = u]
    BY DEF flush_delay_req
  <1>4. <<>> \in Seq(Requests) /\ Len(<<>>) = 0 /\ DOMAIN <<>> = {}
    OBVIOUS
  <1> HIDE DEF d, u
  <1>5. /\ d \in PortRecord /\ SamePlace(r, d)
        /\ d.req = r.req /\ d.reqs = <<>> /\ d.rsp = r.rsp /\ d.fup = r.fup
        /\ d.syfu = r.syfu /\ d.sync = r.sync /\ d.used = u /\ d.last = r.last
    BY <1>1, <1>2, <1>3, <1>4 DEF PortRecord, SamePlace
  <1>6. Balanced(d) /\ RightKind(d)
    BY <1>1, <1>2, <1>4, <1>5, HeldFacts DEF Balanced, RightKind, Sound
  <1>7. Quiet(r, d)
    BY <1>4, <1>5 DEF Quiet, Mute, Kept, Fresh
  <1> QED  BY <1>5, <1>6, <1>7 DEF Sound, Released, d

\* The peer delay request is released.
LEMMA ForgetRequestSound ==
  ASSUME NEW r, Sound(r)
  PROVE  /\ Released(r, ForgetRequest(r))
         /\ ForgetRequest(r).req = NULL /\ ForgetRequest(r).reqs = r.reqs
         /\ ForgetRequest(r).rsp = r.rsp /\ ForgetRequest(r).fup = r.fup
  <1> DEFINE d == ForgetRequest(r)
             u == r.used - Held(r.req)
  <1>1. r \in PortRecord /\ Balanced(r)
    BY DEF Sound
  <1>2. u \in Nat /\ u = Held(r.rsp) + Held(r.fup) + Len(r.reqs)
                        + (IF r.syfu = "EMPTY" THEN 0 ELSE 1)
    <2>1. /\ Held(r.req) \in {0, 1} /\ Held(r.rsp) \in {0, 1} /\ Held(r.fup) \in {0, 1}
          /\ Len(r.reqs) \in Nat
      BY <1>1, HeldFacts
    <2> QED  BY <1>1, <2>1 DEF Balanced
  <1>3. d = [r EXCEPT !.req = NULL, !.used = u]
    BY DEF ForgetRequest
  <1> HIDE DEF d, u
  <1>4. /\ d \in PortRecord /\ SamePlace(r, d)
        /\ d.req = NULL /\ d.reqs = r.reqs /\ d.rsp = r.rsp /\ d.fup = r.fup
        /\ d.syfu = r.syfu /\ d.sync = r.sync /\ d.used = u /\ d.last = r.last
    BY <1>1, <1>2, <1>3 DEF PortRecord, SamePlace
  <1>5. Balanced(d) /\ RightKind(d)
    BY <1>1, <1>2, <1>4, HeldFacts DEF Balanced, RightKind, Sound
  <1>6. Quiet(r, d)
    BY <1>4 DEF Quiet, Mute, Kept, Fresh
  <1> QED  BY <1>4, <1>5, <1>6 DEF Sound, Released, d

\* The peer's response and its follow up are released.
LEMMA ForgetResponsesSound ==
  ASSUME NEW r, Sound(r)
  PROVE  /\ Released(r, ForgetResponses(r))
         /\ ForgetResponses(r).req = r.req /\ ForgetResponses(r).reqs = r.reqs
         /\ ForgetResponses(r).rsp = NULL /\ ForgetResponses(r).fup = NULL
  <1> DEFINE d == ForgetResponses(r)
             u == r.used - Held(r.rsp) - Held(r.fup)
  <1>1. r \in PortRecord /\ Balanced(r)
    BY DEF Sound
  <1>2. u \in Nat /\ u = Held(r.req) + Len(r.reqs) + (IF r.syfu = "EMPTY" THEN 0 ELSE 1)
    BY <1>1, HeldFacts DEF Balanced
  <1>3. d = [r EXCEPT !.rsp = NULL, !.fup = NULL, !.used = u]
    BY DEF ForgetResponses
  <1> HIDE DEF d, u
  <1>4. /\ d \in PortRecord /\ SamePlace(r, d)
        /\ d.req = r.req /\ d.reqs = r.reqs /\ d.rsp = NULL /\ d.fup = NULL
        /\ d.syfu = r.syfu /\ d.sync = r.sync /\ d.used = u /\ d.last = r.last
    BY <1>1, <1>2, <1>3 DEF PortRecord, SamePlace
  <1>5. Balanced(d) /\ RightKind(d)
    BY <1>1, <1>2, <1>4, HeldFacts DEF Balanced, RightKind, Sound
  <1>6. Quiet(r, d)
    BY <1>4 DEF Quiet, Mute, Kept, Fresh
  <1> QED  BY <1>4, <1>5, <1>6 DEF Sound, Released, d

\* delay_req_prune releases the requests it drops.
LEMMA PruneSound ==
  ASSUME NEW r, Sound(r), NEW k \in 0..Len(r.reqs)
  PROVE  /\ Released(r, delay_req_prune(r, k))
         /\ delay_req_prune(r, k).req = r.req
  <1> DEFINE d == delay_req_prune(r, k)
             q == SubSeq(r.reqs, 1, k)
             u == r.used - (Len(r.reqs) - k)
  <1>1. r \in PortRecord /\ Balanced(r)
    BY DEF Sound
  <1>2. r.reqs \in Seq(Requests) /\ Len(r.reqs) \in Nat /\ k \in Nat
    BY <1>1 DEF PortRecord
  <1>3. q \in Seq(Requests) /\ Len(q) = k /\ \A i \in 1..k : q[i] = r.reqs[i]
    BY <1>2, SubSeqProperties
  <1>4. u \in Nat /\ u = Held(r.req) + Held(r.rsp) + Held(r.fup) + Len(q)
                        + (IF r.syfu = "EMPTY" THEN 0 ELSE 1)
    <2>1. /\ Held(r.req) \in {0, 1} /\ Held(r.rsp) \in {0, 1} /\ Held(r.fup) \in {0, 1}
      BY <1>1, HeldFacts
    <2> DEFINE half == IF r.syfu = "EMPTY" THEN 0 ELSE 1
               all == Len(r.reqs)
    <2>2. r.used = Held(r.req) + Held(r.rsp) + Held(r.fup) + all + half
      BY <1>1 DEF Balanced
    <2>3. half \in {0, 1} /\ all \in Nat /\ k \in Nat /\ k <= all /\ Len(q) = k
      BY <1>2, <1>3
    <2> HIDE DEF q, half, all
    <2>4. /\ r.used - (all - k) \in Nat
          /\ r.used - (all - k) = Held(r.req) + Held(r.rsp) + Held(r.fup) + k + half
      BY <2>1, <2>2, <2>3
    <2> QED  BY <2>3, <2>4 DEF half, all
  <1>5. d = [r EXCEPT !.reqs = q, !.used = u]
    BY DEF delay_req_prune
  <1> HIDE DEF d, u, q
  <1>6. /\ d \in PortRecord /\ SamePlace(r, d)
        /\ d.req = r.req /\ d.reqs = q /\ d.rsp = r.rsp /\ d.fup = r.fup
        /\ d.syfu = r.syfu /\ d.sync = r.sync /\ d.used = u /\ d.last = r.last
    BY <1>1, <1>3, <1>4, <1>5 DEF PortRecord, SamePlace
  <1>7. Balanced(d) /\ RightKind(d)
    BY <1>1, <1>4, <1>6 DEF Balanced, RightKind, Sound
  <1>8. Fresh(r) => Fresh(d)
    <2>1. DOMAIN q = 1..k /\ DOMAIN r.reqs = 1..Len(r.reqs) /\ 1..k \subseteq 1..Len(r.reqs)
      BY <1>2, <1>3
    <2> QED  BY <1>3, <1>6, <2>1 DEF Fresh
  <1>9. Quiet(r, d)
    BY <1>6, <1>8 DEF Quiet, Mute, Kept
  <1> QED  BY <1>6, <1>7, <1>9 DEF Sound, Released, d

\* Releases can be put together.
LEMMA ReleasedTwice ==
  ASSUME NEW r, NEW d, NEW f, Released(r, d), Released(d, f)
  PROVE  Released(r, f)
  BY QuietTwice DEF Released, SamePlace

\* flush_peer_delay and port_disable only release messages.
LEMMA DisableSound ==
  ASSUME NEW r, Sound(r)
  PROVE  Released(r, flush_peer_delay(r)) /\ Released(r, port_disable(r))
  <1>1. ASSUME NEW x, Sound(x) PROVE Released(x, flush_peer_delay(x))
    <2>1. Released(x, ForgetRequest(x)) /\ Sound(ForgetRequest(x))
      BY <1>1, ForgetRequestSound DEF Released
    <2>2. Released(ForgetRequest(x), ForgetResponses(ForgetRequest(x)))
      BY <2>1, ForgetResponsesSound
    <2> QED  BY <2>1, <2>2, ReleasedTwice DEF flush_peer_delay
  <1>2. Released(r, flush_last_sync(r)) /\ Sound(flush_last_sync(r))
    BY FlushLastSound DEF Released
  <1>3. /\ Released(flush_last_sync(r), flush_delay_req(flush_last_sync(r)))
        /\ Sound(flush_delay_req(flush_last_sync(r)))
    BY <1>2, FlushRequestsSound DEF Released
  <1>4. Released(r, flush_delay_req(flush_last_sync(r)))
    BY <1>2, <1>3, ReleasedTwice
  <1>5. Released(flush_delay_req(flush_last_sync(r)), port_disable(r))
    BY <1>1, <1>3 DEF port_disable
  <1> QED  BY <1>1, <1>4, <1>5, ReleasedTwice

-----------------------------------------------------------------------------
(* The state machine and the capability.                                   *)

\* What the port state machine does with the events of this module.
LEMMA FsmFacts ==
  ASSUME NEW s \in States, s # "INITIALIZING", NEW e \in Events, NEW m \in BOOLEAN
  PROVE  /\ ptp_fsm(s, e, m) \in States
         /\ ptp_fsm("INITIALIZING", "INIT_COMPLETE", FALSE) = "LISTENING"
         /\ ptp_fsm(s, e, m) \in Enabled => s \in Enabled
         /\ s \in Enabled /\ e = "FAULT_DETECTED" => ptp_fsm(s, e, m) = "FAULTY"
  BY DEF ptp_fsm, CommonFsm, States, Events, CommonEvents, Enabled, Slaving

\* port_nrate_initialize and port_initialize keep the messages.
LEMMA InitializeSame ==
  ASSUME NEW r \in PortRecord
  PROVE  /\ port_nrate_initialize(r) \in PortRecord
         /\ SameMessages(r, port_nrate_initialize(r)) /\ SamePlace(r, port_nrate_initialize(r))
         /\ port_initialize(r) \in PortRecord
         /\ SameMessages(r, port_initialize(r))
         /\ port_initialize(r).multiCount = 0
  <1> DEFINE rate == [started |-> FALSE, count |-> 0, valid |-> FALSE]
             none == 0
             z == [r EXCEPT !.multiCount = none, !.multi = FALSE]
  <1>1. rate \in Rates
    BY DEF Rates
  <1>2. ASSUME NEW x \in PortRecord
        PROVE  /\ port_nrate_initialize(x) \in PortRecord
               /\ SameMessages(x, port_nrate_initialize(x))
               /\ SamePlace(x, port_nrate_initialize(x))
    <2> DEFINE lost == ALLOWED_LOST_RESPONSES + 1
    <2>1. port_nrate_initialize(x) = [x EXCEPT !.missing = lost, !.capable = FALSE,
                                               !.peer = NULL, !.rate = rate]
      BY DEF port_nrate_initialize
    <2>2. lost \in 0..(ALLOWED_LOST_RESPONSES + 1)
      BY DEF ALLOWED_LOST_RESPONSES
    <2> HIDE DEF rate, lost
    <2>3. port_nrate_initialize(x) \in PortRecord
      BY <1>1, <2>1, <2>2 DEF PortRecord
    <2> QED  BY <1>1, <2>1, <2>3 DEF PortRecord, SameMessages, SamePlace
  <1>3. z \in PortRecord /\ SameMessages(r, z) /\ z.multiCount = 0
    <2>1. none \in 0..3 /\ none = 0
      OBVIOUS
    <2> HIDE DEF none
    <2> QED  BY <2>1 DEF PortRecord, SameMessages
  <1>4. port_initialize(r) = port_nrate_initialize(z)
    BY DEF port_initialize
  <1> HIDE DEF z
  <1> QED  BY <1>2, <1>3, <1>4 DEF SameMessages, SamePlace

\* port_capable changes the capability and the neighbour's data only.
LEMMA CapableFacts ==
  ASSUME NEW r, Sound(r)
  PROVE  /\ Released(r, port_capable(r)) /\ SameMessages(r, port_capable(r))
         /\ IsCapable(r) => port_capable(r).missing = r.missing
  <1> DEFINE y == [r EXCEPT !.capable = TRUE]
  <1>1. r \in PortRecord
    BY DEF Sound
  <1>2. y \in PortRecord /\ SameMessages(r, y) /\ SamePlace(r, y) /\ y.missing = r.missing
    BY <1>1 DEF PortRecord, SameMessages, SamePlace
  <1>3. /\ port_capable(r) \in {y, port_nrate_initialize(r), r}
        /\ IsCapable(r) => port_capable(r) = y
    BY DEF port_capable
  <1> HIDE DEF y
  <1>4. /\ port_capable(r) \in PortRecord /\ SameMessages(r, port_capable(r))
        /\ SamePlace(r, port_capable(r))
    BY <1>1, <1>2, <1>3, InitializeSame DEF SameMessages, SamePlace
  <1> QED  BY <1>2, <1>3, <1>4, SameIsSound DEF Released

\* Entering a state only releases messages.
LEMMA TransitionSound ==
  ASSUME NEW r, Sound(r)
  PROVE  Released(r, port_transition(r))
  <1>1. Released(r, r)
    BY DEF Released, SamePlace, Quiet, Mute
  <1>2. Released(r, flush_last_sync(r)) /\ Sound(flush_last_sync(r))
    BY FlushLastSound DEF Released
  <1>3. /\ Released(flush_last_sync(r), flush_delay_req(flush_last_sync(r)))
        /\ Released(flush_last_sync(r), flush_peer_delay(flush_last_sync(r)))
    BY <1>2, FlushRequestsSound, DisableSound
  <1>4. /\ Released(r, flush_delay_req(flush_last_sync(r)))
        /\ Released(r, flush_peer_delay(flush_last_sync(r)))
    BY <1>2, <1>3, ReleasedTwice
  <1> QED  BY <1>1, <1>4, DisableSound DEF port_transition

\* bc_dispatch: whatever the event, the port that results is sound, it may have
\* released messages and it took none.
LEMMA DispatchSound ==
  ASSUME NEW r, Sound(r), r.state # "INITIALIZING", NEW e \in Events, NEW m \in BOOLEAN
  PROVE  /\ Sound(bc_dispatch(r, e, m)) /\ Quiet(r, bc_dispatch(r, e, m))
         /\ Counted(r) \/ (r.state \in Enabled /\ e = "FAULT_DETECTED")
              => Counted(bc_dispatch(r, e, m))
  <1> DEFINE u == port_state_update(r, e, m)
             next == ptp_fsm(r.state, e, m)
             i == port_initialize(r)
  <1>1. r \in PortRecord /\ r.state \in States
    BY DEF Sound, PortRecord
  <1>2. /\ next \in States
        /\ ptp_fsm("INITIALIZING", "INIT_COMPLETE", FALSE) = "LISTENING"
        /\ next \in Enabled => r.state \in Enabled
        /\ r.state \in Enabled /\ e = "FAULT_DETECTED" => next = "FAULTY"
    BY <1>1, FsmFacts
  <1>3. i \in PortRecord /\ SameMessages(r, i) /\ i.multiCount = 0
    BY <1>1, InitializeSame
  <1>4. u = IF next = "INITIALIZING" THEN [i EXCEPT !.state = "LISTENING"]
            ELSE [r EXCEPT !.state = next]
    BY <1>2 DEF port_state_update
  <1>5. bc_dispatch(r, e, m) = IF u.state = r.state THEN u ELSE port_transition(u)
    BY DEF bc_dispatch
  <1> HIDE DEF u, next, i
  <1>6. /\ u \in PortRecord /\ SameMessages(r, u) /\ u.state # "INITIALIZING"
        /\ Counted(r) \/ (r.state \in Enabled /\ e = "FAULT_DETECTED") => Counted(u)
    <2>1. CASE next = "INITIALIZING"
      <3>1. u \in PortRecord /\ u.state = "LISTENING" /\ u.multiCount = 0 /\ SameMessages(i, u)
        BY <1>3, <1>4, <2>1 DEF PortRecord, SameMessages, States
      <3> QED  BY <1>3, <3>1 DEF Counted, SameMessages
    <2>2. CASE next # "INITIALIZING"
      <3>1. u \in PortRecord /\ u.state = next /\ u.multiCount = r.multiCount
            /\ SameMessages(r, u)
        BY <1>1, <1>2, <1>4, <2>2 DEF PortRecord, SameMessages
      <3>2. "FAULTY" \notin Enabled
        BY DEF Enabled
      <3> QED  BY <1>2, <2>2, <3>1, <3>2 DEF Counted
    <2> QED  BY <2>1, <2>2
  <1>7. Sound(u) /\ Quiet(r, u)
    BY <1>6, SameIsSound
  <1>8. Released(u, port_transition(u))
    BY <1>7, TransitionSound
  <1>9. Sound(port_transition(u)) /\ Quiet(r, port_transition(u))
        /\ (Counted(u) => Counted(port_transition(u)))
    BY <1>7, <1>8, QuietTwice DEF Released, SamePlace, Counted
  <1> QED  BY <1>5, <1>6, <1>7, <1>9

-----------------------------------------------------------------------------
(* A step of the clock, and the use of a Sync and its Follow_Up.           *)

\* Time stamps only grow old.
LEMMA AgeFacts ==
  /\ \A at \in Stamps : Age(at) \in Stamps
  /\ \A x \in Requests \cup {NULL} : AgeIn(x) \in Requests \cup {NULL} /\ Held(AgeIn(x)) = Held(x)
  /\ \A x \in Responses \cup {NULL} : AgeIn(x) \in Responses \cup {NULL} /\ Held(AgeIn(x)) = Held(x)
  /\ \A x \in FollowUps \cup {NULL} : AgeIn(x) \in FollowUps \cup {NULL} /\ Held(AgeIn(x)) = Held(x)
  /\ AgeIn(NULL) = NULL
  <1>1. \A at \in Stamps : Age(at) \in Stamps
    BY DEF Age, Stamps
  <1>2. NULL \notin Requests /\ NULL \notin Responses /\ NULL \notin FollowUps
    BY ConstantsAssumption
  <1>3. ASSUME NEW x \in Requests PROVE AgeIn(x) \in Requests
    <2>1. AgeIn(x) = [x EXCEPT !.at = Age(x.at)]
      BY <1>2 DEF AgeIn, Aged
    <2> QED  BY <1>1, <2>1 DEF Requests
  <1>4. ASSUME NEW x \in Responses PROVE AgeIn(x) \in Responses
    <2>1. AgeIn(x) = [x EXCEPT !.at = Age(x.at)]
      BY <1>2 DEF AgeIn, Aged
    <2> QED  BY <1>1, <2>1 DEF Responses
  <1>5. ASSUME NEW x \in FollowUps PROVE AgeIn(x) \in FollowUps
    <2>1. AgeIn(x) = [x EXCEPT !.at = Age(x.at)]
      BY <1>2 DEF AgeIn, Aged
    <2> QED  BY <1>1, <2>1 DEF FollowUps
  <1>6. AgeIn(NULL) = NULL
    BY DEF AgeIn
  <1> QED  BY <1>1, <1>2, <1>3, <1>4, <1>5, <1>6 DEF Held

\* The step itself releases nothing.
LEMMA SteppedSound ==
  ASSUME NEW r, Sound(r)
  PROVE  Sound(Stepped(r)) /\ Mute(r, Stepped(r)) /\ SamePlace(r, Stepped(r))
  <1> DEFINE d == Stepped(r)
             l == Aged(r.last)
             q == [i \in DOMAIN r.reqs |-> Aged(r.reqs[i])]
  <1>1. r \in PortRecord /\ Balanced(r)
    BY DEF Sound
  <1>2. /\ r.last \in Lasts /\ r.reqs \in Seq(Requests) /\ r.req \in Requests \cup {NULL}
        /\ r.rsp \in Responses \cup {NULL}
    BY <1>1 DEF PortRecord
  <1>3. l \in Lasts /\ l.ref = r.last.ref /\ l.kind = r.last.kind /\ l.src = r.last.src
        /\ l.seq = r.last.seq
    BY <1>2, AgeFacts DEF Lasts, Aged
  <1>4. q \in Seq(Requests) /\ Len(q) = Len(r.reqs)
    <2>1. DOMAIN r.reqs = 1..Len(r.reqs) /\ Len(r.reqs) \in Nat
      BY <1>2
    <2>2. \A i \in DOMAIN r.reqs : r.reqs[i] \in Requests
      BY <1>2
    <2>3. \A i \in DOMAIN r.reqs : Aged(r.reqs[i]) \in Requests
      <3>1. ASSUME NEW x \in Requests PROVE Aged(x) \in Requests
        BY AgeFacts DEF Requests, Aged
      <3> QED  BY <2>2, <3>1
    <2>4. q \in [1..Len(r.reqs) -> Requests]
      BY <2>1, <2>3
    <2> HIDE DEF q
    <2> QED  BY <2>1, <2>4
  <1>5. d = [r EXCEPT !.last = l, !.req = AgeIn(r.req), !.rsp = AgeIn(r.rsp), !.reqs = q]
    BY DEF Stepped
  <1>6. /\ AgeIn(r.req) \in Requests \cup {NULL} /\ Held(AgeIn(r.req)) = Held(r.req)
        /\ AgeIn(r.rsp) \in Responses \cup {NULL} /\ Held(AgeIn(r.rsp)) = Held(r.rsp)
    BY <1>2, AgeFacts
  <1> HIDE DEF d, l, q
  <1>7. /\ d \in PortRecord /\ SamePlace(r, d)
        /\ d.req = AgeIn(r.req) /\ d.reqs = q /\ d.rsp = AgeIn(r.rsp) /\ d.fup = r.fup
        /\ d.syfu = r.syfu /\ d.sync = r.sync /\ d.used = r.used /\ d.last = l
    BY <1>1, <1>3, <1>4, <1>5, <1>6 DEF PortRecord, SamePlace
  <1>8. Balanced(d) /\ RightKind(d) /\ Mute(r, d)
    BY <1>1, <1>3, <1>4, <1>6, <1>7 DEF Balanced, RightKind, Sound, Mute, Kept, Half
  <1> QED  BY <1>7, <1>8 DEF Sound, d

\* port_synchronize: after a step of the clock no request is outstanding.
LEMMA SynchronizeSound ==
  ASSUME NEW r, Sound(r), Counted(r), Fresh(r), NEW v \in ServoAnswers
  PROVE  /\ Sound(port_synchronize(r, v)) /\ Mute(r, port_synchronize(r, v))
         /\ Counted(port_synchronize(r, v))
         /\ \/ Fresh(port_synchronize(r, v))
            \/ port_synchronize(r, v).req = NULL /\ port_synchronize(r, v).reqs = <<>>
  <1> DEFINE fault == "SYNCHRONIZATION_FAULT"
             d == bc_dispatch(Stepped(r), fault, FALSE)
  <1>1. fault \in Events /\ "MASTER_CLOCK_SELECTED" \in Events /\ FALSE \in BOOLEAN
    BY DEF Events
  <1>2. r.state # "INITIALIZING"
    BY DEF Counted
  <1>3. CASE v # "JUMP"
    BY <1>1, <1>2, <1>3, DispatchSound DEF port_synchronize, ServoAnswers, Quiet
  <1>4. CASE v = "JUMP"
    <2>1. Sound(Stepped(r)) /\ Mute(r, Stepped(r)) /\ Counted(Stepped(r))
      BY SteppedSound DEF SamePlace, Counted
    <2>2. Sound(d) /\ Mute(Stepped(r), d) /\ Counted(d)
      BY <1>1, <2>1, DispatchSound DEF Quiet, Counted
    <2> HIDE DEF d
    <2>3. /\ Sound(flush_delay_req(d)) /\ Mute(d, flush_delay_req(d))
          /\ Counted(flush_delay_req(d)) /\ flush_delay_req(d).reqs = <<>>
      BY <2>2, FlushRequestsSound DEF Released, SamePlace, Quiet, Counted
    <2> DEFINE f == ForgetRequest(flush_delay_req(d))
    <2>4. /\ Sound(f) /\ Mute(flush_delay_req(d), f)
          /\ Counted(f) /\ f.reqs = <<>> /\ f.req = NULL
      BY <2>3, ForgetRequestSound DEF Released, SamePlace, Quiet, Counted
    <2>5. Mute(r, f)
      BY <2>1, <2>2, <2>3, <2>4 DEF Mute
    <2> QED  BY <1>4, <2>4, <2>5 DEF port_synchronize, d
  <1> QED  BY <1>3, <1>4

\* Time is taken from a message: what is kept of it is released and the time
\* scale is one, whatever the servo answered.
LEMMA UseSound ==
  ASSUME NEW r, Sound(r), Counted(r), Fresh(r), NEW v \in ServoAnswers
  PROVE  /\ LET d == flush_last_sync(port_synchronize(r, v))
            IN  Sound(d) /\ Counted(d) /\ Fresh(d) /\ Kept(d) = NULL /\ d.sync = r.sync
         /\ r.syfu # "EMPTY" =>
              LET d == UseBoth(r, v)
              IN  Sound(d) /\ Counted(d) /\ Fresh(d) /\ Kept(d) = NULL /\ d.sync = r.sync
  <1> DEFINE u == port_synchronize(r, v)
  <1>1. /\ Sound(u) /\ Mute(r, u) /\ Counted(u)
        /\ Fresh(u) \/ (u.req = NULL /\ u.reqs = <<>>)
    BY SynchronizeSound
  <1> HIDE DEF u
  <1>2. ASSUME NEW d, d.syfu = "EMPTY", d.req = NULL, d.reqs = <<>>
        PROVE  Fresh(d)
    BY <1>2 DEF Fresh
  <1>3. /\ Sound(flush_last_sync(u)) /\ Counted(flush_last_sync(u)) /\ Fresh(flush_last_sync(u))
        /\ Kept(flush_last_sync(u)) = NULL /\ flush_last_sync(u).sync = r.sync
    BY <1>1, <1>2, FlushLastSound DEF Released, SamePlace, Quiet, Mute, Counted, Kept
  <1>4. ASSUME r.syfu # "EMPTY"
        PROVE  /\ Sound(PutLast(u)) /\ Counted(PutLast(u)) /\ Fresh(PutLast(u))
               /\ Kept(PutLast(u)) = NULL /\ PutLast(u).sync = r.sync
    <2>1. u.last.ref \in {0, 1}
      BY <1>1, <1>4 DEF Sound, Balanced, Mute
    <2> QED  BY <1>1, <1>2, <2>1, PutLastSound DEF SamePlace, Mute, Counted
  <1> QED  BY <1>3, <1>4 DEF UseBoth, u

\* A message takes the place of the kept one.
LEMMA ReplaceSound ==
  ASSUME NEW r, Sound(r), Counted(r), Fresh(r), NEW m, m.src \in Sources, m.seq \in SeqIds,
         NEW kind, NEW at, NEW syfu,
         <<kind, at, syfu>> \in {<<"SYNC", "now", "HAVE_SYNC">>,
                                 <<"FOLLOW_UP", "none", "HAVE_FUP">>}
  PROVE  LET d == Replace(r, m, kind, at, syfu)
         IN  /\ Sound(d) /\ Counted(d) /\ Fresh(d) /\ d.sync = r.sync
             /\ Kept(d) = Half(kind, m)
  <1> DEFINE f == flush_last_sync(r)
             l == [kind |-> kind, src |-> m.src, seq |-> m.seq, at |-> at, ref |-> 1]
             u == f.used + 1
             d == [f EXCEPT !.last = l, !.used = u, !.syfu = syfu]
  <1>1. Sound(f) /\ Counted(f) /\ Fresh(f) /\ f.sync = r.sync /\ f.syfu = "EMPTY"
    BY FlushLastSound DEF Released, Quiet, Mute, SamePlace, Counted
  <1>2. Replace(r, m, kind, at, syfu) = d
    BY DEF Replace, KeepLast
  <1> HIDE DEF f
  <1>3. f \in PortRecord /\ f.used \in Nat
    BY <1>1 DEF Sound, PortRecord
  <1>4. u \in Nat /\ u = Held(f.req) + Held(f.rsp) + Held(f.fup) + Len(f.reqs) + 1
    BY <1>1, <1>3, HeldFacts DEF Sound, Balanced
  <1>5. /\ l \in Lasts /\ syfu \in {"HAVE_SYNC", "HAVE_FUP"} /\ l.ref = 1
        /\ l.kind = kind /\ l.src = m.src /\ l.seq = m.seq /\ l.at = at
        /\ syfu = "HAVE_SYNC" => kind = "SYNC" /\ at = "now"
        /\ syfu = "HAVE_FUP" => kind = "FOLLOW_UP"
    BY DEF Lasts, Stamps
  <1> HIDE DEF l, u
  <1>6. /\ d \in PortRecord /\ d.last = l /\ d.used = u /\ d.syfu = syfu /\ SamePlace(f, d)
        /\ d.req = f.req /\ d.rsp = f.rsp /\ d.fup = f.fup /\ d.reqs = f.reqs
        /\ d.sync = f.sync
    BY <1>3, <1>4, <1>5 DEF PortRecord, SamePlace
  <1> HIDE DEF d
  <1>7. Balanced(d) /\ RightKind(d) /\ Kept(d) = Half(kind, m)
    BY <1>4, <1>5, <1>6 DEF Balanced, RightKind, Kept, Half
  <1>8. Fresh(d) /\ Counted(d)
    BY <1>1, <1>5, <1>6 DEF Fresh, Counted, SamePlace
  <1> QED  BY <1>1, <1>2, <1>6, <1>7, <1>8 DEF Sound

-----------------------------------------------------------------------------
(* Steps.                                                                  *)

\* r is what a handler makes of the port before it returns its event.
Ready(r) ==
  /\ Sound(r) /\ Counted(r) /\ Fresh(r)
  /\ Kept(r) \in {Kept(port), NULL} /\ r.sync = port.sync

\* A step in which the port takes no half, uses none and sends no Sync.
QuietStep ==
  /\ IInv'
  /\ port'.sync = port.sync /\ Kept(port') \in {Kept(port), NULL} /\ pair' = pair

\* port_ignore, with which every reception begins, leaves the port ready.
LEMMA CapableReady ==
  ASSUME IInv
  PROVE  /\ Ready(port_capable(port)) /\ SameMessages(port, port_capable(port))
         /\ SamePlace(port, port_capable(port))
  <1>1. Sound(port) /\ Counted(port) /\ Fresh(port)
    BY DEF IInv
  <1>2. Released(port, port_capable(port)) /\ SameMessages(port, port_capable(port))
    BY <1>1, CapableFacts
  <1> QED  BY <1>1, <1>2 DEF Released, Quiet, Mute, SamePlace, Counted, Ready

\* A handler's return: the event is dispatched and the clock is c.
LEMMA ReturnQuiet ==
  ASSUME IInv, NEW r, NEW c \in ClockRecord, NEW e \in Events,
         "old" \notin {c.t2, c.t3},
         Sound(r), Fresh(r), Kept(r) \in {Kept(port), NULL}, r.sync = port.sync,
         r.state # "INITIALIZING",
         Counted(r) \/ (r.state \in Enabled /\ e = "FAULT_DETECTED"),
         Return(r, c, e)
  PROVE  QuietStep
  <1> DEFINE d == bc_dispatch(r, e, FALSE)
  <1>1. port' = d /\ clk' = c /\ conf' = conf /\ pair' = pair
    BY DEF Return
  <1>2. Sound(d) /\ Quiet(r, d) /\ Counted(d)
    BY DispatchSound
  <1> HIDE DEF d
  <1>3. Fresh(d) /\ d.sync = port.sync /\ Kept(d) \in {Kept(port), NULL}
    BY <1>2 DEF Quiet, Mute
  <1>4. TypeOK'
    BY <1>1, <1>2 DEF IInv, TypeOK, Sound
  <1>5. IInv'
    BY <1>1, <1>2, <1>3, <1>4 DEF IInv
  <1> QED  BY <1>1, <1>3, <1>5 DEF QuietStep

\* The usual case: the clock is left alone.
LEMMA ReadyQuiet ==
  ASSUME IInv, NEW r, Ready(r), NEW e \in Events, Return(r, clk, e)
  PROVE  QuietStep
  <1>1. clk \in ClockRecord /\ "old" \notin {clk.t2, clk.t3}
    BY DEF IInv, TypeOK
  <1>2. r.state # "INITIALIZING"
    BY DEF Ready, Counted
  <1> QED  BY <1>1, <1>2, ReturnQuiet DEF Ready

\* The events of the handlers.
LEMMA HandlerEvents ==
  /\ {"NONE", "FAULT_DETECTED", "FAULT_CLEARED", "QUALIFICATION_TIMEOUT_EXPIRES",
      "ANNOUNCE_RECEIPT_TIMEOUT_EXPIRES", "RS_SLAVE", "RS_PASSIVE", "RS_GRAND_MASTER"}
       \subseteq Events
  BY DEF Events

\* A record that differs from a ready one in the other fields is ready.
LEMMA SameIsReady ==
  ASSUME NEW r, NEW d, Ready(r), d \in PortRecord, SameMessages(r, d),
         d.state = r.state, d.multiCount \in {0, r.multiCount}
  PROVE  Ready(d)
  <1>1. Sound(d) /\ Quiet(r, d)
    BY SameIsSound DEF Ready
  <1>2. Counted(d)
    BY DEF Ready, Counted
  <1> QED  BY <1>1, <1>2 DEF Ready, Quiet, Mute

\* So is what port_capable makes of a ready record.
LEMMA CapableIsReady ==
  ASSUME NEW r, Ready(r)
  PROVE  Ready(port_capable(r)) /\ SameMessages(r, port_capable(r)) /\ SamePlace(r, port_capable(r))
  <1>1. Sound(r) /\ Released(r, port_capable(r)) /\ SameMessages(r, port_capable(r))
    BY CapableFacts DEF Ready
  <1> QED  BY <1>1 DEF Ready, Released, Quiet, Mute, SamePlace, Counted

\* And what is left of one after a release.
LEMMA ReleasedIsReady ==
  ASSUME NEW r, NEW d, Ready(r), Released(r, d)
  PROVE  Ready(d)
  BY DEF Ready, Released, Quiet, Mute, SamePlace, Counted

\* Sequence numbers wrap around.
LEMMA Seq16Type == \A n \in SeqIds : Seq16(n + 1) \in SeqIds
  <1>1. SeqMod \in Nat \ {0}
    BY ConstantsAssumption
  <1> QED  BY <1>1 DEF Seq16, SeqIds

-----------------------------------------------------------------------------
(* The delay requests.                                                     *)

\* NextSeq, and what port_pdelay_request does to the count of responders.
LEMMA NextSeqReady ==
  ASSUME NEW r, Ready(r)
  PROVE  /\ Ready(NextSeq(r)) /\ SameMessages(r, NextSeq(r))
         /\ LET c == [r EXCEPT !.multiCount = IF r.multi THEN @ ELSE 0, !.multi = FALSE]
            IN  Ready(NextSeq(c)) /\ SameMessages(r, NextSeq(c))
  <1>1. ASSUME NEW x, Ready(x) PROVE Ready(NextSeq(x)) /\ SameMessages(x, NextSeq(x))
    <2> DEFINE n == Seq16(x.seq + 1)
               d == [x EXCEPT !.seq = n]
    <2>1. x \in PortRecord
      BY <1>1 DEF Ready, Sound
    <2>2. n \in SeqIds
      BY <2>1, Seq16Type DEF PortRecord
    <2>3. NextSeq(x) = d
      BY DEF NextSeq
    <2> HIDE DEF n
    <2>4. d \in PortRecord /\ SameMessages(x, d) /\ d.state = x.state
          /\ d.multiCount = x.multiCount
      BY <2>1, <2>2 DEF PortRecord, SameMessages
    <2> HIDE DEF d
    <2> QED  BY <1>1, <2>3, <2>4, SameIsReady
  <1> DEFINE k == IF r.multi THEN r.multiCount ELSE 0
             c == [r EXCEPT !.multiCount = k, !.multi = FALSE]
  <1>2. r \in PortRecord
    BY DEF Ready, Sound
  <1>3. k \in 0..3 /\ k \in {0, r.multiCount}
    BY <1>2 DEF PortRecord
  <1> HIDE DEF k
  <1>4. c \in PortRecord /\ SameMessages(r, c) /\ c.state = r.state /\ c.multiCount = k
    BY <1>2, <1>3 DEF PortRecord, SameMessages
  <1> HIDE DEF c
  <1>5. Ready(c)
    BY <1>3, <1>4, SameIsReady
  <1>6. Ready(NextSeq(c)) /\ SameMessages(r, NextSeq(c))
    BY <1>1, <1>4, <1>5 DEF SameMessages
  <1> QED  BY <1>1, <1>6 DEF c, k

\* LoseRequest leaves no request.
LEMMA LoseRequestReady ==
  ASSUME NEW r, Ready(r)
  PROVE  /\ Ready(LoseRequest(r)) /\ LoseRequest(r).req = NULL
         /\ LoseRequest(r).rsp = r.rsp /\ LoseRequest(r).fup = r.fup
  <1> DEFINE c == port_capable(r)
             n == c.missing + 1
             l == [c EXCEPT !.missing = n]
  <1>1. Ready(c) /\ SameMessages(r, c)
    BY CapableIsReady
  <1>2. ASSUME NEW x, Ready(x)
        PROVE  /\ Ready(ForgetRequest(x)) /\ ForgetRequest(x).req = NULL
               /\ ForgetRequest(x).rsp = x.rsp /\ ForgetRequest(x).fup = x.fup
    <2>1. Sound(x)
      BY <1>2 DEF Ready
    <2> QED  BY <1>2, <2>1, ForgetRequestSound, ReleasedIsReady
  <1>3. CASE r.req = NULL
    BY <1>3 DEF LoseRequest
  <1>4. CASE r.req # NULL /\ IsCapable(r) /\ r.missing <= ALLOWED_LOST_RESPONSES
    <2>1. LoseRequest(r) = ForgetRequest(l)
      BY <1>4 DEF LoseRequest
    <2>2. c.missing = r.missing
      BY <1>4, CapableFacts DEF Ready
    <2> HIDE DEF c
    <2>3. c \in PortRecord /\ r \in PortRecord
      BY <1>1 DEF Ready, Sound
    <2>4. n \in 0..(ALLOWED_LOST_RESPONSES + 1)
      BY <1>4, <2>2, <2>3 DEF PortRecord, ALLOWED_LOST_RESPONSES
    <2> HIDE DEF n
    <2>5. l \in PortRecord /\ SameMessages(c, l) /\ l.state = c.state
          /\ l.multiCount = c.multiCount
      BY <2>3, <2>4 DEF PortRecord, SameMessages
    <2> HIDE DEF l
    <2>6. Ready(l)
      BY <1>1, <2>5, SameIsReady
    <2> QED  BY <1>1, <1>2, <2>1, <2>5, <2>6 DEF SameMessages
  <1>5. CASE r.req # NULL /\ ~(IsCapable(r) /\ r.missing <= ALLOWED_LOST_RESPONSES)
    <2>1. LoseRequest(r) = ForgetRequest(c)
      BY <1>5 DEF LoseRequest
    <2> QED  BY <1>1, <1>2, <2>1 DEF SameMessages
  <1> QED  BY <1>3, <1>4, <1>5

\* port_pdelay_request, once the last answers are forgotten.
LEMMA PdelayRequestReady ==
  ASSUME NEW r, Ready(r), r.rsp = NULL, r.fup = NULL, NEW sent \in BOOLEAN
  PROVE  Ready(port_pdelay_request(r, sent))
  <1> DEFINE c == NextSeq([r EXCEPT !.multiCount = IF r.multi THEN @ ELSE 0, !.multi = FALSE])
             f == LoseRequest(c)
             q == [seq |-> r.seq, at |-> "now"]
             u == f.used + 1
             d == [f EXCEPT !.req = q, !.used = u]
  <1>1. Ready(c) /\ SameMessages(r, c)
    BY NextSeqReady
  <1>2. port_pdelay_request(r, sent) = IF sent THEN d ELSE c
    BY DEF port_pdelay_request
  <1> HIDE DEF c
  <1>3. Ready(f) /\ f.req = NULL /\ f.rsp = NULL /\ f.fup = NULL
    BY <1>1, LoseRequestReady DEF SameMessages
  <1>4. q \in Requests /\ q.at = "now" /\ q # NULL
    <2>1. r.seq \in SeqIds
      BY DEF Ready, Sound, PortRecord
    <2>2. q \in Requests /\ q.at = "now"
      BY <2>1 DEF Requests, Stamps
    <2> QED  BY <2>2, ConstantsAssumption
  <1> HIDE DEF f, q
  <1>5. f \in PortRecord /\ f.used \in Nat /\ Held(q) = 1 /\ Held(f.req) = 0
    BY <1>3, <1>4 DEF Ready, Sound, PortRecord, Held
  <1>6. u \in Nat /\ u = Held(q) + Held(f.rsp) + Held(f.fup) + Len(f.reqs)
                        + (IF f.syfu = "EMPTY" THEN 0 ELSE 1)
    <2> DEFINE half == IF f.syfu = "EMPTY" THEN 0 ELSE 1
    <2>1. /\ Held(f.rsp) \in {0, 1} /\ Held(f.fup) \in {0, 1} /\ Len(f.reqs) \in Nat
          /\ half \in {0, 1}
      BY <1>5, HeldFacts
    <2>2. f.used = Held(f.req) + Held(f.rsp) + Held(f.fup) + Len(f.reqs) + half
      BY <1>3 DEF Ready, Sound, Balanced
    <2> HIDE DEF half
    <2>3. u \in Nat /\ u = 1 + Held(f.rsp) + Held(f.fup) + Len(f.reqs) + half
      BY <1>5, <2>1, <2>2
    <2> QED  BY <1>5, <2>3 DEF half
  <1> HIDE DEF u
  <1>7. /\ d \in PortRecord /\ SamePlace(f, d) /\ d.req = q /\ d.used = u
        /\ d.rsp = f.rsp /\ d.fup = f.fup /\ d.reqs = f.reqs /\ d.last = f.last
        /\ d.syfu = f.syfu /\ d.sync = f.sync
    <2>1. u \in Nat /\ q \in Requests /\ f \in PortRecord
      BY <1>4, <1>5, <1>6
    <2> QED  BY <2>1 DEF PortRecord, SamePlace
  <1> HIDE DEF d
  <1>8. Sound(d)
    BY <1>3, <1>6, <1>7 DEF Ready, Sound, Balanced, RightKind
  <1>9. Counted(d) /\ Fresh(d) /\ Kept(d) = Kept(f) /\ d.sync = f.sync
    BY <1>3, <1>4, <1>7 DEF Ready, Counted, Fresh, Kept, SamePlace
  <1> QED  BY <1>1, <1>2, <1>3, <1>8, <1>9 DEF Ready

\* A Delay_Req joins the list.
LEMMA E2eRequestReady ==
  ASSUME NEW r, Ready(r), NEW sent \in BOOLEAN
  PROVE  Ready(E2eRequest(r, sent))
  <1> DEFINE f == NextSeq(r)
             x == [seq |-> r.seq, at |-> "now"]
             q == <<x>> \o f.reqs
             u == f.used + 1
             d == [f EXCEPT !.reqs = q, !.used = u]
  <1>1. Ready(f)
    BY NextSeqReady
  <1>2. E2eRequest(r, sent) = IF sent THEN d ELSE f
    BY DEF E2eRequest
  <1>3. x \in Requests /\ x.at = "now"
    <2>1. r.seq \in SeqIds
      BY DEF Ready, Sound, PortRecord
    <2> QED  BY <2>1 DEF Requests, Stamps
  <1> HIDE DEF f, x
  <1>4. f \in PortRecord /\ f.used \in Nat /\ f.reqs \in Seq(Requests)
    BY <1>1 DEF Ready, Sound, PortRecord
  <1>5. /\ q \in Seq(Requests) /\ Len(q) = Len(f.reqs) + 1
        /\ \A i \in DOMAIN q : q[i] = IF i = 1 THEN x ELSE f.reqs[i - 1]
        /\ \A i \in DOMAIN q : i # 1 => i - 1 \in DOMAIN f.reqs
    BY <1>3, <1>4
  <1>6. u \in Nat /\ u = Held(f.req) + Held(f.rsp) + Held(f.fup) + Len(q)
                        + (IF f.syfu = "EMPTY" THEN 0 ELSE 1)
    <2> DEFINE half == IF f.syfu = "EMPTY" THEN 0 ELSE 1
               all == Len(f.reqs)
    <2>1. /\ Held(f.req) \in {0, 1} /\ Held(f.rsp) \in {0, 1} /\ Held(f.fup) \in {0, 1}
          /\ all \in Nat /\ half \in {0, 1}
      BY <1>4, HeldFacts
    <2>2. f.used = Held(f.req) + Held(f.rsp) + Held(f.fup) + all + half
      BY <1>1 DEF Ready, Sound, Balanced
    <2>3. Len(q) = all + 1
      BY <1>5
    <2> HIDE DEF half, q, all
    <2>4. u \in Nat /\ u = Held(f.req) + Held(f.rsp) + Held(f.fup) + Len(q) + half
      BY <2>1, <2>2, <2>3
    <2> QED  BY <2>4 DEF half
  <1> HIDE DEF u, q
  <1>7. /\ d \in PortRecord /\ SamePlace(f, d) /\ d.reqs = q /\ d.used = u
        /\ d.rsp = f.rsp /\ d.fup = f.fup /\ d.req = f.req /\ d.last = f.last
        /\ d.syfu = f.syfu /\ d.sync = f.sync
    BY <1>4, <1>5, <1>6 DEF PortRecord, SamePlace
  <1> HIDE DEF d
  <1>8. Sound(d)
    BY <1>1, <1>6, <1>7 DEF Ready, Sound, Balanced, RightKind
  <1>9. Counted(d) /\ Fresh(d) /\ Kept(d) = Kept(f) /\ d.sync = f.sync
    BY <1>1, <1>3, <1>5, <1>7 DEF Ready, Counted, Fresh, Kept, SamePlace
  <1> QED  BY <1>1, <1>2, <1>8, <1>9 DEF Ready

\* FD_DELAY_TIMER
LEMMA DelayTimerQuiet ==
  ASSUME IInv, NEW k \in 0..MaxRequests, NEW sent \in BOOLEAN, DelayTimer(k, sent)
  PROVE  QuietStep
  <1> DEFINE p == delay_req_prune(port, k)
             f == ForgetResponses(p)
             r == Asked(f)
             g == IF port.dm = "P2P" THEN port_pdelay_request(r, sent) ELSE E2eRequest(r, sent)
             e == IF sent THEN "NONE" ELSE "FAULT_DETECTED"
  <1>1. k \in 0..Len(port.reqs) /\ Return(g, clk, e)
    BY DEF DelayTimer
  <1>2. Ready(port)
    BY DEF IInv, Ready
  <1>3. Ready(p)
    BY <1>1, <1>2, PruneSound, ReleasedIsReady DEF Ready
  <1>4. Ready(f) /\ f.rsp = NULL /\ f.fup = NULL
    <2> HIDE DEF p
    <2>1. Sound(p)
      BY <1>3 DEF Ready
    <2> QED  BY <1>3, <2>1, ForgetResponsesSound, ReleasedIsReady
  <1>5. Ready(r) /\ r.rsp = NULL /\ r.fup = NULL
    <2> HIDE DEF f
    <2>1. f \in PortRecord
      BY <1>4 DEF Ready, Sound
    <2>2. r = [f EXCEPT !.rsp = NULL, !.fup = NULL]
      BY <1>4, AgeFacts DEF Asked
    <2>3. r \in PortRecord /\ SameMessages(f, r) /\ r.state = f.state
          /\ r.multiCount = f.multiCount
      BY <1>4, <2>1, <2>2 DEF PortRecord, SameMessages
    <2> HIDE DEF r
    <2> QED  BY <1>4, <2>3, SameIsReady DEF SameMessages
  <1> HIDE DEF r
  <1>6. Ready(g) /\ e \in Events
    BY <1>5, PdelayRequestReady, E2eRequestReady, HandlerEvents
  <1> HIDE DEF g, e
  <1> QED  BY <1>1, <1>6, ReadyQuiet

\* Taking one element out of a sequence.
LEMMA RemovedFacts ==
  ASSUME NEW S, NEW q \in Seq(S), NEW i \in 1..Len(q)
  PROVE  LET d == SubSeq(q, 1, i - 1) \o SubSeq(q, i + 1, Len(q))
         IN  /\ d \in Seq(S) /\ Len(d) = Len(q) - 1
             /\ \A j \in DOMAIN d : \E k \in DOMAIN q : d[j] = q[k]
  <1> DEFINE n == Len(q)
             a == SubSeq(q, 1, i - 1)
             b == SubSeq(q, i + 1, n)
             d == a \o b
  <1>1. n \in Nat /\ DOMAIN q = 1..n /\ i \in 1..n /\ \A k \in 1..n : q[k] \in S
    OBVIOUS
  <1> HIDE DEF n
  <1>2. a \in Seq(S) /\ Len(a) = i - 1 /\ \A j \in 1..(i - 1) : a[j] = q[j]
    <2>1. 1 \in Int /\ i - 1 \in Int /\ \A k \in 1..(i - 1) : q[k] \in S
      BY <1>1
    <2>2. /\ a \in Seq(S) /\ Len(a) = IF 1 <= i - 1 THEN (i - 1) - 1 + 1 ELSE 0
          /\ \A j \in 1..((i - 1) - 1 + 1) : a[j] = q[1 + j - 1]
      BY <2>1, SubSeqProperties
    <2> HIDE DEF a
    <2> QED  BY <1>1, <2>2
  <1>3. b \in Seq(S) /\ Len(b) = n - i /\ \A j \in 1..(n - i) : b[j] = q[i + j]
    <2>1. i + 1 \in Int /\ n \in Int /\ \A k \in (i + 1)..n : q[k] \in S
      BY <1>1
    <2>2. /\ b \in Seq(S) /\ Len(b) = IF i + 1 <= n THEN n - (i + 1) + 1 ELSE 0
          /\ \A j \in 1..(n - (i + 1) + 1) : b[j] = q[(i + 1) + j - 1]
      BY <2>1, SubSeqProperties
    <2> HIDE DEF b
    <2> QED  BY <1>1, <2>2
  <1> HIDE DEF a, b
  <1>4. /\ d \in Seq(S) /\ Len(d) = Len(a) + Len(b)
        /\ \A j \in 1..(Len(a) + Len(b)) :
             d[j] = IF j <= Len(a) THEN a[j] ELSE b[j - Len(a)]
    BY <1>2, <1>3, ConcatProperties
  <1>5. DOMAIN d = 1..(Len(a) + Len(b))
    BY <1>4
  <1> HIDE DEF d
  <1>6. Len(d) = n - 1
    BY <1>1, <1>2, <1>3, <1>4
  <1>7. ASSUME NEW j \in DOMAIN d PROVE \E k \in DOMAIN q : d[j] = q[k]
    <2>1. j \in 1..(n - 1)
      BY <1>1, <1>2, <1>3, <1>5
    <2>2. CASE j <= i - 1
      <3>1. j \in 1..(i - 1) /\ j \in 1..n
        BY <1>1, <2>1, <2>2
      <3>2. d[j] = a[j]
        BY <1>1, <1>2, <1>3, <1>4, <2>1, <2>2
      <3> QED  BY <1>1, <1>2, <3>1, <3>2
    <2>3. CASE ~(j <= i - 1)
      <3>1. j - (i - 1) \in 1..(n - i) /\ i + (j - (i - 1)) \in 1..n
        BY <1>1, <2>1, <2>3
      <3>2. d[j] = b[j - (i - 1)]
        BY <1>1, <1>2, <1>3, <1>4, <2>1, <2>3
      <3> QED  BY <1>1, <1>3, <3>1, <3>2
    <2> QED  BY <2>2, <2>3
  <1> QED  BY <1>4, <1>6, <1>7 DEF a, b, d, n

\* process_delay_resp: the answered request is released and gives t3.
LEMMA RecvDelayRespQuiet ==
  ASSUME IInv, NEW m, RecvDelayResp(m)
  PROVE  QuietStep
  <1> DEFINE r == port_capable(port)
  <1>1. Ready(r)
    BY CapableReady
  <1>2. CASE Return(r, clk, "NONE")
    BY <1>1, <1>2, ReadyQuiet, HandlerEvents
  <1>3. ASSUME NEW i \in DOMAIN r.reqs,
               Return([r EXCEPT !.reqs = SubSeq(@, 1, i - 1) \o SubSeq(@, i + 1, Len(@)),
                                !.used = @ - 1],
                      clock_path_delay(clk, r.reqs[i].at), "NONE")
        PROVE  QuietStep
    <2> DEFINE q == SubSeq(r.reqs, 1, i - 1) \o SubSeq(r.reqs, i + 1, Len(r.reqs))
               u == r.used - 1
               d == [r EXCEPT !.reqs = q, !.used = u]
               c == clock_path_delay(clk, r.reqs[i].at)
    <2>1. Return(d, c, "NONE")
      BY <1>3
    <2> HIDE DEF r
    <2>2. r \in PortRecord /\ r.reqs \in Seq(Requests)
      BY <1>1 DEF Ready, Sound, PortRecord
    <2>3. r.reqs[i].at = "now" /\ i \in 1..Len(r.reqs)
      BY <1>1, <1>3, <2>2 DEF Ready, Fresh
    <2>4. c \in ClockRecord /\ "old" \notin {c.t2, c.t3}
      <3>1. c = [clk EXCEPT !.t3 = "now", !.delay = @ \/ DelayReady([clk EXCEPT !.t3 = "now"])]
        BY <2>3 DEF clock_path_delay, IInv, TypeOK, ClockRecord
      <3>2. clk \in ClockRecord /\ clk.t2 # "old"
        BY DEF IInv, TypeOK
      <3>3. DelayReady([clk EXCEPT !.t3 = "now"]) \in BOOLEAN
        BY DEF DelayReady
      <3> QED  BY <3>1, <3>2, <3>3 DEF ClockRecord, Stamps
    <2>5. q \in Seq(Requests) /\ Len(q) = Len(r.reqs) - 1
          /\ \A j \in DOMAIN q : \E k \in DOMAIN r.reqs : q[j] = r.reqs[k]
      BY <2>2, <2>3, RemovedFacts
    <2> HIDE DEF q, c
    <2>6. u \in Nat /\ u = Held(r.req) + Held(r.rsp) + Held(r.fup) + Len(q)
                          + (IF r.syfu = "EMPTY" THEN 0 ELSE 1)
      <3> DEFINE half == IF r.syfu = "EMPTY" THEN 0 ELSE 1
                 all == Len(r.reqs)
      <3>1. /\ Held(r.req) \in {0, 1} /\ Held(r.rsp) \in {0, 1} /\ Held(r.fup) \in {0, 1}
            /\ all \in Nat /\ half \in {0, 1}
        BY <2>2, HeldFacts
      <3>2. r.used = Held(r.req) + Held(r.rsp) + Held(r.fup) + all + half
        BY <1>1 DEF Ready, Sound, Balanced
      <3>3. Len(q) = all - 1 /\ all >= 1
        BY <2>3, <2>5
      <3> HIDE DEF half, all
      <3>4. u \in Nat /\ u = Held(r.req) + Held(r.rsp) + Held(r.fup) + Len(q) + half
        BY <3>1, <3>2, <3>3
      <3> QED  BY <3>4 DEF half
    <2> HIDE DEF u
    <2>7. /\ d \in PortRecord /\ SamePlace(r, d) /\ d.reqs = q /\ d.used = u
          /\ d.rsp = r.rsp /\ d.fup = r.fup /\ d.req = r.req /\ d.last = r.last
          /\ d.syfu = r.syfu /\ d.sync = r.sync
      <3>1. u \in Nat /\ q \in Seq(Requests)
        BY <2>5, <2>6
      <3> QED  BY <2>2, <3>1 DEF PortRecord, SamePlace
    <2> HIDE DEF d
    <2>8. Sound(d)
      BY <1>1, <2>6, <2>7 DEF Ready, Sound, Balanced, RightKind
    <2>9. Counted(d) /\ Fresh(d) /\ Kept(d) = Kept(r) /\ d.state # "INITIALIZING"
      BY <1>1, <2>5, <2>7 DEF Ready, Counted, Fresh, Kept, SamePlace
    <2>10. Kept(d) \in {Kept(port), NULL} /\ d.sync = port.sync
      BY <1>1, <2>7, <2>9 DEF Ready
    <2> QED  BY <2>1, <2>4, <2>8, <2>9, <2>10, ReturnQuiet, HandlerEvents
  <1>4. Answered(r, m) \subseteq DOMAIN r.reqs
    BY DEF Answered
  <1> QED  BY <1>2, <1>3, <1>4 DEF RecvDelayResp

\* process_delay_req: the number of the port's next Sync is as before.
LEMMA RecvDelayReqQuiet ==
  ASSUME IInv, NEW n \in SeqIds, NEW nsm, NEW sent, NEW synced,
         RecvDelayReq(n, nsm, sent, synced)
  PROVE  QuietStep
  <1> DEFINE r == port_capable(port)
             d == NsmReply(r, n)
  <1>1. Ready(r)
    BY CapableReady
  <1> HIDE DEF r
  <1>2. Ready(d)
    <2>1. r \in PortRecord
      BY <1>1 DEF Ready, Sound
    <2>2. d \in PortRecord /\ SameMessages(r, d) /\ d.state = r.state
          /\ d.multiCount = r.multiCount
      BY <2>1 DEF NsmReply, port_tx_sync, PortRecord, SameMessages
    <2> HIDE DEF d
    <2> QED  BY <1>1, <2>2, SameIsReady
  <1>3. \E x \in {r, d}, e \in {"NONE", "FAULT_DETECTED"} : Return(x, clk, e)
    <2> HIDE DEF d
    <2> QED  BY DEF RecvDelayReq, r, d
  <1> QED  BY <1>1, <1>2, <1>3, ReadyQuiet, HandlerEvents

\* NotePeer touches the neighbour's data only.
LEMMA NotePeerReady ==
  ASSUME NEW r, Ready(r), NEW src \in Sources
  PROVE  /\ Ready(NotePeer(r, src)) /\ SameMessages(r, NotePeer(r, src))
         /\ SamePlace(r, NotePeer(r, src))
  <1>1. ASSUME NEW x \in Sources \cup {NULL}
        PROVE  LET d == [r EXCEPT !.peer = x]
               IN  Ready(d) /\ SameMessages(r, d) /\ SamePlace(r, d)
    <2> DEFINE d == [r EXCEPT !.peer = x]
    <2>1. r \in PortRecord
      BY DEF Ready, Sound
    <2>2. d \in PortRecord /\ SameMessages(r, d) /\ SamePlace(r, d)
      BY <2>1 DEF PortRecord, SameMessages, SamePlace
    <2> HIDE DEF d
    <2>3. Ready(d)
      BY <2>2, SameIsReady DEF SamePlace
    <2> QED  BY <2>2, <2>3 DEF d
  <1> DEFINE f == [r EXCEPT !.peer = NULL]
  <1>2. Ready(f) /\ SameMessages(r, f) /\ SamePlace(r, f)
    BY <1>1
  <1>3. NotePeer(r, src) \in {[r EXCEPT !.peer = src], port_capable(f), r}
    BY DEF NotePeer
  <1> HIDE DEF f
  <1>4. /\ Ready(port_capable(f)) /\ SameMessages(r, port_capable(f))
        /\ SamePlace(r, port_capable(f))
    BY <1>2, CapableIsReady DEF SameMessages, SamePlace
  <1>5. SameMessages(r, r) /\ SamePlace(r, r)
    BY DEF SameMessages, SamePlace
  <1> QED  BY <1>1, <1>3, <1>4, <1>5

\* process_pdelay_req: the port may turn to peer to peer.
LEMMA RecvPdelayReqQuiet ==
  ASSUME IInv, NEW src \in Sources, NEW sent, RecvPdelayReq(src, sent)
  PROVE  QuietStep
  <1> DEFINE r == port_capable(port)
             d == [r EXCEPT !.dm = "P2P"]
  <1>1. Ready(r)
    BY CapableReady
  <1> HIDE DEF r
  <1>2. Ready(d)
    <2>1. r \in PortRecord
      BY <1>1 DEF Ready, Sound
    <2>2. d \in PortRecord /\ SameMessages(r, d) /\ d.state = r.state
          /\ d.multiCount = r.multiCount
      BY <2>1 DEF PortRecord, SameMessages
    <2> HIDE DEF d
    <2> QED  BY <1>1, <2>2, SameIsReady
  <1>3. \E x \in {r, NotePeer(d, src)}, e \in {"NONE", "FAULT_DETECTED"} : Return(x, clk, e)
    <2> HIDE DEF d
    <2> QED  BY DEF RecvPdelayReq, r, d
  <1> HIDE DEF d
  <1>4. Ready(NotePeer(d, src))
    BY <1>2, NotePeerReady
  <1> QED  BY <1>1, <1>3, <1>4, ReadyQuiet, HandlerEvents

\* port_nrate_calculate keeps the messages.
LEMMA RateReady ==
  ASSUME IInv, NEW r, Ready(r), NEW near \in BOOLEAN
  PROVE  LET d == [port_nrate_calculate(r) EXCEPT !.near = near]
         IN  Ready(d) /\ SameMessages(r, d)
  <1> DEFINE rate == CASE ~r.rate.started -> [r.rate EXCEPT !.started = TRUE]
                       [] r.rate.started /\ r.rate.count + 1 < conf.maxCount ->
                            [r.rate EXCEPT !.count = @ + 1]
                       [] OTHER -> [started |-> TRUE, count |-> 0, valid |-> TRUE]
             lost == 0
             d == [r EXCEPT !.missing = lost, !.rate = rate, !.near = near]
  <1>1. r \in PortRecord /\ r.rate \in Rates
    BY DEF Ready, Sound, PortRecord
  <1>2. rate \in Rates
    <2>1. [r.rate EXCEPT !.started = TRUE] \in Rates
      BY <1>1 DEF Rates
    <2>2. [r.rate EXCEPT !.count = @ + 1] \in Rates
      BY <1>1 DEF Rates
    <2>3. [started |-> TRUE, count |-> 0, valid |-> TRUE] \in Rates
      BY DEF Rates
    <2> QED  BY <2>1, <2>2, <2>3
  <1>3. lost \in 0..(ALLOWED_LOST_RESPONSES + 1)
    BY DEF ALLOWED_LOST_RESPONSES
  <1>4. [port_nrate_calculate(r) EXCEPT !.near = near] = d
    <2>1. port_nrate_calculate(r) = [r EXCEPT !.missing = lost, !.rate = rate]
      BY DEF port_nrate_calculate
    <2> HIDE DEF rate, lost
    <2> QED  BY <1>1, <2>1 DEF PortRecord
  <1> HIDE DEF rate, lost
  <1>5. d \in PortRecord /\ SameMessages(r, d) /\ d.state = r.state
        /\ d.multiCount = r.multiCount
    BY <1>1, <1>2, <1>3 DEF PortRecord, SameMessages
  <1> HIDE DEF d
  <1>6. Ready(d)
    BY <1>5, SameIsReady
  <1> QED  BY <1>4, <1>5, <1>6

\* port_peer_delay: a complete answer to the request gives t3 and releases it.
LEMMA PeerDelayQuiet ==
  ASSUME IInv, NEW r, Ready(r), r.req # NULL, NEW near \in BOOLEAN, port_peer_delay(r, near)
  PROVE  QuietStep
  <1> DEFINE f == IF conf.as THEN [port_nrate_calculate(r) EXCEPT !.near = near] ELSE r
             d == ForgetRequest(f)
             c == IF r.state \in Slaving THEN clock_peer_delay(clk, r.req.at) ELSE clk
  <1>1. Ready(d)
    <2>1. Ready(f)
      BY RateReady
    <2> HIDE DEF f
    <2>2. Sound(f)
      BY <2>1 DEF Ready
    <2> QED  BY <2>1, <2>2, ForgetRequestSound, ReleasedIsReady
  <1>2. c \in ClockRecord /\ "old" \notin {c.t2, c.t3}
    <2>1. r.req.at = "now"
      BY DEF Ready, Fresh
    <2>2. clk \in ClockRecord /\ "old" \notin {clk.t2, clk.t3}
      BY DEF IInv, TypeOK
    <2>3. /\ [clk EXCEPT !.t3 = "now", !.delay = TRUE] \in ClockRecord
          /\ [clk EXCEPT !.t3 = "now", !.delay = TRUE].t3 = "now"
          /\ [clk EXCEPT !.t3 = "now", !.delay = TRUE].t2 = clk.t2
      BY <2>2 DEF ClockRecord, Stamps
    <2> QED  BY <2>1, <2>2, <2>3 DEF clock_peer_delay
  <1>3. Return(r, clk, "NONE") \/ Return(d, c, "NONE")
    <2> HIDE DEF d, c
    <2> QED  BY DEF port_peer_delay, d, c, f
  <1> HIDE DEF d, c
  <1>4. d.state # "INITIALIZING"
    BY <1>1 DEF Ready, Counted
  <1>5. CASE Return(r, clk, "NONE")
    BY <1>5, ReadyQuiet, HandlerEvents
  <1>6. CASE Return(d, c, "NONE")
    BY <1>1, <1>2, <1>4, <1>6, ReturnQuiet, HandlerEvents DEF Ready
  <1> QED  BY <1>3, <1>5, <1>6

\* A response or a follow up takes the place of the one kept before.
LEMMA KeepAnswerReady ==
  ASSUME NEW r, Ready(r), NEW m, m.src \in Sources, m.seq \in SeqIds, m.mine \in BOOLEAN
  PROVE  /\ m.oneStep \in BOOLEAN => Ready(KeepResponse(r, m)) /\ KeepResponse(r, m).req = r.req
         /\ LET d == [r EXCEPT !.fup = [src |-> m.src, seq |-> m.seq, mine |-> m.mine,
                                        at |-> "now"], !.used = @ + 1 - Held(r.fup)]
            IN  Ready(d) /\ d.req = r.req
  <1> DEFINE half == IF r.syfu = "EMPTY" THEN 0 ELSE 1
             all == Len(r.reqs)
  <1>1. r \in PortRecord /\ r.used \in Nat
    BY DEF Ready, Sound, PortRecord
  <1>2. /\ Held(r.req) \in {0, 1} /\ Held(r.rsp) \in {0, 1} /\ Held(r.fup) \in {0, 1}
        /\ all \in Nat /\ half \in {0, 1}
    BY <1>1, HeldFacts
  <1>3. r.used = Held(r.req) + Held(r.rsp) + Held(r.fup) + all + half
    BY DEF Ready, Sound, Balanced
  <1>4. ASSUME m.oneStep \in BOOLEAN
        PROVE  Ready(KeepResponse(r, m)) /\ KeepResponse(r, m).req = r.req
    <2> DEFINE x == [src |-> m.src, seq |-> m.seq, oneStep |-> m.oneStep, mine |-> m.mine,
                     at |-> "now"]
               u == r.used + 1 - Held(r.rsp)
               d == [r EXCEPT !.rsp = x, !.used = u]
    <2>1. KeepResponse(r, m) = d
      BY DEF KeepResponse
    <2>2. x \in Responses /\ x.at = "now"
      BY <1>4 DEF Responses, Stamps
    <2> HIDE DEF x
    <2>3. Held(x) = 1 /\ x # NULL
      BY <2>2, ConstantsAssumption DEF Held
    <2>4. u \in Nat /\ u = Held(r.req) + Held(x) + Held(r.fup) + Len(r.reqs)
                          + (IF r.syfu = "EMPTY" THEN 0 ELSE 1)
      <3> HIDE DEF half, all
      <3>1. u \in Nat /\ u = Held(r.req) + 1 + Held(r.fup) + all + half
        BY <1>2, <1>3
      <3> QED  BY <2>3, <3>1 DEF half, all
    <2> HIDE DEF u, half, all
    <2>5. /\ d \in PortRecord /\ SamePlace(r, d) /\ d.rsp = x /\ d.used = u
          /\ d.reqs = r.reqs /\ d.fup = r.fup /\ d.req = r.req /\ d.last = r.last
          /\ d.syfu = r.syfu /\ d.sync = r.sync
      <3>1. u \in Nat /\ x \in Responses
        BY <2>2, <2>4
      <3> QED  BY <1>1, <3>1 DEF PortRecord, SamePlace
    <2> HIDE DEF d
    <2>6. Sound(d)
      BY <2>4, <2>5 DEF Ready, Sound, Balanced, RightKind
    <2>7. Counted(d) /\ Fresh(d) /\ Kept(d) = Kept(r)
      BY <2>2, <2>5 DEF Ready, Counted, Fresh, Kept, SamePlace
    <2> QED  BY <2>1, <2>5, <2>6, <2>7 DEF Ready
  <1> DEFINE x == [src |-> m.src, seq |-> m.seq, mine |-> m.mine, at |-> "now"]
             u == r.used + 1 - Held(r.fup)
             d == [r EXCEPT !.fup = x, !.used = u]
  <1>5. Ready(d) /\ d.req = r.req
    <2>2. x \in FollowUps /\ x.at = "now"
      BY DEF FollowUps, Stamps
    <2> HIDE DEF x
    <2>3. Held(x) = 1 /\ x # NULL
      BY <2>2, ConstantsAssumption DEF Held
    <2>4. u \in Nat /\ u = Held(r.req) + Held(r.rsp) + Held(x) + Len(r.reqs)
                          + (IF r.syfu = "EMPTY" THEN 0 ELSE 1)
      <3> HIDE DEF half, all
      <3>1. u \in Nat /\ u = Held(r.req) + Held(r.rsp) + 1 + all + half
        BY <1>2, <1>3
      <3> QED  BY <2>3, <3>1 DEF half, all
    <2> HIDE DEF u, half, all
    <2>5. /\ d \in PortRecord /\ SamePlace(r, d) /\ d.fup = x /\ d.used = u
          /\ d.reqs = r.reqs /\ d.rsp = r.rsp /\ d.req = r.req /\ d.last = r.last
          /\ d.syfu = r.syfu /\ d.sync = r.sync
      <3>1. u \in Nat /\ x \in FollowUps
        BY <2>2, <2>4
      <3> QED  BY <1>1, <3>1 DEF PortRecord, SamePlace
    <2> HIDE DEF d
    <2>6. Sound(d)
      BY <2>4, <2>5 DEF Ready, Sound, Balanced, RightKind
    <2>7. Counted(d) /\ Fresh(d) /\ Kept(d) = Kept(r)
      BY <2>2, <2>5 DEF Ready, Counted, Fresh, Kept, SamePlace
    <2> QED  BY <2>5, <2>6, <2>7 DEF Ready
  <1> QED  BY <1>4, <1>5

\* process_pdelay_resp: a second responder is counted; the third time, and when
\* nothing was asked, the port faults.
LEMMA RecvPdelayRespQuiet ==
  ASSUME IInv, NEW m, m.src \in Sources, m.seq \in SeqIds, m.mine \in BOOLEAN,
         m.oneStep \in BOOLEAN, NEW near \in BOOLEAN, RecvPdelayResp(m, near)
  PROVE  QuietStep
  <1> DEFINE p == port_capable(port)
             n == p.multiCount + 1
             r == CountResponder(p, m)
             k == KeepResponse(NotePeer(r, m.src), m)
  <1>1. Ready(p) /\ p.state \in Enabled
    BY CapableReady DEF SamePlace, RecvPdelayResp, Receive
  <1>2. \/ BadNetwork(r, m) /\ Return(r, clk, "FAULT_DETECTED")
        \/ r.req = NULL /\ Return(r, clk, "FAULT_DETECTED")
        \/ ~BadNetwork(r, m) /\ r.req # NULL /\ port_peer_delay(k, near)
    <2> HIDE DEF k
    <2> QED  BY DEF RecvPdelayResp, r, p, k
  <1> HIDE DEF p
  <1>3. /\ r \in PortRecord /\ SameMessages(p, r) /\ r.state = p.state
        /\ ~BadNetwork(r, m) => r.multiCount <= 2
    <2>1. p \in PortRecord /\ p.multiCount \in 0..2
      BY <1>1 DEF Ready, Sound, PortRecord, Counted
    <2>2. n \in 0..3
      BY <2>1
    <2>3. CASE p.rsp # NULL /\ p.rsp.src # m.src /\ ~p.multi
      <3>1. r = [p EXCEPT !.multi = TRUE, !.multiCount = n]
        BY <2>3 DEF CountResponder
      <3> HIDE DEF n, r
      <3>2. r \in PortRecord /\ SameMessages(p, r) /\ r.state = p.state /\ r.multiCount = n
        BY <2>1, <2>2, <3>1 DEF PortRecord, SameMessages
      <3>3. ~BadNetwork(r, m) => ~(n >= 3)
        BY <2>3, <3>2 DEF BadNetwork, SameMessages
      <3> QED  BY <2>2, <3>2, <3>3
    <2>4. CASE ~(p.rsp # NULL /\ p.rsp.src # m.src /\ ~p.multi)
      <3>1. r = p
        BY <2>4 DEF CountResponder
      <3> HIDE DEF r
      <3> QED  BY <2>1, <3>1 DEF SameMessages
    <2> QED  BY <2>3, <2>4
  <1> HIDE DEF r
  <1>4. /\ Sound(r) /\ Fresh(r) /\ Kept(r) \in {Kept(port), NULL} /\ r.sync = port.sync
        /\ r.state \in Enabled /\ r.state # "INITIALIZING"
    BY <1>1, <1>3, SameIsSound DEF Ready, Quiet, Mute, Enabled
  <1>5. CASE Return(r, clk, "FAULT_DETECTED")
    <2>1. clk \in ClockRecord /\ "old" \notin {clk.t2, clk.t3}
      BY DEF IInv, TypeOK
    <2>2. "FAULT_DETECTED" \in Events
      BY HandlerEvents
    <2> QED  BY <1>4, <1>5, <2>1, <2>2, ReturnQuiet
  <1>6. CASE ~BadNetwork(r, m) /\ r.req # NULL /\ port_peer_delay(k, near)
    <2>1. Ready(r)
      BY <1>3, <1>4, <1>6 DEF Ready, Counted
    <2>2. Ready(NotePeer(r, m.src)) /\ NotePeer(r, m.src).req = r.req
      BY <2>1, NotePeerReady DEF SameMessages
    <2>3. Ready(k) /\ k.req = r.req
      BY <2>2, KeepAnswerReady
    <2> HIDE DEF k
    <2> QED  BY <1>6, <2>3, PeerDelayQuiet
  <1> QED  BY <1>2, <1>5, <1>6

\* process_pdelay_resp_fup
LEMMA RecvPdelayRespFupQuiet ==
  ASSUME IInv, NEW m, m.src \in Sources, m.seq \in SeqIds, m.mine \in BOOLEAN,
         NEW near \in BOOLEAN, RecvPdelayRespFup(m, near)
  PROVE  QuietStep
  <1> DEFINE r == port_capable(port)
             d == [r EXCEPT !.fup = [src |-> m.src, seq |-> m.seq, mine |-> m.mine,
                                     at |-> "now"], !.used = @ + 1 - Held(r.fup)]
  <1>1. Ready(r)
    BY CapableReady
  <1>2. Return(r, clk, "NONE") \/ (r.req # NULL /\ port_peer_delay(d, near))
    BY DEF RecvPdelayRespFup
  <1> HIDE DEF r
  <1>3. Ready(d) /\ d.req = r.req
    BY <1>1, KeepAnswerReady
  <1> HIDE DEF d
  <1> QED  BY <1>1, <1>2, <1>3, PeerDelayQuiet, ReadyQuiet, HandlerEvents

-----------------------------------------------------------------------------
(* Sync and Follow_Up, and the whole of Next.                              *)

\* What SyncPairing allows of a step.
MatchStep ==
  \/ Kept(port') \in {Kept(port), NULL} /\ pair' = pair
  \/ Kept(port') \in SyncHalf \cup FupHalf /\ pair' = pair
  \/ \E sync \in SyncHalf, fup \in FupHalf :
       /\ Kept(port) \in {sync, fup} /\ sync.seq = fup.seq
       /\ Kept(port') = NULL /\ pair' = [sync |-> sync, fup |-> fup]

\* What SyncNumbers allows of one.
NumberStep ==
  /\ port'.sync \in {port.sync, Seq16(port.sync + 1)}
  /\ port'.sync # port.sync => port.state \in Mastering

Step == IInv' /\ MatchStep /\ NumberStep

\* A quiet step is one of them.
LEMMA QuietIsStep == QuietStep => Step
  BY DEF QuietStep, Step, MatchStep, NumberStep

\* clock_synchronize sets t2 or, when the clock is stepped, drops both stamps.
LEMMA SynchronizedFacts ==
  ASSUME IInv, NEW v
  PROVE  LET c == SynchronizedClock(clk, "now", v)
         IN  c \in ClockRecord /\ "old" \notin {c.t2, c.t3}
  <1>1. clk \in ClockRecord /\ clk.t3 # "old"
    BY DEF IInv, TypeOK
  <1> DEFINE d == [clk EXCEPT !.t2 = "now"]
  <1>2. d \in ClockRecord /\ d.t2 = "now" /\ d.t3 # "old"
    BY <1>1 DEF ClockRecord, Stamps
  <1>3. SynchronizedClock(clk, "now", v) = IF v = "JUMP" THEN tsproc_reset(d, FALSE) ELSE d
    BY DEF SynchronizedClock
  <1> HIDE DEF d
  <1>4. tsproc_reset(d, FALSE) \in ClockRecord
        /\ tsproc_reset(d, FALSE).t2 = "none" /\ tsproc_reset(d, FALSE).t3 = "none"
    BY <1>2 DEF tsproc_reset, ClockRecord, Stamps
  <1> QED  BY <1>2, <1>3, <1>4

\* The invariant after a step that left the port as d and the clock as c.
LEMMA NewState ==
  ASSUME IInv, NEW d, NEW c \in ClockRecord, Sound(d), Counted(d), Fresh(d),
         "old" \notin {c.t2, c.t3}, port' = d, clk' = c, conf' = conf,
         pair' = pair \/ pair' \in [sync : SyncHalf, fup : FupHalf]
  PROVE  IInv'
  <1>1. TypeOK'
    BY DEF IInv, TypeOK, Sound
  <1> QED  BY <1>1 DEF IInv

\* The two halves of a pair that is used: the kept one and the one received.
LEMMA HalvesFacts ==
  ASSUME NEW m, m.src \in Sources, m.seq \in SeqIds
  PROVE  /\ Half("SYNC", m) \in SyncHalf /\ Half("FOLLOW_UP", m) \in FupHalf
         /\ Half("SYNC", m).seq = m.seq /\ Half("FOLLOW_UP", m).seq = m.seq
  BY DEF Half, SyncHalf, FupHalf

\* process_sync
LEMMA RecvSyncStep ==
  ASSUME IInv, NEW m, m.src \in Sources, m.seq \in SeqIds, NEW swOk,
         NEW v \in ServoAnswers, RecvSync(m, swOk, v)
  PROVE  Step
  <1> DEFINE r == port_capable(port)
             c == SynchronizedClock(clk, "now", v)
  <1>1. Ready(r) /\ SameMessages(port, r)
    BY CapableReady
  <1>2. clk \in ClockRecord /\ "old" \notin {clk.t2, clk.t3}
    BY DEF IInv, TypeOK
  <1>3. c \in ClockRecord /\ "old" \notin {c.t2, c.t3}
    BY SynchronizedFacts
  <1>4. /\ conf' = conf
        /\ \/ port' = r /\ clk' = clk /\ pair' = pair
           \/ clk' = c /\ port' = flush_last_sync(port_synchronize(r, v)) /\ pair' = pair
           \/ /\ r.syfu = "HAVE_FUP" /\ r.last.seq = m.seq
              /\ clk' = c /\ port' = UseBoth(r, v)
              /\ pair' = [sync |-> Half("SYNC", m), fup |-> Half("FOLLOW_UP", r.last)]
           \/ port' = Replace(r, m, "SYNC", "now", "HAVE_SYNC") /\ clk' = clk /\ pair' = pair
    <2> HIDE DEF c
    <2> QED  BY DEF RecvSync, c
  <1>5. Kept(r) = Kept(port) /\ r.sync = port.sync /\ Sound(r) /\ Counted(r) /\ Fresh(r)
    BY <1>1 DEF Ready, SameMessages, Kept
  <1> HIDE DEF r, c
  <1>6. CASE port' = r /\ clk' = clk /\ pair' = pair
    <2>1. IInv'
      BY <1>2, <1>4, <1>5, <1>6, NewState
    <2> QED  BY <1>5, <1>6, <2>1 DEF Step, MatchStep, NumberStep
  <1>7. CASE clk' = c /\ port' = flush_last_sync(port_synchronize(r, v)) /\ pair' = pair
    <2> DEFINE d == flush_last_sync(port_synchronize(r, v))
    <2>1. Sound(d) /\ Counted(d) /\ Fresh(d) /\ Kept(d) = NULL /\ d.sync = r.sync
      BY <1>5, UseSound
    <2>2. port' = d
      BY <1>7
    <2> HIDE DEF d
    <2>3. IInv'
      BY <1>3, <1>4, <1>7, <2>1, <2>2, NewState
    <2> QED  BY <1>5, <1>7, <2>1, <2>2, <2>3 DEF Step, MatchStep, NumberStep
  <1>8. CASE /\ r.syfu = "HAVE_FUP" /\ r.last.seq = m.seq
             /\ clk' = c /\ port' = UseBoth(r, v)
             /\ pair' = [sync |-> Half("SYNC", m), fup |-> Half("FOLLOW_UP", r.last)]
    <2> DEFINE d == UseBoth(r, v)
               a == Half("SYNC", m)
               b == Half("FOLLOW_UP", r.last)
    <2>1. Sound(d) /\ Counted(d) /\ Fresh(d) /\ Kept(d) = NULL /\ d.sync = r.sync
      BY <1>5, <1>8, UseSound
    <2>2. r.last.kind = "FOLLOW_UP" /\ r.last.src \in Sources /\ r.last.seq \in SeqIds
      BY <1>5, <1>8 DEF Sound, RightKind
    <2>3. a \in SyncHalf /\ b \in FupHalf /\ a.seq = b.seq
      BY <1>8, <2>2, HalvesFacts
    <2>4. Kept(port) = b
      BY <1>5, <1>8, <2>2 DEF Kept
    <2>5. port' = d /\ pair' = [sync |-> a, fup |-> b]
      BY <1>8
    <2> HIDE DEF d, a, b
    <2>6. IInv'
      BY <1>3, <1>4, <1>8, <2>1, <2>3, <2>5, NewState
    <2> QED  BY <1>5, <2>1, <2>3, <2>4, <2>5, <2>6 DEF Step, MatchStep, NumberStep
  <1>9. CASE port' = Replace(r, m, "SYNC", "now", "HAVE_SYNC") /\ clk' = clk /\ pair' = pair
    <2> DEFINE d == Replace(r, m, "SYNC", "now", "HAVE_SYNC")
    <2>1. Sound(d) /\ Counted(d) /\ Fresh(d) /\ d.sync = r.sync /\ Kept(d) = Half("SYNC", m)
      BY <1>5, ReplaceSound
    <2>2. port' = d
      BY <1>9
    <2> HIDE DEF d
    <2>3. IInv'
      BY <1>2, <1>4, <1>9, <2>1, <2>2, NewState
    <2>4. Kept(port') \in SyncHalf
      BY <2>1, <2>2, HalvesFacts
    <2> QED  BY <1>5, <1>9, <2>1, <2>2, <2>3, <2>4 DEF Step, MatchStep, NumberStep
  <1> QED  BY <1>4, <1>6, <1>7, <1>8, <1>9

\* process_follow_up
LEMMA RecvFollowUpStep ==
  ASSUME IInv, NEW m, m.src \in Sources, m.seq \in SeqIds,
         NEW v \in ServoAnswers, RecvFollowUp(m, v)
  PROVE  Step
  <1> DEFINE r == port_capable(port)
             c == SynchronizedClock(clk, "now", v)
  <1>1. Ready(r) /\ SameMessages(port, r)
    BY CapableReady
  <1>2. clk \in ClockRecord /\ "old" \notin {clk.t2, clk.t3}
    BY DEF IInv, TypeOK
  <1>3. c \in ClockRecord /\ "old" \notin {c.t2, c.t3}
    BY SynchronizedFacts
  <1>4. Kept(r) = Kept(port) /\ r.sync = port.sync /\ Sound(r) /\ Counted(r) /\ Fresh(r)
    BY <1>1 DEF Ready, SameMessages, Kept
  <1>5. r.syfu = "HAVE_SYNC" => r.last.at = "now"
    BY <1>4 DEF Fresh
  <1>6. /\ conf' = conf
        /\ \/ port' = r /\ clk' = clk /\ pair' = pair
           \/ /\ r.syfu = "HAVE_SYNC" /\ r.last.seq = m.seq
              /\ clk' = c /\ port' = UseBoth(r, v)
              /\ pair' = [sync |-> Half("SYNC", r.last), fup |-> Half("FOLLOW_UP", m)]
           \/ /\ port' = Replace(r, m, "FOLLOW_UP", "none", "HAVE_FUP")
              /\ clk' = clk /\ pair' = pair
    <2> HIDE DEF c
    <2> QED  BY <1>5 DEF RecvFollowUp, FupMatches, c
  <1> HIDE DEF r, c
  <1>7. CASE port' = r /\ clk' = clk /\ pair' = pair
    <2>1. IInv'
      BY <1>2, <1>4, <1>6, <1>7, NewState
    <2> QED  BY <1>4, <1>7, <2>1 DEF Step, MatchStep, NumberStep
  <1>8. CASE /\ r.syfu = "HAVE_SYNC" /\ r.last.seq = m.seq
             /\ clk' = c /\ port' = UseBoth(r, v)
             /\ pair' = [sync |-> Half("SYNC", r.last), fup |-> Half("FOLLOW_UP", m)]
    <2> DEFINE d == UseBoth(r, v)
               a == Half("SYNC", r.last)
               b == Half("FOLLOW_UP", m)
    <2>1. Sound(d) /\ Counted(d) /\ Fresh(d) /\ Kept(d) = NULL /\ d.sync = r.sync
      BY <1>4, <1>8, UseSound
    <2>2. r.last.kind = "SYNC" /\ r.last.src \in Sources /\ r.last.seq \in SeqIds
      BY <1>4, <1>8 DEF Sound, RightKind
    <2>3. a \in SyncHalf /\ b \in FupHalf /\ a.seq = b.seq
      BY <1>8, <2>2, HalvesFacts
    <2>4. Kept(port) = a
      BY <1>4, <1>8, <2>2 DEF Kept
    <2>5. port' = d /\ pair' = [sync |-> a, fup |-> b]
      BY <1>8
    <2> HIDE DEF d, a, b
    <2>6. IInv'
      BY <1>3, <1>6, <1>8, <2>1, <2>3, <2>5, NewState
    <2> QED  BY <1>4, <2>1, <2>3, <2>4, <2>5, <2>6 DEF Step, MatchStep, NumberStep
  <1>9. CASE /\ port' = Replace(r, m, "FOLLOW_UP", "none", "HAVE_FUP")
             /\ clk' = clk /\ pair' = pair
    <2> DEFINE d == Replace(r, m, "FOLLOW_UP", "none", "HAVE_FUP")
    <2>1. Sound(d) /\ Counted(d) /\ Fresh(d) /\ d.sync = r.sync
          /\ Kept(d) = Half("FOLLOW_UP", m)
      BY <1>4, ReplaceSound
    <2>2. port' = d
      BY <1>9
    <2> HIDE DEF d
    <2>3. IInv'
      BY <1>2, <1>6, <1>9, <2>1, <2>2, NewState
    <2>4. Kept(port') \in FupHalf
      BY <2>1, <2>2, HalvesFacts
    <2> QED  BY <1>4, <1>9, <2>1, <2>2, <2>3, <2>4 DEF Step, MatchStep, NumberStep
  <1> QED  BY <1>6, <1>7, <1>8, <1>9

\* FD_SYNC_TX_TIMER: a master's next Sync has the next number.
LEMMA SyncTxTimerStep ==
  ASSUME IInv, NEW sent, SyncTxTimer(sent)
  PROVE  Step
  <1> DEFINE r == port_capable(port)
             n == Seq16(r.sync + 1)
             d == [r EXCEPT !.sync = n]
  <1>1. Ready(r) /\ SamePlace(port, r) /\ port.state \in Mastering
    BY CapableReady DEF SyncTxTimer
  <1>2. \/ \E e \in {"NONE", "FAULT_DETECTED"} : Return(r, clk, e)
        \/ \E e \in {"NONE", "FAULT_DETECTED"} : Return(d, clk, e)
    <2>1. port_tx_sync(r) = d
      BY DEF port_tx_sync
    <2> HIDE DEF d
    <2> QED  BY <2>1 DEF SyncTxTimer
  <1> HIDE DEF r
  <1>3. CASE \E e \in {"NONE", "FAULT_DETECTED"} : Return(r, clk, e)
    BY <1>1, <1>3, ReadyQuiet, QuietIsStep, HandlerEvents
  <1>4. CASE \E e \in {"NONE", "FAULT_DETECTED"} : Return(d, clk, e)
    <2>1. r \in PortRecord /\ r.sync \in SeqIds
      BY <1>1 DEF Ready, Sound, PortRecord
    <2>2. n \in SeqIds
      BY <2>1, Seq16Type
    <2>3. n = Seq16(port.sync + 1)
      BY <1>1 DEF Ready
    <2> HIDE DEF n
    <2>4. /\ d \in PortRecord /\ SamePlace(r, d) /\ d.sync = n /\ d.used = r.used
          /\ d.last = r.last /\ d.syfu = r.syfu /\ d.reqs = r.reqs /\ d.req = r.req
          /\ d.rsp = r.rsp /\ d.fup = r.fup
      BY <2>1, <2>2 DEF PortRecord, SamePlace
    <2> HIDE DEF d
    <2>5. Sound(d) /\ Counted(d) /\ Fresh(d) /\ Kept(d) = Kept(r)
      BY <1>1, <2>4
         DEF Ready, Sound, Balanced, RightKind, Counted, Fresh, Kept, SamePlace
    <2>6. PICK e \in {"NONE", "FAULT_DETECTED"} : Return(d, clk, e)
      BY <1>4
    <2> DEFINE f == bc_dispatch(d, e, FALSE)
    <2>7. port' = f /\ clk' = clk /\ conf' = conf /\ pair' = pair
      BY <2>6 DEF Return
    <2>8. Sound(f) /\ Quiet(d, f) /\ Counted(f)
      BY <2>5, HandlerEvents, DispatchSound DEF Counted
    <2> HIDE DEF f
    <2>9. Fresh(f) /\ f.sync = n /\ Kept(f) \in {Kept(port), NULL}
      BY <1>1, <2>4, <2>5, <2>8 DEF Quiet, Mute, Ready
    <2>10. IInv'
      <3>1. clk \in ClockRecord /\ "old" \notin {clk.t2, clk.t3}
        BY DEF IInv, TypeOK
      <3> QED  BY <2>7, <2>8, <2>9, <3>1, NewState
    <2> QED  BY <1>1, <2>3, <2>7, <2>9, <2>10 DEF Step, MatchStep, NumberStep
  <1> QED  BY <1>2, <1>3, <1>4

\* handle_state_decision_event
LEMMA StateDecisionStep ==
  ASSUME IInv, NEW e \in {"RS_SLAVE", "RS_PASSIVE", "RS_GRAND_MASTER"},
         NEW s \in Sources \cup {NULL}, NEW mdiff \in BOOLEAN, StateDecision(e, s, mdiff)
  PROVE  Step
  <1> DEFINE d == bc_dispatch(port, e, mdiff)
             b == IF mdiff THEN tsproc_reset(clk, TRUE) ELSE clk
             c == [b EXCEPT !.parent = s]
  <1>1. port' = d /\ clk' = c /\ conf' = conf /\ pair' = pair
    BY DEF StateDecision
  <1>2. Sound(port) /\ Counted(port) /\ Fresh(port) /\ clk \in ClockRecord
        /\ "old" \notin {clk.t2, clk.t3}
    BY DEF IInv, TypeOK
  <1>3. Sound(d) /\ Quiet(port, d) /\ Counted(d)
    BY <1>2, HandlerEvents, DispatchSound DEF Counted
  <1>4. b \in ClockRecord /\ "old" \notin {b.t2, b.t3}
    <2>1. tsproc_reset(clk, TRUE) \in ClockRecord
          /\ tsproc_reset(clk, TRUE).t2 = "none" /\ tsproc_reset(clk, TRUE).t3 = "none"
      BY <1>2 DEF tsproc_reset, ClockRecord, Stamps
    <2> QED  BY <1>2, <2>1
  <1> HIDE DEF d, b
  <1>5. c \in ClockRecord /\ "old" \notin {c.t2, c.t3}
    BY <1>4 DEF ClockRecord
  <1> HIDE DEF c
  <1>6. IInv'
    BY <1>1, <1>2, <1>3, <1>5, NewState DEF Quiet
  <1> QED  BY <1>1, <1>3, <1>6 DEF Step, MatchStep, NumberStep, Quiet, Mute

\* The receipt timers and the other events of a port.
LEMMA OtherQuiet ==
  ASSUME IInv
  PROVE  /\ \A k : ReceiptTimer(k) => QuietStep
         /\ \A e \in {"QUALIFICATION_TIMEOUT_EXPIRES", "FAULT_DETECTED", "FAULT_CLEARED"} :
              PortEvent(e) => QuietStep
         /\ IgnoreMessage => QuietStep
  <1>1. Ready(port) /\ Sound(port)
    BY DEF IInv, Ready
  <1>2. ASSUME NEW k, ReceiptTimer(k) PROVE QuietStep
    <2>1. k \in 0..Len(port.reqs)
          /\ Return(delay_req_prune(port, k), clk, "ANNOUNCE_RECEIPT_TIMEOUT_EXPIRES")
      BY <1>2 DEF ReceiptTimer
    <2>2. Ready(delay_req_prune(port, k))
      BY <1>1, <2>1, PruneSound, ReleasedIsReady
    <2> QED  BY <2>1, <2>2, ReadyQuiet, HandlerEvents
  <1>3. ASSUME NEW e \in {"QUALIFICATION_TIMEOUT_EXPIRES", "FAULT_DETECTED", "FAULT_CLEARED"},
               PortEvent(e)
        PROVE  QuietStep
    BY <1>1, <1>3, ReadyQuiet, HandlerEvents DEF PortEvent
  <1>4. IgnoreMessage => QuietStep
    BY CapableReady, ReadyQuiet, HandlerEvents DEF IgnoreMessage
  <1> QED  BY <1>2, <1>3, <1>4

\* Every step of Next keeps the invariant and is one SyncPairing and SyncNumbers
\* allow.
LEMMA NextStep == IInv /\ Next => Step
  <1> SUFFICES ASSUME IInv, Next PROVE Step
    OBVIOUS
  <1>1. conf \in Configs
    BY DEF IInv, TypeOK
  <1>2. ASSUME NEW m \in Traffic[conf].sync, NEW swOk, NEW v \in ServoAnswers,
               RecvSync(m, swOk, v)
        PROVE  Step
    <2>1. m \in [src : Sources, seq : SeqIds, oneStep : BOOLEAN]
      BY <1>1, ConstantsAssumption
    <2> QED  BY <1>2, <2>1, RecvSyncStep
  <1>3. ASSUME NEW m \in Traffic[conf].fup, NEW v \in ServoAnswers, RecvFollowUp(m, v)
        PROVE  Step
    <2>1. m \in [src : Sources, seq : SeqIds]
      BY <1>1, ConstantsAssumption
    <2> QED  BY <1>3, <2>1, RecvFollowUpStep
  <1>4. ASSUME NEW m, RecvDelayResp(m) PROVE Step
    BY <1>4, RecvDelayRespQuiet, QuietIsStep
  <1>5. ASSUME NEW m \in Traffic[conf].pdelayResp, NEW near \in BOOLEAN,
               RecvPdelayResp(m, near)
        PROVE  Step
    <2>1. m \in [src : Sources, seq : SeqIds, oneStep : BOOLEAN, mine : BOOLEAN]
      BY <1>1, ConstantsAssumption
    <2> QED  BY <1>5, <2>1, RecvPdelayRespQuiet, QuietIsStep
  <1>6. ASSUME NEW m \in Traffic[conf].pdelayFup, NEW near \in BOOLEAN,
               RecvPdelayRespFup(m, near)
        PROVE  Step
    <2>1. m \in [src : Sources, seq : SeqIds, mine : BOOLEAN]
      BY <1>1, ConstantsAssumption
    <2> QED  BY <1>6, <2>1, RecvPdelayRespFupQuiet, QuietIsStep
  <1>7. ASSUME NEW n \in SeqIds, NEW nsm, NEW sent, NEW synced,
         RecvDelayReq(n, nsm, sent, synced) PROVE Step
    BY <1>7, RecvDelayReqQuiet, QuietIsStep
  <1>8. ASSUME NEW s \in Traffic[conf].pdelayReq, NEW sent, RecvPdelayReq(s, sent) PROVE Step
    <2>1. s \in Sources
      BY <1>1, ConstantsAssumption
    <2> QED  BY <1>8, <2>1, RecvPdelayReqQuiet, QuietIsStep
  <1>9. ASSUME NEW k \in 0..MaxRequests, NEW sent \in Success, DelayTimer(k, sent) PROVE Step
    <2>1. sent \in BOOLEAN
      BY DEF Success
    <2> QED  BY <1>9, <2>1, DelayTimerQuiet, QuietIsStep
  <1>10. ASSUME NEW sent, SyncTxTimer(sent) PROVE Step
    BY <1>10, SyncTxTimerStep
  <1>11. ASSUME NEW e \in {"RS_SLAVE", "RS_PASSIVE", "RS_GRAND_MASTER"},
                NEW s \in Sources \cup {NULL}, NEW mdiff \in BOOLEAN, StateDecision(e, s, mdiff)
         PROVE  Step
    BY <1>11, StateDecisionStep
  <1>12. CASE IgnoreMessage
    BY <1>12, OtherQuiet, QuietIsStep
  <1>13. ASSUME NEW k, ReceiptTimer(k) PROVE Step
    BY <1>13, OtherQuiet, QuietIsStep
  <1>14. ASSUME NEW e \in {"QUALIFICATION_TIMEOUT_EXPIRES", "FAULT_DETECTED", "FAULT_CLEARED"},
                PortEvent(e)
         PROVE  Step
    BY <1>14, OtherQuiet, QuietIsStep
  <1> QED  BY <1>2, <1>3, <1>4, <1>5, <1>6, <1>7, <1>8, <1>9, <1>10, <1>11, <1>12, <1>13,
              <1>14 DEF Next

-----------------------------------------------------------------------------
(* The theorems.                                                           *)

\* The invariant holds of the port as it starts.
LEMMA InitInv == Init => IInv
  <1> SUFFICES ASSUME Init PROVE IInv
    OBVIOUS
  <1>1. conf.dm \in {"E2E", "P2P", "AUTO"} /\ 0 \in SeqIds /\ conf \in Configs
    BY ConstantsAssumption DEF Init, SeqIds
  <1>2. Nothing(0) \in Lasts /\ Nothing(0).ref = 0
    BY <1>1 DEF Nothing, Lasts, Stamps
  <1>3. [started |-> FALSE, count |-> 0, valid |-> FALSE] \in Rates
    BY DEF Rates
  <1>4. 4 \in 0..(ALLOWED_LOST_RESPONSES + 1) /\ ALLOWED_LOST_RESPONSES + 1 = 4
    BY DEF ALLOWED_LOST_RESPONSES
  <1>5. <<>> \in Seq(Requests) /\ "LISTENING" \in States
    BY DEF States
  <1>6. /\ port \in PortRecord /\ port.syfu = "EMPTY" /\ port.req = NULL /\ port.rsp = NULL
        /\ port.fup = NULL /\ port.reqs = <<>> /\ port.used = 0 /\ port.last = Nothing(0)
        /\ port.state = "LISTENING" /\ port.multiCount = 0
    BY <1>1, <1>2, <1>3, <1>4, <1>5 DEF Init, PortRecord
  <1>7. Balanced(port) /\ RightKind(port) /\ Counted(port) /\ Fresh(port)
    BY <1>2, <1>6 DEF Balanced, RightKind, Counted, Fresh, Held
  <1>8. clk \in ClockRecord /\ "old" \notin {clk.t2, clk.t3} /\ pair = NULL
    BY DEF Init, ClockRecord, Stamps
  <1> QED  BY <1>1, <1>6, <1>7, <1>8 DEF IInv, TypeOK, Sound

\* The inductive invariant: the types, the balance of the reference counts, the
\* kind of the kept half, the count of responders and the freshness of stamps.
THEOREM Invariant == Spec => []IInv
  <1>1. IInv /\ UNCHANGED vars => IInv'
    BY DEF IInv, TypeOK, vars
  <1>2. IInv /\ [Next]_vars => IInv'
    BY <1>1, NextStep DEF Step
  <1> QED  BY <1>2, InitInv, PTL DEF Spec

\* No buffer of a message leaks and none is released twice, in any sequence of
\* receptions, timers, faults, decisions and steps of the clock (port.c, msg.c).
THEOREM BuffersBalanced == Spec => []NoLeak
  <1>1. IInv => NoLeak
    BY DEF IInv, Sound, Balanced, NoLeak
  <1> QED  BY <1>1, Invariant, PTL

\* A stamp of before a step of the clock is never combined with one of after it.
THEOREM Timescale == Spec => []OneTimescale
  <1>1. IInv => OneTimescale
    BY DEF IInv, Fresh, OneTimescale
  <1> QED  BY <1>1, Invariant, PTL

\* A master numbers its Syncs one by one, whatever monitors ask of it.
THEOREM Numbering == Spec => SyncNumbers
  <1>1. IInv /\ [Next]_vars =>
          [/\ port'.sync \in {port.sync, Seq16(port.sync + 1)}
           /\ port'.sync # port.sync => port.state \in Mastering]_vars
    BY NextStep DEF Step, NumberStep
  <1> QED  BY <1>1, Invariant, PTL DEF Spec, SyncNumbers

\* port_syfufsm, in the whole port, implements SyncPairing: time is taken from a
\* Sync and a Follow_Up of one sequence number only, and from each once.
THEOREM MatcherRefinement == Spec => MatcherSpec
  <1> DEFINE half == IF port.syfu = "EMPTY" THEN NULL ELSE Half(port.last.kind, port.last)
  <1>1. Init => Matcher!Init
    BY DEF Init, Matcher!Init
  <1>2. IInv /\ [Next]_vars => [Matcher!Next]_<<half, pair>>
    <2>1. ASSUME IInv, Next PROVE [Matcher!Next]_<<half, pair>>
      <3>1. MatchStep
        BY <2>1, NextStep DEF Step
      <3>2. half = Kept(port) /\ half' = Kept(port')
        BY DEF Kept
      <3> HIDE DEF half
      <3>3. Matcher!Messages = SyncHalf \cup FupHalf
            /\ Matcher!Message("SYNC") = SyncHalf /\ Matcher!Message("FOLLOW_UP") = FupHalf
        BY DEF Matcher!Messages, Matcher!Message, SyncHalf, FupHalf
      <3> QED  BY <3>1, <3>2, <3>3
                  DEF MatchStep, Matcher!Next, Matcher!Keep, Matcher!Forget, Matcher!Use, half
    <2>2. UNCHANGED vars => UNCHANGED <<half, pair>>
      BY DEF vars
    <2> QED  BY <2>1, <2>2
  <1> QED  BY <1>1, <1>2, Invariant, PTL DEF Spec, MatcherSpec, Matcher!Spec

=============================================================================
