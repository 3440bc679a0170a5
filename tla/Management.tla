----------------------------- MODULE Management -----------------------------
(***************************************************************************)
(* Management messages (clock_manage in clock.c, port_manage in port.c,    *)
(* the length checks of tlv.c, pmc.c and pmc_common.c).  A client sends a  *)
(* request to the UNIX domain socket of its clock; the clock forwards it   *)
(* on its ports, applies it to itself and its ports, and answers; the      *)
(* answers of other clocks are forwarded back.                             *)
(*                                                                         *)
(* A port is <<clock, number>> and number 0 is the socket (the UDS port).  *)
(* A body is "none", "right" or "long": empty, of the length the           *)
(* management ID calls for, or longer.  Data is a value that a SET stores. *)
(***************************************************************************)
EXTENDS Integers, Sequences, FiniteSets, FiniteSetsExt, Bags, BagsExt

CONSTANTS
  NULL, ALL,
  Clocks, NumPorts,
  Topologies,    \* the networks that are tried: sets of links {port, port}
  Held,          \* which ports do not forward (listening, passive, ...)
  Pmcs, Others,  \* the management clients: those that are pmc, and other programs
  Homes,         \* where they may run: the clock of each
  PmcCommands,   \* what is typed into pmc: [act, id, tclk, tport, hops, zero]
  Requests,      \* what other programs send: [act, id, body, tclk, tport, hops]
  Values, Initial,
  MaxRequests,   \* bound: requests of each client
  MaxHops        \* bound: the hops of a request

Clients == Pmcs \cup Others
Ports == Clocks \X (1..NumPorts)
PortsOf(c) == {c} \X (1..NumPorts)
Uds(c) == <<c, 0>>

ASSUME ManagementAssumption ==
  /\ NumPorts \in Nat /\ MaxRequests \in Nat /\ MaxHops \in 0..255
  /\ Homes \subseteq [Clients -> Clocks] /\ Initial \in Values
  /\ \A w \in Topologies : \A l \in w : l \subseteq Ports /\ Cardinality(l) = 2
  /\ \A r \in PmcCommands \cup Requests : r.hops \in 0..MaxHops

VARIABLES
  wires,      \* the links of the network
  home,       \* the clock of each client, to whose socket it writes
  fwd,        \* the ports whose state lets them forward (master, slave, ...)
  net,        \* a bag of messages on the way: [to, addr, m]
  address,    \* of each clock, the client its socket last heard from
  ds, thresh, \* what can be set: per clock and ID, and per port
  decided,    \* the data sets the last state decision went by
  subs,       \* the subscribers of each clock
  got,        \* a bag of what the clients received: [client, m]
  sent,       \* the requests that were made
  forwarded,  \* which clock forwarded which of them
  lost        \* whether the network lost one

vars == <<wires, home, fwd, net, address, ds, thresh, decided, subs, got, sent, forwarded, lost>>

-----------------------------------------------------------------------------
(* The management IDs, by what is done with them.                          *)

SUBSCRIBE == "SUBSCRIBE_EVENTS_NP"

\* clock_management_set
Settable == {"PRIORITY1", "PRIORITY2", "GRANDMASTER_SETTINGS_NP"}
ClockSets == Settable \cup {SUBSCRIBE}

\* clock_management_fill_response
ClockGets ==
  ClockSets \cup
  {"USER_DESCRIPTION", "DEFAULT_DATA_SET", "CURRENT_DATA_SET", "PARENT_DATA_SET", "TIME_PROPERTIES_DATA_SET",
   "DOMAIN", "SLAVE_ONLY", "CLOCK_ACCURACY", "TRACEABILITY_PROPERTIES", "TIMESCALE_PROPERTIES", "TIME_STATUS_NP"}

\* clock_manage: known to the clock, but not done.
ClockIds ==
  ClockGets \cup
  {"SAVE_IN_NON_VOLATILE_STORAGE", "RESET_NON_VOLATILE_STORAGE", "INITIALIZE", "FAULT_LOG", "FAULT_LOG_RESET",
   "TIME", "UTC_PROPERTIES", "PATH_TRACE_LIST", "PATH_TRACE_ENABLE", "GRANDMASTER_CLUSTER_TABLE",
   "ACCEPTABLE_MASTER_TABLE", "ACCEPTABLE_MASTER_MAX_TABLE_SIZE", "ALTERNATE_TIME_OFFSET_ENABLE",
   "ALTERNATE_TIME_OFFSET_NAME", "ALTERNATE_TIME_OFFSET_MAX_KEY", "ALTERNATE_TIME_OFFSET_PROPERTIES",
   "TRANSPARENT_CLOCK_DEFAULT_DATA_SET", "PRIMARY_DOMAIN"}

PortSets == {"PORT_DATA_SET_NP"}

\* port_management_fill_response
PortGets ==
  PortSets \cup
  {"NULL_MANAGEMENT", "CLOCK_DESCRIPTION", "PORT_DATA_SET", "LOG_ANNOUNCE_INTERVAL", "ANNOUNCE_RECEIPT_TIMEOUT",
   "LOG_SYNC_INTERVAL", "VERSION_NUMBER", "DELAY_MECHANISM", "LOG_MIN_PDELAY_REQ_INTERVAL", "PORT_PROPERTIES_NP"}

\* port_manage: known to the port, but not done.
PortIds ==
  (PortGets \ {"PORT_DATA_SET_NP", "PORT_PROPERTIES_NP"}) \cup
  {"ENABLE_PORT", "DISABLE_PORT", "UNICAST_NEGOTIATION_ENABLE", "UNICAST_MASTER_TABLE",
   "UNICAST_MASTER_MAX_TABLE_SIZE", "ACCEPTABLE_MASTER_TABLE_ENABLED", "ALTERNATE_MASTER",
   "TRANSPARENT_CLOCK_PORT_DATA_SET"}

\* mgt_post_recv: the length is checked only for these, and these have no data.
Sized ==
  {"CLOCK_DESCRIPTION", "USER_DESCRIPTION", "DEFAULT_DATA_SET", "CURRENT_DATA_SET", "PARENT_DATA_SET",
   "TIME_PROPERTIES_DATA_SET", "PORT_DATA_SET", "TIME_STATUS_NP", "GRANDMASTER_SETTINGS_NP", "PORT_DATA_SET_NP",
   SUBSCRIBE, "PORT_PROPERTIES_NP"}
Bare ==
  {"SAVE_IN_NON_VOLATILE_STORAGE", "RESET_NON_VOLATILE_STORAGE", "INITIALIZE", "FAULT_LOG_RESET", "ENABLE_PORT",
   "DISABLE_PORT"}

mgt_post_recv(id, body) == body = "none" \/ (id \in Sized /\ body = "right") \/ id \notin Sized \cup Bare

-----------------------------------------------------------------------------
(* Forwarding (clock_forward_mgmt_msg, clock_do_forward_mgmt).             *)

Asks == {"GET", "SET", "COMMAND"}

forwarding(p) == p \in fwd \/ p[2] = 0

Travels(p, m) == forwarding(p) /\ m.hops > 0

\* No request goes to a socket, and a message never back where it came from.
Outs(p, m) ==
  {q \in PortsOf(p[1]) \cup {Uds(p[1])} :
     Travels(p, m) /\ q # p /\ forwarding(q) /\ ~(q = Uds(p[1]) /\ m.act \in Asks)}

\* Mutation: the hops are not counted.
Forwarded_for_ever(m) == m

Forwarded(m) == [m EXCEPT !.hops = @ - 1]

\* The message as the clock goes on with it.  Sending converts it to the order of the
\* network and receiving it anew back: that attaches its TLV a second time.  The hops
\* are restored only if it was sent.
AfterForward(p, m) ==
  IF Outs(p, m) # {} THEN [m EXCEPT !.tlvs = @ + 1]
  ELSE IF Travels(p, m) THEN Forwarded(m) ELSE m

-----------------------------------------------------------------------------
(* Answers.                                                                *)

\* Mutation: the answer gets what is left of the request's hops.
ReplyHops_left(m) == m.hops

\* port_management_reply: the hops that the request has come.
ReplyHops(m) == m.start - m.hops

port_management_construct(m, from, res) ==
  [act |-> IF m.act = "COMMAND" THEN "ACKNOWLEDGE" ELSE "RESPONSE", id |-> m.id, body |-> "right", val |-> NULL,
   src |-> from, dst |-> <<m.src, NULL>>, seq |-> m.seq, start |-> ReplyHops(m), hops |-> ReplyHops(m),
   tlvs |-> 1, res |-> res]

Handles(m, gets, sets) == (m.act = "GET" /\ m.id \in gets) \/ (m.act = "SET" /\ m.id \in sets)

\* The length of a subscription's data is not counted: it is sent as an empty TLV.
Answer(m, from, res) ==
  [port_management_construct(m, from, res) EXCEPT !.body = IF m.id = SUBSCRIBE /\ res = "data" THEN "none" ELSE @]

Targets(p, m) == {q \in PortsOf(p[1]) : m.dst[2] \in {ALL, q[2]}}

\* port_manage on every port: an ID that no port knows ends it at the first.
PortAnswers(p, m) ==
  LET to == Targets(p, m) IN
  IF to = {} THEN {Answer(m, p, "WRONG_VALUE")}
  ELSE IF Handles(m, PortGets, PortSets) THEN {Answer(m, q, "data") : q \in to}
  ELSE IF m.id \in PortIds THEN {Answer(m, q, "NOT_SUPPORTED") : q \in to}
  ELSE {Answer(m, <<p[1], Min({q[2] : q \in to})>>, "NO_SUCH_ID")}

\* Mutation: any port may set.
OnlyLocal_never(p, m) == FALSE

OnlyLocal(p, m) == p # Uds(p[1]) /\ m.act = "SET"

Empty(m) == m.act = "SET" /\ m.body = "none" /\ m.id # "NULL_MANAGEMENT"

Answers(p, m) ==
  IF Empty(m) THEN {Answer(m, p, "WRONG_LENGTH")}
  ELSE IF OnlyLocal(p, m) THEN {Answer(m, p, "NOT_SUPPORTED")}
  ELSE IF Handles(m, ClockGets, ClockSets) THEN {Answer(m, p, "data")}
  ELSE IF m.id = "PORT_PROPERTIES_NP" /\ p # Uds(p[1]) THEN {Answer(m, p, "NOT_SUPPORTED")}
  ELSE IF m.id \in ClockIds THEN {Answer(m, p, "NOT_SUPPORTED")}
  ELSE PortAnswers(p, m)

\* clock_manage: what is for this clock and can be read.
Applies(p, m) == m.act \in Asks /\ m.dst[1] \in {ALL, p[1]} /\ m.tlvs = 1

Sets(p, m) == Applies(p, m) /\ m.act = "SET" /\ ~Empty(m) /\ ~OnlyLocal(p, m)

\* clock_update_subscription: no events end a subscription.  Over a socket pmc_create
\* leaves the clock identity zero and the port number 1, so all the clients of a
\* clock are one subscriber to it, the one that asked last.
Subscribers(c, m) == IF m.val = Initial THEN {} ELSE {m.src}

-----------------------------------------------------------------------------
(* Messages on the way.                                                    *)

Peer(q) == {r \in Ports : {q, r} \in wires}

\* What a clock sends on its ports reaches the other end of the link.
ToNetwork(q, m) == {[to |-> r, addr |-> NULL, m |-> m] : r \in Peer(q)}

\* What it sends on its socket goes to the client the socket last heard from.
ToClient(q, m, client) == IF q[2] = 0 /\ client # NULL THEN {[client |-> client, m |-> m]} ELSE {}

\* msg_post_recv and port_ignore: bad messages and the clock's own are dropped.
Dropped(p, m) == (m.act \in Asks /\ ~mgt_post_recv(m.id, m.body)) \/ m.src \in PortsOf(p[1]) \cup {Uds(p[1])}

Receive(e) ==
  LET p == e.to
      c == p[1]
      client == IF p = Uds(c) THEN e.addr ELSE address[c]
      m == AfterForward(p, e.m)
      answers == IF Applies(p, m) THEN Answers(p, m) ELSE {}
      sends == {<<q, Forwarded(e.m)>> : q \in Outs(p, e.m)} \cup {<<p, a>> : a \in answers}
      drop == Dropped(p, e.m)
  IN
  /\ BagIn(e, net)
  /\ address' = [address EXCEPT ![c] = client]
  /\ IF drop
     THEN net' = BagRemove(net, e) /\ UNCHANGED <<ds, thresh, decided, subs, got, forwarded>>
     ELSE /\ net' = BagRemove(net, e) (+) SetToBag(UNION {ToNetwork(s[1], s[2]) : s \in sends})
          /\ got' = got (+) SetToBag(UNION {ToClient(s[1], s[2], client) : s \in sends})
          /\ forwarded' = IF Outs(p, e.m) # {} /\ m.act \in Asks THEN forwarded \cup {<<c, m.seq>>} ELSE forwarded
          /\ ds' = IF Sets(p, m) /\ m.id \in Settable THEN [ds EXCEPT ![c][m.id] = m.val] ELSE ds
          /\ decided' = IF Sets(p, m) /\ m.id \in Settable THEN [decided EXCEPT ![c] = ds'[c]] ELSE decided
          /\ subs' = IF Sets(p, m) /\ m.id = SUBSCRIBE THEN [subs EXCEPT ![c] = Subscribers(c, m)] ELSE subs
          /\ thresh' = [q \in Ports |-> IF Sets(p, m) /\ m.id \in PortSets /\ q \in Targets(p, m)
                                        THEN m.val ELSE thresh[q]]
  /\ UNCHANGED <<wires, home, fwd, sent, lost>>

\* Bound: the network loses one message at most.
Lose(e) ==
  /\ BagIn(e, net) /\ e.to[2] # 0 /\ ~lost
  /\ net' = BagRemove(net, e) /\ lost' = TRUE
  /\ UNCHANGED <<wires, home, fwd, address, ds, thresh, decided, subs, got, sent, forwarded>>

-----------------------------------------------------------------------------
(* The clients.                                                            *)

\* The identity x is the model's own, to tell whose request an answer is about: on the
\* wire all clients of a socket have the same one, and a sequence number each.
Send(x, r, val) ==
  LET m == [act |-> r.act, id |-> r.id, body |-> r.body, val |-> val, src |-> x, dst |-> <<r.tclk, r.tport>>,
            seq |-> Len(sent) + 1, start |-> r.hops, hops |-> r.hops, tlvs |-> 1, res |-> NULL]
  IN /\ Len(SelectSeq(sent, LAMBDA k : k.src = x)) < MaxRequests
     /\ sent' = Append(sent, m)
     /\ net' = BagAdd(net, [to |-> Uds(home[x]), addr |-> x, m |-> m])
     /\ UNCHANGED <<wires, home, fwd, address, ds, thresh, decided, subs, got, forwarded, lost>>

\* pmc sends what its table allows (do_get_action, do_set_action, not_supported).
PmcSends(act, id) ==
  \/ act = "GET" /\ id \in (ClockGets \cup PortGets) \ {SUBSCRIBE, "PORT_PROPERTIES_NP"}
  \/ act = "SET" /\ id \in Settable \cup PortSets

\* The dummy data of a GET (pmc_tlv_datalen).
pmc_tlv_datalen(id, zero) ==
  IF zero \/ id \notin ((ClockGets \cup PortGets) \ {SUBSCRIBE, "PORT_PROPERTIES_NP", "NULL_MANAGEMENT"})
  THEN "none" ELSE "right"

Pmc(x, r, val) ==
  /\ PmcSends(r.act, r.id)
  /\ Send(x, [act |-> r.act, id |-> r.id, tclk |-> r.tclk, tport |-> r.tport, hops |-> r.hops,
              body |-> IF r.act = "SET" THEN "right" ELSE pmc_tlv_datalen(r.id, r.zero)], val)

-----------------------------------------------------------------------------
\* Only a SET has data of its own.
Data(r) == IF r.act = "SET" THEN Values ELSE {Initial}

Init ==
  /\ wires \in Topologies /\ home \in Homes
  /\ \E held \in Held : fwd = Ports \ held
  /\ net = EmptyBag /\ got = EmptyBag /\ sent = <<>> /\ forwarded = {} /\ lost = FALSE
  /\ address = [c \in Clocks |-> NULL] /\ subs = [c \in Clocks |-> {}]
  /\ ds = [c \in Clocks |-> [i \in Settable |-> Initial]] /\ decided = ds
  /\ thresh = [p \in Ports |-> Initial]

Next ==
  \/ \E x \in Pmcs, r \in PmcCommands : \E v \in Data(r) : Pmc(x, r, v)
  \/ \E x \in Others, r \in Requests : \E v \in Data(r) : Send(x, r, v)
  \/ \E e \in DOMAIN net : Receive(e)
  \/ \E e \in DOMAIN net : Lose(e)

Spec == Init /\ [][Next]_vars

\* The clocks go on reading what arrives.
FairSpec == Spec /\ WF_vars(\E e \in DOMAIN net : Receive(e))

-----------------------------------------------------------------------------
(* Properties.                                                             *)

\* The hops of a message are those it may still travel, and one that can be read has
\* one TLV.
TypeOK ==
  /\ fwd \subseteq Ports
  /\ \A e \in DOMAIN net : e.m.hops \in 0..MaxHops /\ e.m.hops <= e.m.start /\ e.m.tlvs = 1
  /\ \A c \in Clocks : ds[c] \in [Settable -> Values] /\ subs[c] \subseteq Clients
  /\ thresh \in [Ports -> Values]

\* Nothing is set by a request that came over the network: what differs from the start
\* was asked for by a client of the clock's own socket, even where one request is
\* forwarded to all clocks; and the last state decision knew of it (clock_manage).
SetsAreLocal ==
  /\ TypeOK
  /\ \A c \in Clocks, i \in Settable :
       ds[c][i] # Initial => \E k \in DOMAIN sent :
         sent[k].act = "SET" /\ sent[k].id = i /\ sent[k].val = ds[c][i] /\ home[sent[k].src] = c
  /\ \A p \in Ports :
       thresh[p] # Initial => \E k \in DOMAIN sent :
         sent[k].act = "SET" /\ sent[k].id \in PortSets /\ sent[k].val = thresh[p] /\ home[sent[k].src] = p[1]
  /\ decided = ds

\* The clocks a request reaches from the socket of clock c with its hops.
Reached(c, hops) ==
  LET step[h \in 0..MaxHops] ==
        IF h = 0 THEN {c}
        ELSE step[h - 1] \cup {r[1] : r \in UNION {Peer(q) : q \in fwd \cap UNION {PortsOf(d) : d \in step[h - 1]}}}
  IN step[hops]

\* How many answers a clock owes: one, or one for each port the request names.
Owed(c, m) ==
  LET to == {q \in PortsOf(c) : m.dst[2] \in {ALL, q[2]}}
      each == ~Empty(m) /\ m.id \notin ClockIds /\ to # {} /\
              (Handles(m, PortGets, PortSets) \/ m.id \in PortIds) /\
              (home[m.src] # c => m.act # "SET" /\ m.id # "PORT_PROPERTIES_NP")
  IN IF m.dst[1] \notin {ALL, c} THEN 0 ELSE IF each THEN Cardinality(to) ELSE 1

\* The answers of clock c to a request that came out of the socket it was made at.
AnswersTo(c, m) ==
  {b \in DOMAIN got : home[b.client] = home[m.src] /\ b.m.dst[1] = m.src /\ b.m.seq = m.seq /\ b.m.src[1] = c}
Count(B) == BagCardinality([b \in B |-> got[b]])
Received(c, m) == Count({b \in AnswersTo(c, m) : b.client = m.src})

\* No other client has used the socket, which only remembers whom it last heard from.
Alone(m) == \A k \in DOMAIN sent : home[sent[k].src] = home[m.src] => sent[k].src = m.src

Tree == Cardinality(wires) < Cardinality(Clocks)
AllForward == fwd = Ports

\* In a network without loops whose ports all forward, every clock that a request
\* reaches with its hops and that is the last on its way answers it as often as it
\* should, and the answers find the way back to the socket the request came from with
\* the hops that it used up; never more often, whatever is lost.  The answers of the
\* client's own clock reach the client itself, whoever else uses the socket; those
\* that other clocks send do so if nobody else does, and else go to the client that
\* uds_recv last heard from (port_management_reply, clock_forward_mgmt_msg,
\* port_manage, uds_send).
AnsweredOnce ==
  Tree =>
    \A k \in DOMAIN sent, c \in Clocks :
      LET m == sent[k]
          reached == c \in Reached(home[m.src], m.hops) /\ <<c, m.seq>> \notin forwarded
      IN
      /\ Count(AnswersTo(c, m)) <= Owed(c, m)
      /\ (net = EmptyBag /\ ~lost /\ AllForward /\ mgt_post_recv(m.id, m.body) /\ reached) =>
           /\ Count(AnswersTo(c, m)) = Owed(c, m)
           /\ c = home[m.src] \/ Alone(m) => Received(c, m) = Owed(c, m)

\* "Forward this message out all eligible ports.  Apply this message to the local clock
\* and ports": the clock whose socket a request comes in on answers it.
AppliedLocally ==
  \A k \in DOMAIN sent :
    LET m == sent[k] IN
    (net = EmptyBag /\ mgt_post_recv(m.id, m.body)) => Received(home[m.src], m) = Owed(home[m.src], m)

\* However the network is wired, a request and the answers to it stop travelling.
FloodEnds == <>[](net = EmptyBag)
=============================================================================
