-------------------------- MODULE ManagementProofs --------------------------
(***************************************************************************)
(* Nothing is set over the network: for any clocks, ports, wirings,        *)
(* clients and requests, whatever is forwarded, answered or lost.          *)
(***************************************************************************)
EXTENDS Management, SequenceTheorems, TLAPS

-----------------------------------------------------------------------------
(* Types.                                                                  *)

Asking == PmcCommands \cup Requests
Sockets == {Uds(c) : c \in Clocks}
Results == {"data", "WRONG_VALUE", "NOT_SUPPORTED", "NO_SUCH_ID", "WRONG_LENGTH"}
Bodies == {"none", "right"} \cup {r.body : r \in Requests}
Ids == {r.id : r \in Asking}
Acts == {r.act : r \in Asking}

\* What the clients send, and what is on the way.
RequestMessages ==
  [act : Acts, id : Ids, body : Bodies, val : Values, src : Clients,
   dst : {r.tclk : r \in Asking} \X {r.tport : r \in Asking}, seq : Nat,
   start : 0..MaxHops, hops : 0..MaxHops, tlvs : {1}, res : {NULL}]

Parties == Clients \cup Ports \cup Sockets

Messages ==
  [act : Acts \cup {"ACKNOWLEDGE", "RESPONSE"}, id : Ids, body : Bodies, val : Values \cup {NULL}, src : Parties,
   dst : ({r.tclk : r \in Asking} \cup Parties) \X ({r.tport : r \in Asking} \cup {NULL}), seq : Nat,
   start : 0..MaxHops, hops : 0..MaxHops, tlvs : Nat, res : Results \cup {NULL}]

\* A message that asks for something does so for one that a client has sent.
Same(m, s) == m.act = s.act /\ m.id = s.id /\ m.val = s.val /\ m.src = s.src
Asked(m) == \E k \in DOMAIN sent : Same(m, sent[k])

\* At a socket, the message is one of a client of that very clock.
OnWay(e) ==
  /\ e.to \in Ports \cup Sockets
  /\ e.m \in Messages /\ e.m.hops <= e.m.start /\ e.m.tlvs = 1
  /\ e.m.act \in Asks => Asked(e.m) /\ (e.to[2] = 0 => home[e.m.src] = e.to[1])

Travelling == \A e \in DOMAIN net : OnWay(e)

\* A value that is not the first one was asked for at the clock's own socket.
Local(c, ids, v) ==
  \E k \in DOMAIN sent :
    sent[k].act = "SET" /\ sent[k].id \in ids /\ sent[k].val = v /\ home[sent[k].src] = c

Asserted ==
  /\ \A c \in Clocks, i \in Settable : ds[c][i] # Initial => Local(c, {i}, ds[c][i])
  /\ \A p \in Ports : thresh[p] # Initial => Local(p[1], PortSets, thresh[p])

Typed ==
  /\ fwd \subseteq Ports /\ sent \in Seq(RequestMessages) /\ home \in [Clients -> Clocks]
  /\ ds \in [Clocks -> [Settable -> Values]] /\ decided = ds
  /\ subs \in [Clocks -> SUBSET Clients] /\ thresh \in [Ports -> Values]

IInv == Typed /\ Travelling /\ Asserted

-----------------------------------------------------------------------------
(* Bags.                                                                   *)

\* Removing from a bag brings nothing new.
LEMMA RemoveDomain ==
  ASSUME NEW B, NEW x
  PROVE  DOMAIN BagRemove(B, x) \subseteq DOMAIN B
  BY DEF BagRemove

\* Adding to a bag brings what is added.
LEMMA AddDomain ==
  ASSUME NEW B, NEW x
  PROVE  DOMAIN BagAdd(B, x) = DOMAIN B \cup {x}
  BY DEF BagAdd

\* The sum of a bag and a set has the elements of both.
LEMMA PlusDomain ==
  ASSUME NEW B, NEW S
  PROVE  DOMAIN (B (+) SetToBag(S)) = DOMAIN B \cup S
  BY DEF (+), SetToBag

-----------------------------------------------------------------------------
(* Answers.                                                                *)

\* The first of the ports that a request names is one of them: it names all or one.
LEMMA FirstPort ==
  ASSUME NEW p, NEW m, Targets(p, m) # {}
  PROVE  Min({q[2] : q \in Targets(p, m)}) \in 1..NumPorts
  <1> DEFINE T == {q[2] : q \in Targets(p, m)}
  <1>1. T \subseteq 1..NumPorts /\ T # {} /\ NumPorts \in Nat
    BY ManagementAssumption DEF Targets, PortsOf
  <1>2. \E x \in T : \A y \in T : x <= y
    <2>1. CASE m.dst[2] = ALL
      <3>1. PICK x \in T : x \in 1..NumPorts
        BY <1>1
      <3>2. 1 \in 1..NumPorts
        BY <1>1, <3>1
      <3>3. <<p[1], 1>> \in Targets(p, m)
        BY <2>1, <3>2 DEF Targets, PortsOf
      <3>4. 1 \in T
        BY <3>3
      <3> QED  BY <1>1, <3>4
    <2>2. CASE m.dst[2] # ALL
      <3>1. \A x \in T : x = m.dst[2]
        BY <2>2 DEF Targets
      <3> QED  BY <1>1, <3>1
    <2> QED  BY <2>1, <2>2
  <1> HIDE DEF T
  <1>3. Min(T) \in T
    BY <1>2 DEF Min
  <1> QED  BY <1>1, <1>3 DEF T

\* A clock answers from one of its ports or its socket, with an answer to this request.
LEMMA AnswersForm ==
  ASSUME NEW p \in Ports \cup Sockets, NEW m, NEW a \in Answers(p, m)
  PROVE  \E from \in Ports \cup Sockets, res \in Results : a = Answer(m, from, res)
  <1> DEFINE to == Targets(p, m)
  <1>1. p[1] \in Clocks /\ NumPorts \in Nat
    BY ManagementAssumption DEF Ports, Sockets, Uds
  <1>2. to \subseteq Ports
    BY <1>1 DEF Targets, PortsOf, Ports
  <1>3. to # {} => <<p[1], Min({q[2] : q \in to})>> \in Ports
    BY <1>1, FirstPort DEF Ports
  <1>4. CASE a \in PortAnswers(p, m)
    BY <1>2, <1>3, <1>4 DEF PortAnswers, Results
  <1>5. CASE a \notin PortAnswers(p, m)
    BY <1>5 DEF Answers, Results
  <1> QED  BY <1>4, <1>5

\* What may be told apart in an answer.
LEMMA AnswerType ==
  ASSUME NEW m \in Messages, m.hops <= m.start,
         NEW from \in Ports \cup Sockets, NEW res \in Results
  PROVE  LET a == Answer(m, from, res) IN
         a \in Messages /\ a.hops = a.start /\ a.tlvs = 1 /\ a.act \notin Asks
  <1> DEFINE b == port_management_construct(m, from, res)
             body == IF m.id = SUBSCRIBE /\ res = "data" THEN "none" ELSE "right"
             h == ReplyHops(m)
             act == IF m.act = "COMMAND" THEN "ACKNOWLEDGE" ELSE "RESPONSE"
             a == [act |-> act, id |-> m.id, body |-> body, val |-> NULL,
                   src |-> from, dst |-> <<m.src, NULL>>, seq |-> m.seq, start |-> h, hops |-> h,
                   tlvs |-> 1, res |-> res]
  <1>1. Answer(m, from, res) = a
    BY DEF Answer, port_management_construct
  <1>2. h \in 0..MaxHops
    BY ManagementAssumption DEF ReplyHops, Messages
  <1>3. act \in {"ACKNOWLEDGE", "RESPONSE"} /\ body \in {"none", "right"}
    OBVIOUS
  <1>4. m.id \in Ids /\ m.seq \in Nat /\ m.src \in Parties
    BY DEF Messages
  <1> HIDE DEF h, act, body
  <1>5. a \in Messages
    BY <1>2, <1>3, <1>4 DEF Messages, Bodies, Parties
  <1>6. a.hops = a.start /\ a.tlvs = 1 /\ a.act \notin Asks
    BY <1>3 DEF Asks
  <1> QED  BY <1>1, <1>5, <1>6

-----------------------------------------------------------------------------
(* Forwarding.                                                             *)

\* A message with hops left has one less when it is forwarded (clock_forward_mgmt_msg).
LEMMA ForwardedType ==
  ASSUME NEW m \in Messages, m.hops > 0, m.hops <= m.start
  PROVE  LET f == Forwarded(m) IN
         /\ f \in Messages /\ f.hops < f.start /\ f.tlvs = m.tlvs
         /\ Same(f, m) /\ f.start = m.start
  <1>1. m.hops \in 0..MaxHops /\ m.start \in 0..MaxHops /\ MaxHops \in Nat
    BY ManagementAssumption DEF Messages
  <1>2. m.hops - 1 \in 0..MaxHops /\ m.hops - 1 < m.start
    BY <1>1
  <1> DEFINE h == m.hops - 1
  <1>3. Forwarded(m) = [m EXCEPT !.hops = h]
    BY DEF Forwarded
  <1> HIDE DEF h
  <1> QED  BY <1>2, <1>3 DEF Messages, Same, h

\* The message the clock goes on with asks for the same (clock_forward_mgmt_msg).
LEMMA AfterForwardType ==
  ASSUME NEW p, NEW m \in Messages, m.hops <= m.start
  PROVE  LET f == AfterForward(p, m) IN
         f \in Messages /\ f.hops <= f.start /\ Same(f, m)
  <1>1. CASE Outs(p, m) # {}
    <2> DEFINE t == m.tlvs + 1
    <2>1. AfterForward(p, m) = [m EXCEPT !.tlvs = t]
      BY <1>1 DEF AfterForward
    <2>2. t \in Nat
      BY DEF Messages
    <2> HIDE DEF t
    <2> QED  BY <2>1, <2>2 DEF Messages, Same
  <1>2. CASE Outs(p, m) = {} /\ Travels(p, m)
    <2>1. AfterForward(p, m) = Forwarded(m) /\ m.hops > 0
      BY <1>2 DEF AfterForward, Travels
    <2>2. /\ Forwarded(m) \in Messages /\ Forwarded(m).hops < Forwarded(m).start
          /\ Same(Forwarded(m), m)
      BY <2>1, ForwardedType
    <2>3. Forwarded(m).hops \in Int /\ Forwarded(m).start \in Int
      BY <2>2, ManagementAssumption DEF Messages
    <2> QED  BY <2>1, <2>2, <2>3
  <1>3. CASE Outs(p, m) = {} /\ ~Travels(p, m)
    BY <1>3 DEF AfterForward, Same
  <1> QED  BY <1>1, <1>2, <1>3

-----------------------------------------------------------------------------
(* The steps.                                                              *)

\* Nothing is on the way at first and everything has its first value.
LEMMA InitInv ==
  ASSUME Init
  PROVE  IInv
  <1>1. Typed
    BY ManagementAssumption DEF Init, Typed
  <1>2. DOMAIN net = {}
    BY DEF Init, EmptyBag, SetToBag
  <1>3. Travelling
    BY <1>2 DEF Travelling
  <1>4. Asserted
    BY DEF Init, Asserted
  <1> QED  BY <1>1, <1>3, <1>4 DEF IInv

\* A client's request is put on the way to its socket.
LEMMA SendStep ==
  ASSUME IInv, NEW x \in Clients, NEW r, NEW v \in Values, Send(x, r, v),
         r.act \in Acts, r.id \in Ids, r.body \in Bodies, r.hops \in 0..MaxHops,
         r.tclk \in {k.tclk : k \in Asking}, r.tport \in {k.tport : k \in Asking}
  PROVE  IInv'
  <1> DEFINE n == Len(sent) + 1
             m == [act |-> r.act, id |-> r.id, body |-> r.body, val |-> v, src |-> x,
                   dst |-> <<r.tclk, r.tport>>, seq |-> n, start |-> r.hops, hops |-> r.hops,
                   tlvs |-> 1, res |-> NULL]
             e == [to |-> Uds(home[x]), addr |-> x, m |-> m]
  <1>1. /\ sent' = Append(sent, m) /\ net' = BagAdd(net, e)
        /\ UNCHANGED <<home, fwd, ds, thresh, decided, subs>>
    BY DEF Send
  <1>2. n \in Nat /\ sent \in Seq(RequestMessages)
    BY DEF IInv, Typed
  <1>3. m \in RequestMessages
    <2> HIDE DEF n
    <2> QED  BY <1>2 DEF RequestMessages
  <1>4. m \in Messages
    <2> HIDE DEF n
    <2> QED  BY <1>2 DEF Messages, Parties
  <1>5. m.hops = m.start /\ m.tlvs = 1 /\ m.src = x
    OBVIOUS
  <1> HIDE DEF m
  <1>6. /\ sent' \in Seq(RequestMessages) /\ DOMAIN sent \subseteq DOMAIN sent'
        /\ \A k \in DOMAIN sent : sent'[k] = sent[k]
        /\ n \in DOMAIN sent' /\ sent'[n] = m /\ home' = home
    BY <1>1, <1>2, <1>3
  <1> HIDE DEF n
  <1>7. Typed'
    BY <1>1, <1>6 DEF IInv, Typed
  <1>8. Asserted'
    <2>1. ASSUME NEW c \in Clocks, NEW i \in Settable, ds'[c][i] # Initial
          PROVE  Local(c, {i}, ds[c][i])'
      <3>1. Local(c, {i}, ds[c][i])
        BY <1>1, <2>1 DEF IInv, Asserted
      <3> QED  BY <1>1, <1>6, <3>1 DEF Local
    <2>2. ASSUME NEW p \in Ports, thresh'[p] # Initial
          PROVE  Local(p[1], PortSets, thresh[p])'
      <3>1. Local(p[1], PortSets, thresh[p])
        BY <1>1, <2>2 DEF IInv, Asserted
      <3> QED  BY <1>1, <1>6, <3>1 DEF Local
    <2> QED  BY <2>1, <2>2 DEF Asserted
  <1>9. Travelling'
    <2> SUFFICES ASSUME NEW f \in DOMAIN net' PROVE OnWay(f)'
      BY DEF Travelling
    <2>1. CASE f \in DOMAIN net
      <3>1. OnWay(f)
        BY <2>1 DEF IInv, Travelling
      <3> QED  BY <1>6, <3>1 DEF OnWay, Asked
    <2>2. CASE f = e
      <3>1. home[x] \in Clocks
        BY DEF IInv, Typed
      <3>2. f.to = <<home[x], 0>> /\ f.to \in Sockets /\ f.m = m
        BY <2>2, <3>1 DEF Sockets, Uds
      <3>3. \E k \in DOMAIN sent' : Same(m, sent'[k])
        BY <1>6 DEF Same
      <3>4. m.hops <= m.start
        BY <1>4, <1>5, ManagementAssumption DEF Messages
      <3>5. f.m.act \in Asks => \E k \in DOMAIN sent' : Same(f.m, sent'[k])
        BY <3>2, <3>3
      <3>6. f.to[2] = 0 => home[f.m.src] = f.to[1]
        BY <1>5, <3>2
      <3>7. /\ f.to \in Ports \cup Sockets
            /\ f.m \in Messages /\ f.m.hops <= f.m.start /\ f.m.tlvs = 1
        BY <1>4, <1>5, <3>2, <3>4
      <3> QED  BY <1>6, <3>5, <3>6, <3>7 DEF OnWay, Asked
    <2> HIDE DEF e
    <2>3. DOMAIN net' = DOMAIN net \cup {e}
      BY <1>1, AddDomain
    <2> QED  BY <2>1, <2>2, <2>3
  <1> QED  BY <1>7, <1>8, <1>9 DEF IInv

\* A message that the network loses is one less on the way.
LEMMA LoseStep ==
  ASSUME IInv, NEW e \in DOMAIN net, Lose(e)
  PROVE  IInv'
  <1>1. /\ net' = BagRemove(net, e)
        /\ UNCHANGED <<home, fwd, ds, thresh, decided, subs, sent>>
    BY DEF Lose
  <1>2. DOMAIN net' \subseteq DOMAIN net
    BY <1>1, RemoveDomain
  <1>3. Travelling'
    BY <1>1, <1>2 DEF IInv, Travelling, OnWay, Asked
  <1>4. Typed' /\ Asserted'
    BY <1>1 DEF IInv, Typed, Asserted, Local
  <1> QED  BY <1>3, <1>4 DEF IInv

\* What a clock sends on for a message is on its way with a hop less, and what it
\* answers asks for nothing.
LEMMA SentOn ==
  ASSUME IInv, NEW e \in DOMAIN net, NEW q, NEW b, NEW f \in ToNetwork(q, b),
         \/ q \in Outs(e.to, e.m) /\ b = Forwarded(e.m)
         \/ b \in Answers(e.to, AfterForward(e.to, e.m))
  PROVE  OnWay(f)
  <1> DEFINE p == e.to
             m == AfterForward(p, e.m)
  <1>1. OnWay(e)
    BY DEF IInv, Travelling
  <1>2. p \in Ports \cup Sockets /\ e.m \in Messages /\ e.m.hops <= e.m.start /\ e.m.tlvs = 1
    BY <1>1 DEF OnWay
  <1>3. m \in Messages /\ m.hops <= m.start /\ Same(m, e.m)
    BY <1>2, AfterForwardType
  <1>4. f.to \in Ports /\ f.m = b
    <2>1. PICK r \in Ports : f = [to |-> r, addr |-> NULL, m |-> b]
      BY Zenon DEF ToNetwork, Peer
    <2> QED  BY <2>1
  <1>5. f.to[2] # 0
    BY <1>4, ManagementAssumption DEF Ports
  <1>6. CASE q \in Outs(p, e.m) /\ b = Forwarded(e.m)
    <2>1. e.m.hops > 0
      BY <1>6 DEF Outs, Travels
    <2>2. b \in Messages /\ b.hops < b.start /\ b.tlvs = 1 /\ Same(b, e.m)
      BY <1>2, <1>6, <2>1, ForwardedType
    <2>3. b.hops <= b.start
      BY <2>2, ManagementAssumption DEF Messages
    <2>4. b.act \in Asks => Asked(b)
      BY <1>1, <2>2 DEF OnWay, Asked, Same
    <2> QED  BY <1>4, <1>5, <2>2, <2>3, <2>4 DEF OnWay
  <1>7. CASE b \in Answers(p, m)
    <2> HIDE DEF p, m
    <2>1. PICK from \in Ports \cup Sockets, res \in Results : b = Answer(m, from, res)
      BY <1>2, <1>7, AnswersForm
    <2>2. b \in Messages /\ b.hops = b.start /\ b.tlvs = 1 /\ b.act \notin Asks
      BY <1>3, <2>1, AnswerType
    <2>3. b.hops <= b.start
      BY <2>2, ManagementAssumption DEF Messages
    <2> QED  BY <1>4, <1>5, <2>2, <2>3 DEF OnWay
  <1> QED  BY <1>6, <1>7

\* The data that a request sets was asked for at this clock's own socket.
LEMMA SetLocally ==
  ASSUME IInv, NEW e \in DOMAIN net, NEW m, m.act = e.m.act, Same(m, e.m), Sets(e.to, m)
  PROVE  /\ e.to[1] \in Clocks /\ m.val \in Values /\ m.src \in Clients
         /\ \A ids : m.id \in ids => Local(e.to[1], ids, m.val)
  <1>1. OnWay(e)
    BY DEF IInv, Travelling
  <1>2. m.act = "SET" /\ e.to = Uds(e.to[1]) /\ e.m.act \in Asks
    BY DEF Sets, OnlyLocal, Asks
  <1>3. e.to[2] = 0 /\ e.to[1] \in Clocks
    BY <1>1, <1>2 DEF OnWay, Ports, Sockets, Uds
  <1>4. PICK k \in DOMAIN sent : Same(e.m, sent[k])
    BY <1>1, <1>2 DEF OnWay, Asked
  <1>5. home[e.m.src] = e.to[1]
    BY <1>1, <1>2, <1>3 DEF OnWay
  <1>6. sent[k] \in RequestMessages
    BY <1>4 DEF IInv, Typed
  <1>7. sent[k].val \in Values /\ sent[k].src \in Clients
    BY <1>6 DEF RequestMessages
  <1>8. m.val = sent[k].val /\ m.src = sent[k].src /\ m.id = sent[k].id /\ m.act = sent[k].act
    BY <1>4 DEF Same
  <1>9. home[sent[k].src] = e.to[1]
    BY <1>4, <1>5 DEF Same
  <1> QED  BY <1>2, <1>3, <1>4, <1>7, <1>8, <1>9 DEF Local

\* A port reads a message.
LEMMA ReceiveStep ==
  ASSUME IInv, NEW e \in DOMAIN net, Receive(e)
  PROVE  IInv'
  <1> DEFINE p == e.to
             c == p[1]
             m == AfterForward(p, e.m)
             answers == IF Applies(p, m) THEN Answers(p, m) ELSE {}
             sends == {<<q, Forwarded(e.m)>> : q \in Outs(p, e.m)} \cup {<<p, a>> : a \in answers}
             new == UNION {ToNetwork(s[1], s[2]) : s \in sends}
  <1>1. sent' = sent /\ fwd' = fwd /\ home' = home
    BY DEF Receive
  <1>2. CASE Dropped(p, e.m)
    <2>1. net' = BagRemove(net, e) /\ UNCHANGED <<ds, thresh, decided, subs>>
      BY <1>2 DEF Receive
    <2>2. DOMAIN net' \subseteq DOMAIN net
      BY <2>1, RemoveDomain
    <2>3. Travelling'
      BY <1>1, <2>2 DEF IInv, Travelling, OnWay, Asked
    <2>4. Typed' /\ Asserted'
      BY <1>1, <2>1 DEF IInv, Typed, Asserted, Local
    <2> QED  BY <2>3, <2>4 DEF IInv
  <1>3. CASE ~Dropped(p, e.m)
    <2>1. net' = BagRemove(net, e) (+) SetToBag(new)
      BY <1>3 DEF Receive
    <2>2. ds' = IF Sets(p, m) /\ m.id \in Settable THEN [ds EXCEPT ![c][m.id] = m.val] ELSE ds
      BY <1>3 DEF Receive
    <2>3. decided' = IF Sets(p, m) /\ m.id \in Settable THEN [decided EXCEPT ![c] = ds'[c]] ELSE decided
      BY <1>3 DEF Receive
    <2>4. subs' = IF Sets(p, m) /\ m.id = SUBSCRIBE THEN [subs EXCEPT ![c] = Subscribers(c, m)] ELSE subs
      BY <1>3 DEF Receive
    <2>5. thresh' = [q \in Ports |-> IF Sets(p, m) /\ m.id \in PortSets /\ q \in Targets(p, m)
                                     THEN m.val ELSE thresh[q]]
      BY <1>3 DEF Receive
    <2>6. ASSUME NEW f \in new PROVE OnWay(f)
      <3>1. PICK s \in sends : f \in ToNetwork(s[1], s[2])
        BY <2>6
      <3>2. \/ s[1] \in Outs(p, e.m) /\ s[2] = Forwarded(e.m)
            \/ s[2] \in Answers(p, m)
        <4> HIDE DEF p, m
        <4> QED  BY <3>1
      <3> HIDE DEF sends
      <3> QED  BY <3>1, <3>2, SentOn
    <2>7. Travelling'
      <3> DEFINE rest == BagRemove(net, e)
      <3> HIDE DEF new
      <3>1. DOMAIN net' \subseteq DOMAIN net \cup new
        <4>1. DOMAIN rest \subseteq DOMAIN net
          BY RemoveDomain
        <4>2. net' = rest (+) SetToBag(new)
          BY <2>1
        <4> HIDE DEF rest
        <4>3. DOMAIN (rest (+) SetToBag(new)) = DOMAIN rest \cup new
          BY PlusDomain
        <4> QED  BY <4>1, <4>2, <4>3
      <3>2. ASSUME NEW f \in DOMAIN net' PROVE OnWay(f)
        BY <2>6, <3>1 DEF IInv, Travelling
      <3> QED  BY <1>1, <3>2 DEF Travelling, OnWay, Asked
    <2>8. OnWay(e)
      BY DEF IInv, Travelling
    <2>9. Same(m, e.m) /\ m.act = e.m.act
      BY <2>8, AfterForwardType DEF OnWay, Same
    <2> HIDE DEF m
    <2>10. ASSUME Sets(p, m)
           PROVE  /\ c \in Clocks /\ m.val \in Values /\ m.src \in Clients
                  /\ \A ids : m.id \in ids => Local(c, ids, m.val)
      BY <2>9, <2>10, SetLocally
    <2> HIDE DEF p, c
    <2>11. /\ ds' \in [Clocks -> [Settable -> Values]] /\ decided' = ds'
           /\ \A d \in Clocks, i \in Settable : ds'[d][i] # Initial => Local(d, {i}, ds'[d][i])
      <3>1. CASE Sets(p, m) /\ m.id \in Settable
        <4>1. ds' = [ds EXCEPT ![c][m.id] = m.val] /\ decided' = [decided EXCEPT ![c] = ds'[c]]
          BY <2>2, <2>3, <3>1
        <4>2. ds \in [Clocks -> [Settable -> Values]] /\ decided = ds
          BY DEF IInv, Typed
        <4>3. c \in Clocks /\ m.val \in Values /\ Local(c, {m.id}, m.val)
          BY <2>10, <3>1
        <4>4. /\ ds' \in [Clocks -> [Settable -> Values]]
              /\ \A d \in Clocks, i \in Settable :
                   ds'[d][i] = IF d = c /\ i = m.id THEN m.val ELSE ds[d][i]
          BY <3>1, <4>1, <4>2, <4>3
        <4>5. \A d \in Clocks : d # c => ds'[d] = ds[d]
          BY <4>1, <4>2, <4>3
        <4>6. decided' = ds'
          BY <4>1, <4>2, <4>3, <4>4, <4>5
        <4>7. ASSUME NEW d \in Clocks, NEW i \in Settable, ds'[d][i] # Initial
              PROVE  Local(d, {i}, ds'[d][i])
          <5>1. CASE d = c /\ i = m.id
            BY <4>3, <4>4, <5>1
          <5>2. CASE ~(d = c /\ i = m.id)
            <6>1. ds'[d][i] = ds[d][i]
              BY <4>4, <5>2
            <6> QED  BY <4>7, <6>1 DEF IInv, Asserted
          <5> QED  BY <5>1, <5>2
        <4> QED  BY <4>4, <4>6, <4>7
      <3>2. CASE ~(Sets(p, m) /\ m.id \in Settable)
        BY <2>2, <2>3, <3>2 DEF IInv, Typed, Asserted
      <3> QED  BY <3>1, <3>2
    <2>12. subs' \in [Clocks -> SUBSET Clients]
      BY <2>4, <2>10 DEF IInv, Typed, Subscribers
    <2>13. /\ thresh' \in [Ports -> Values]
           /\ \A q \in Ports : thresh'[q] # Initial => Local(q[1], PortSets, thresh'[q])
      <3>1. ASSUME NEW q \in Ports
            PROVE  /\ thresh'[q] \in Values
                   /\ thresh'[q] # Initial => Local(q[1], PortSets, thresh'[q])
        <4>1. CASE Sets(p, m) /\ m.id \in PortSets /\ q \in Targets(p, m)
          <5>1. q[1] = c
            BY <4>1 DEF Targets, PortsOf, c
          <5>2. thresh'[q] = m.val
            BY <2>5, <4>1
          <5>3. Local(c, PortSets, m.val) /\ m.val \in Values
            BY <2>10, <4>1
          <5> QED  BY <5>1, <5>2, <5>3
        <4>2. CASE ~(Sets(p, m) /\ m.id \in PortSets /\ q \in Targets(p, m))
          <5>1. thresh'[q] = thresh[q]
            BY <2>5, <4>2
          <5> QED  BY <5>1 DEF IInv, Typed, Asserted
        <4> QED  BY <4>1, <4>2
      <3>2. thresh' = [q \in Ports |-> thresh'[q]]
        BY <2>5
      <3> QED  BY <3>1, <3>2
    <2>14. Typed'
      BY <1>1, <2>11, <2>12, <2>13 DEF IInv, Typed
    <2>15. Asserted'
      BY <1>1, <2>11, <2>13 DEF Asserted, Local
    <2> QED  BY <2>7, <2>14, <2>15 DEF IInv
  <1> QED  BY <1>2, <1>3

-----------------------------------------------------------------------------

\* Every step of the clients, the clocks and the network (clock_manage) keeps IInv.
THEOREM Invariant == Spec => []IInv
  <1>1. Init => IInv
    BY InitInv
  <1>2. IInv /\ [Next]_vars => IInv'
    <2> SUFFICES ASSUME IInv, [Next]_vars PROVE IInv'
      OBVIOUS
    <2>1. ASSUME NEW x \in Pmcs, NEW r \in PmcCommands, NEW v \in Data(r), Pmc(x, r, v) PROVE IInv'
      <3> DEFINE body == IF r.act = "SET" THEN "right" ELSE pmc_tlv_datalen(r.id, r.zero)
                 b == [act |-> r.act, id |-> r.id, tclk |-> r.tclk, tport |-> r.tport, hops |-> r.hops,
                       body |-> body]
      <3>1. body \in Bodies
        BY DEF pmc_tlv_datalen, Bodies
      <3>2. Send(x, b, v)
        BY <2>1 DEF Pmc
      <3>3. v \in Values /\ x \in Clients /\ r.hops \in 0..MaxHops
        BY ManagementAssumption DEF Data, Clients
      <3>4. /\ r.act \in Acts /\ r.id \in Ids /\ r.tclk \in {k.tclk : k \in Asking}
            /\ r.tport \in {k.tport : k \in Asking}
        BY DEF Acts, Ids, Asking
      <3> HIDE DEF body
      <3>5. /\ b.act = r.act /\ b.id = r.id /\ b.tclk = r.tclk /\ b.tport = r.tport
            /\ b.hops = r.hops /\ b.body = body
        OBVIOUS
      <3> HIDE DEF b
      <3> QED  BY <3>1, <3>2, <3>3, <3>4, <3>5, SendStep
    <2>2. ASSUME NEW x \in Others, NEW r \in Requests, NEW v \in Data(r), Send(x, r, v) PROVE IInv'
      <3>1. v \in Values /\ x \in Clients /\ r.hops \in 0..MaxHops
        BY ManagementAssumption DEF Data, Clients
      <3>2. /\ r.act \in Acts /\ r.id \in Ids /\ r.tclk \in {k.tclk : k \in Asking}
            /\ r.tport \in {k.tport : k \in Asking} /\ r.body \in Bodies
        BY DEF Acts, Ids, Asking, Bodies
      <3> QED  BY <2>2, <3>1, <3>2, SendStep
    <2>3. ASSUME NEW e \in DOMAIN net, Receive(e) PROVE IInv'
      BY <2>3, ReceiveStep
    <2>4. ASSUME NEW e \in DOMAIN net, Lose(e) PROVE IInv'
      BY <2>4, LoseStep
    <2>5. CASE UNCHANGED vars
      BY <2>5 DEF vars, IInv, Typed, Travelling, OnWay, Asked, Asserted, Local
    <2> QED  BY <2>1, <2>2, <2>3, <2>4, <2>5 DEF Next
  <1> QED  BY <1>1, <1>2, PTL DEF Spec

\* Nothing is set by a request that came over the network, for any number of clocks,
\* ports and clients, any wiring and any requests: what differs from the start was asked
\* for at the clock's own socket, and the last state decision knew of it (clock_manage,
\* clock_management_set, port_management_set).
THEOREM LocalSets == Spec => []SetsAreLocal
  <1>1. IInv => SetsAreLocal
    <2> SUFFICES ASSUME IInv PROVE SetsAreLocal
      OBVIOUS
    <2>1. ASSUME NEW e \in DOMAIN net
          PROVE  e.m.hops \in 0..MaxHops /\ e.m.hops <= e.m.start /\ e.m.tlvs = 1
      <3>1. OnWay(e)
        BY DEF IInv, Travelling
      <3> QED  BY <3>1 DEF OnWay, Messages
    <2>2. TypeOK
      BY <2>1 DEF IInv, Typed, TypeOK
    <2>3. decided = ds
      BY DEF IInv, Typed
    <2>4. ASSUME NEW c \in Clocks, NEW i \in Settable, ds[c][i] # Initial
          PROVE  \E k \in DOMAIN sent : sent[k].act = "SET" /\ sent[k].id = i /\ sent[k].val = ds[c][i]
                                        /\ home[sent[k].src] = c
      BY <2>4 DEF IInv, Asserted, Local
    <2>5. ASSUME NEW p \in Ports, thresh[p] # Initial
          PROVE  \E k \in DOMAIN sent : sent[k].act = "SET" /\ sent[k].id \in PortSets
                                        /\ sent[k].val = thresh[p] /\ home[sent[k].src] = p[1]
      BY <2>5 DEF IInv, Asserted, Local
    <2> QED  BY <2>2, <2>3, <2>4, <2>5 DEF SetsAreLocal
  <1> QED  BY <1>1, Invariant, PTL
=============================================================================
