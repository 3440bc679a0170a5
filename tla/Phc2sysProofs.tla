--------------------------- MODULE Phc2sysProofs ---------------------------
(***************************************************************************)
(* phc2sys keeps its subscription, takes the time from the right clock     *)
(* once it has read everything, and never steers the system clock with     *)
(* what an old servo knew: for any number of ports, any configurations and *)
(* any number of changes and missed deadlines.                             *)
(***************************************************************************)
EXTENDS Phc2sys, SequenceTheorems, FiniteSetTheorems, WellFoundedInduction, TLAPS

-----------------------------------------------------------------------------
(* Types.                                                                  *)

PortMap == [PortNums -> Norm \cup {NULL}]

NodeRecord ==
  [port : PortMap, clock : PortMap, new : PortMap, changed : BOOLEAN,
   master : PortNums \cup {RT, NULL}, rt : {"SLAVE", "MASTER", NULL},
   rtServo : {"fresh", "running", "outdated"}, age : Nat]

States == PortStates \cup {conf.start[n] : n \in PortNums}

Requests == {DEFAULT, SUB, TIME} \cup {Properties(n, NULL) : n \in PortNums}

Answers ==
  {DEFAULT, SUB, TIME} \cup {Properties(n, s) : n \in PortNums, s \in States}
  \cup {DataSet(n, s) : n \in PortNums, s \in States}

Early == {"init_identity", "init_number", "init_subscribe", "exit"}
Idle == {"sync", "sleep", "subscribe", "offset", "events", "force"}

Typed ==
  /\ conf \in Configs /\ real \in [PortNums -> States] /\ node \in NodeRecord
  /\ toNode \in Seq(Answers) /\ toPtp \in Seq(Requests)
  /\ asked \in BOOLEAN /\ woke \in BOOLEAN
  /\ sub \in 0..PMC_SUBSCRIBE_DURATION /\ at \in 0..NPorts
  /\ pc \in Early \cup {"init_port", "init_offset"} \cup Running

\* In the loops of w, a is a port or a clock.
InLoop(w, a) ==
  /\ w \in {"init_port", "reinit"} => a \in PortNums
  /\ w = "reconfigure" => a \in Clocks

-----------------------------------------------------------------------------
(* The subscription.                                                       *)

HasSub(q) == \E i \in 1..Len(q) : q[i] = SUB

\* The answers to a subscription that are not read yet tell how young it is: one
\* that was there before time passed is read before time passes again.  A loop
\* that is past its subscription has asked for it, or it was young enough.
Subscribed ==
  /\ pc \in Running => sub >= 1
  /\ HasSub(toNode) => sub >= 2
  /\ HasSub(toNode) /\ woke /\ pc \notin Hasty => sub = 3
  /\ pc \in {"init_port", "init_offset"} => sub = 3
  /\ pc \in Running /\ woke /\ (pc = "subscribe" => asked) => sub >= 2 \/ HasSub(toPtp)
  /\ ~woke => pc = "sleep" /\ toPtp = <<>> /\ node.age >= 1
  /\ asked => pc \in Calls

-----------------------------------------------------------------------------
(* What phc2sys knows of the ports.                                        *)

News(m, n) == m.kind = "PORT_DATA_SET" /\ m.port = n
Told(m, n) == m.kind = "PORT_PROPERTIES" /\ m.port = n

\* In a queue q from ptp4l, an answer says what was said before it, and the last
\* word is how things are (r); whoever knows the state of a port (p) knows it
\* as the next answer will tell it, or as it is when there is no news of it.
InOrder(q) ==
  \A n \in PortNums, i, j \in 1..Len(q) :
    /\ i < j /\ (News(q[i], n) \/ Told(q[i], n)) /\ Told(q[j], n)
    /\ \A k \in 1..Len(q) : i < k /\ k < j => ~News(q[k], n)
    => q[j].state = q[i].state

LastWord(q, r) ==
  \A n \in PortNums, i \in 1..Len(q) :
    /\ News(q[i], n) \/ Told(q[i], n)
    /\ \A k \in 1..Len(q) : i < k => ~News(q[k], n)
    => q[i].state = r[n]

NextAnswer(q, p) ==
  \A n \in PortNums, j \in 1..Len(q) :
    /\ p[n] # NULL /\ Told(q[j], n)
    /\ \A k \in 1..Len(q) : k < j => ~News(q[k], n)
    => p[n] = normalize_state(q[j].state)

NoNews(q, p, r) ==
  \A n \in PortNums :
    p[n] # NULL /\ (\A k \in 1..Len(q) : ~News(q[k], n)) => p[n] = normalize_state(r[n])

Informed(q, p, r) == InOrder(q) /\ LastWord(q, r) /\ NextAnswer(q, p) /\ NoNews(q, p, r)

\* Before it subscribes phc2sys hears and knows nothing of the ports; then it
\* learns of them one by one.
Acquainted ==
  /\ sub = 0 => /\ pc \in Early
                /\ \A n \in PortNums : node.port[n] = NULL
                /\ \A i \in 1..Len(toNode), n \in PortNums : ~News(toNode[i], n) /\ ~Told(toNode[i], n)
                /\ \A i \in 1..Len(toPtp) : toPtp[i].kind # "PORT_PROPERTIES"
  /\ pc = "init_port" => \A n \in PortNums : n < at => node.port[n] # NULL
  /\ pc \in {"init_offset"} \cup Running => \A n \in PortNums : node.port[n] # NULL

-----------------------------------------------------------------------------
(* What phc2sys makes of it.                                               *)

Computed(nd, c) == clock_compute_state(nd, c)

\* A clock has the state its ports give it, or is about to get it.
Pending(nd) ==
  \A c \in Clocks : IF nd.new[c] # NULL THEN nd.new[c] = Computed(nd, c)
                    ELSE nd.clock[c] = Computed(nd, c)

\* The clock that reconfigure is at.
AtClock(w, a) == IF w = "reinit" THEN conf.clock[a] ELSE a

\* What decides: the sources, and those that are not ready.
ByDefault(S, U) ==
  Cardinality(Clocks) - Cardinality(S \cup U) > 1 /\ S = {} /\ rt # "source"
Undecided(S, U) ==
  \/ Cardinality(S \cup U) > 1 \/ U # {} \/ (Cardinality(S \cup U) = 0 /\ rt # "source")
  \/ (Cardinality(Clocks) - Cardinality(S \cup U) = 0 /\ rt = "none")
ByRt(S, U) == Cardinality(S \cup U) = 0 /\ rt = "source"

MasterOf(S, U) ==
  IF ByDefault(S, U) THEN 1
  ELSE IF Undecided(S, U) THEN NULL
  ELSE IF ByRt(S, U) THEN RT
  ELSE Source(S)

\* Unless something changed since, the decision was made about the states that the
\* ports give the clocks; the one that is a source by default is treated as one.
Followers(nd) == {c \in Clocks : Computed(nd, c) = "SLAVE"}
Waiting(nd) == {c \in Clocks : Computed(nd, c) = "UNCALIBRATED"}

Decided(nd) ==
  /\ nd.master = MasterOf(Followers(nd), Waiting(nd))
  /\ \A c \in Clocks : nd.clock[c] \in {Computed(nd, c), "SLAVE"}

Reckoned(w, a, nd) ==
  /\ w \in {"init_offset"} \cup Running => Pending(nd)
  /\ w = "init_offset" => nd.changed
  /\ w = "reinit" => nd.new[AtClock(w, a)] # NULL
  /\ w \in {"reconfigure", "reinit"} /\ ~nd.changed =>
       \A c \in Clocks : c > AtClock(w, a) => nd.new[c] = NULL
  /\ w \in Idle /\ ~nd.changed => Decided(nd)

\* Only a system clock that is a source has a servo that is out of date.
ServoKept(nd) == nd.rtServo = "outdated" => nd.rt = "SLAVE"

IInv ==
  /\ Typed /\ InLoop(pc, at) /\ Subscribed
  /\ Informed(toNode, node.port, real) /\ Acquainted
  /\ Reckoned(pc, at, node) /\ ServoKept(node)

-----------------------------------------------------------------------------
(* The clocks of a configuration.                                          *)

\* The configuration: every port has a clock, which is the first of its ports.
LEMMA ConfFacts ==
  ASSUME conf \in Configs
  PROVE  /\ NPorts \in Nat /\ 1 \in PortNums /\ rt \in {"none", "dest", "source"}
         /\ conf.clock \in [PortNums -> PortNums]
         /\ Clocks \subseteq PortNums /\ 1 \in Clocks
         /\ \A n \in PortNums : conf.clock[n] \in Clocks /\ n \in PortsOf(conf.clock[n])
         /\ \A c \in Clocks : conf.clock[c] = c /\ c \in PortsOf(c)
         /\ \A c : PortsOf(c) \subseteq PortNums
         /\ 0 \notin PortNums /\ PortNums \subseteq 1..NPorts
  <1>1. NPorts \in Nat /\ NPorts >= 1
    BY Phc2sysAssumption
  <1>2. /\ conf.clock \in [PortNums -> PortNums] /\ rt \in {"none", "dest", "source"}
        /\ \A n \in PortNums : conf.clock[n] <= n /\ conf.clock[conf.clock[n]] = conf.clock[n]
    BY Phc2sysAssumption DEF rt
  <1>3. 1 \in PortNums /\ 0 \notin PortNums /\ PortNums \subseteq 1..NPorts
    BY <1>1 DEF PortNums
  <1>4. conf.clock[1] = 1
    BY <1>1, <1>2, <1>3 DEF PortNums
  <1>5. Clocks \subseteq PortNums /\ 1 \in Clocks
    BY <1>2, <1>3, <1>4 DEF Clocks
  <1>6. \A c : PortsOf(c) \subseteq PortNums
    BY DEF PortsOf
  <1>7. \A c \in Clocks : conf.clock[c] = c /\ c \in PortsOf(c)
    BY <1>2, <1>5 DEF Clocks, PortsOf
  <1>8. \A n \in PortNums : conf.clock[n] \in Clocks /\ n \in PortsOf(conf.clock[n])
    BY DEF Clocks, PortsOf
  <1> QED  BY <1>1, <1>2, <1>3, <1>5, <1>6, <1>7, <1>8

\* A set of port numbers that is not empty has a greatest one.
LEMMA Greatest ==
  ASSUME NPorts \in Nat, NEW T \in SUBSET PortNums, T # {}
  PROVE  \E m \in T : \A k \in T : k <= m
  <1> DEFINE U == {NPorts - m : m \in T}
  <1>1. U \subseteq Nat /\ U # {}
    <2>1. \A m \in T : m \in Nat /\ m <= NPorts
      BY DEF PortNums
    <2>2. \A m \in T : NPorts - m \in Nat
      BY <2>1
    <2> QED  BY <2>2
  <1>2. PICK x \in U : \A y \in U : ~(<<y, x>> \in OpToRel(<, Nat))
    <2> HIDE DEF U
    <2> QED  BY <1>1, NatLessThanWellFounded, WFMin
  <1>3. \A y \in U : ~(y < x)
    BY <1>1, <1>2 DEF OpToRel
  <1>4. PICK m \in T : x = NPorts - m
    BY <1>2
  <1>5. \A k \in T : k <= m
    <2> SUFFICES ASSUME NEW k \in T PROVE k <= m
      OBVIOUS
    <2>1. ~(NPorts - k < NPorts - m)
      BY <1>3, <1>4
    <2> QED  BY <2>1 DEF PortNums
  <1> QED  BY <1>5

\* Before(S, n) is the next smaller number of S, or 0 when there is none.
LEMMA BeforeFacts ==
  ASSUME conf \in Configs, NEW S \in SUBSET PortNums, NEW n
  PROVE  \/ Before(S, n) = 0 /\ \A m \in S : ~(m < n)
         \/ /\ Before(S, n) \in S /\ Before(S, n) < n /\ Before(S, n) # 0
            /\ \A m \in S : m < n => m <= Before(S, n)
  <1> DEFINE T == {m \in S : m < n}
  <1>1. CASE T = {}
    BY <1>1 DEF Before
  <1>2. CASE T # {}
    <2>1. \E m \in T : \A k \in T : k <= m
      BY <1>2, ConfFacts, Greatest
    <2>2. Before(S, n) = CHOOSE m \in T : \A k \in T : k <= m
      BY <1>2 DEF Before
    <2>3. Before(S, n) \in T /\ \A k \in T : k <= Before(S, n)
      BY <2>1, <2>2
    <2> QED  BY <2>3, ConfFacts
  <1> QED  BY <1>1, <1>2

-----------------------------------------------------------------------------
(* The state a clock gets from its ports.                                  *)

\* The order of precedence.
Below(x, s) == \E i, j \in 1..5 : i <= j /\ Precedence[i] = x /\ Precedence[j] = s

\* The order of the states of a clock's ports (clock_compute_state).
LEMMA BelowFacts ==
  /\ \A x \in Norm : Below(x, "SLAVE")
  /\ \A x \in Norm \ {"SLAVE"} : Below(x, "UNCALIBRATED")
  /\ \A x \in Norm \ {"SLAVE", "UNCALIBRATED"} : Below(x, "MASTER")
  /\ \A x \in {"PRE_MASTER", "DISABLED"} : Below(x, "PRE_MASTER")
  /\ Below("DISABLED", "DISABLED")
  /\ \A x \in {"MASTER", "PRE_MASTER", "DISABLED"} : ~Below("UNCALIBRATED", x) /\ ~Below("SLAVE", x)
  /\ \A x, y : Below(x, y) /\ Below(y, x) => x = y
  <1>1. /\ Precedence[1] = "DISABLED" /\ Precedence[2] = "PRE_MASTER" /\ Precedence[3] = "MASTER"
        /\ Precedence[4] = "UNCALIBRATED" /\ Precedence[5] = "SLAVE"
    BY DEF Precedence
  <1>2. 1..5 = {1, 2, 3, 4, 5}
    OBVIOUS
  <1>3. \A i, j \in 1..5 : Precedence[i] = Precedence[j] => i = j
    BY <1>1, <1>2
  <1>4. \A x, y : Below(x, y) /\ Below(y, x) => x = y
    BY <1>3 DEF Below
  <1>5. \A x \in {"MASTER", "PRE_MASTER", "DISABLED"} : ~Below("UNCALIBRATED", x) /\ ~Below("SLAVE", x)
    BY <1>1, <1>2 DEF Below
  <1>6. /\ \A x \in Norm : Below(x, "SLAVE")
        /\ \A x \in Norm \ {"SLAVE"} : Below(x, "UNCALIBRATED")
    BY <1>1, <1>2 DEF Below, Norm
  <1>7. /\ \A x \in Norm \ {"SLAVE", "UNCALIBRATED"} : Below(x, "MASTER")
        /\ \A x \in {"PRE_MASTER", "DISABLED"} : Below(x, "PRE_MASTER")
        /\ Below("DISABLED", "DISABLED")
    BY <1>1, <1>2 DEF Below, Norm
  <1> QED  BY <1>4, <1>5, <1>6, <1>7

\* clock_compute_state is the greatest state of the clock's ports that are known.
LEMMA ComputedFacts ==
  ASSUME NEW nd, nd.port \in PortMap, NEW c, NEW n0 \in PortsOf(c), nd.port[n0] # NULL
  PROVE  /\ Computed(nd, c) \in Norm
         /\ \E n \in PortsOf(c) : Computed(nd, c) = nd.port[n]
         /\ \A n \in PortsOf(c) : nd.port[n] # NULL => Below(nd.port[n], Computed(nd, c))
  <1> DEFINE V == {nd.port[n] : n \in PortsOf(c)} \ {NULL}
             P(s) == \A n \in PortsOf(c) : nd.port[n] # NULL => Below(nd.port[n], s)
  <1>1. V \subseteq Norm /\ V # {}
    BY DEF PortsOf, PortMap
  <1>2. \E s \in V : \A x \in V : Below(x, s)
    <2> HIDE DEF V
    <2>1. CASE "SLAVE" \in V
      BY <1>1, <2>1, BelowFacts
    <2>2. CASE "SLAVE" \notin V /\ "UNCALIBRATED" \in V
      BY <1>1, <2>2, BelowFacts
    <2>3. CASE "SLAVE" \notin V /\ "UNCALIBRATED" \notin V /\ "MASTER" \in V
      BY <1>1, <2>3, BelowFacts
    <2>4. CASE V \subseteq {"PRE_MASTER", "DISABLED"} /\ "PRE_MASTER" \in V
      BY <1>1, <2>4, BelowFacts
    <2>5. CASE V \subseteq {"DISABLED"}
      <3>1. V = {"DISABLED"}
        BY <1>1, <2>5
      <3> QED  BY <3>1, BelowFacts
    <2> QED  BY <1>1, <2>1, <2>2, <2>3, <2>4, <2>5 DEF Norm
  <1>3. \E s \in V : P(s)
    BY <1>2
  <1>4. Computed(nd, c) = CHOOSE s \in V : P(s)
    BY DEF Computed, clock_compute_state, Below
  <1>5. Computed(nd, c) \in V /\ P(Computed(nd, c))
    <2> HIDE DEF V, P
    <2> QED  BY <1>3, <1>4
  <1> QED  BY <1>1, <1>5

\* It depends on the states of these ports only.
LEMMA ComputedSame ==
  ASSUME NEW a, NEW b, a.port \in PortMap, b.port \in PortMap, NEW c,
         NEW n0 \in PortsOf(c), a.port[n0] # NULL,
         \A n \in PortsOf(c) : a.port[n] = b.port[n]
  PROVE  Computed(a, c) = Computed(b, c)
  <1>1. /\ Computed(a, c) \in Norm
        /\ \E n \in PortsOf(c) : Computed(a, c) = a.port[n]
        /\ \A n \in PortsOf(c) : a.port[n] # NULL => Below(a.port[n], Computed(a, c))
    BY ComputedFacts
  <1>2. /\ Computed(b, c) \in Norm
        /\ \E n \in PortsOf(c) : Computed(b, c) = b.port[n]
        /\ \A n \in PortsOf(c) : b.port[n] # NULL => Below(b.port[n], Computed(b, c))
    BY ComputedFacts
  <1>3. NULL \notin Norm
    BY Phc2sysAssumption
  <1>4. Below(Computed(a, c), Computed(b, c)) /\ Below(Computed(b, c), Computed(a, c))
    BY <1>1, <1>2, <1>3
  <1> QED  BY <1>4, BelowFacts

-----------------------------------------------------------------------------
(* The operators on struct node.                                           *)

\* normalize_state leaves no state that phc2sys does not know.
LEMMA NormalFacts ==
  ASSUME NEW s
  PROVE  normalize_state(s) \in Norm /\ normalize_state(s) # NULL
  BY Phc2sysAssumption DEF normalize_state, Norm

\* Nothing but what phc2sys was told of ports changes from a to b.
SamePlan(a, b) ==
  /\ b.clock = a.clock /\ b.master = a.master /\ b.rt = a.rt /\ b.rtServo = a.rtServo
  /\ b.age = a.age

\* A port, and a clock, with a new state.
WithPort(nd, n, s) == [nd EXCEPT !.port[n] = s]
WithNew(nd, c, s) == [nd EXCEPT !.new[c] = s, !.changed = TRUE]

\* A new state of a port.
LEMMA PortFacts ==
  ASSUME NEW nd \in NodeRecord, NEW n, NEW s \in Norm
  PROVE  LET b == WithPort(nd, n, s)
         IN /\ b \in NodeRecord /\ SamePlan(nd, b) /\ b.new = nd.new /\ b.changed = nd.changed
            /\ \A k \in PortNums : b.port[k] = IF k = n THEN s ELSE nd.port[k]
  <1> DEFINE p == [nd.port EXCEPT ![n] = s]
  <1>1. nd.port \in PortMap
    BY DEF NodeRecord
  <1>2. p \in PortMap /\ \A k \in PortNums : p[k] = IF k = n THEN s ELSE nd.port[k]
    BY <1>1 DEF PortMap
  <1>3. WithPort(nd, n, s) = [nd EXCEPT !.port = p]
    BY DEF NodeRecord, WithPort
  <1> HIDE DEF p
  <1>4. LET b == [nd EXCEPT !.port = p]
        IN /\ b \in NodeRecord /\ SamePlan(nd, b) /\ b.new = nd.new /\ b.changed = nd.changed
           /\ b.port = p
    BY <1>2 DEF NodeRecord, SamePlan
  <1> QED  BY <1>2, <1>3, <1>4

\* A new state for a clock, which it is to get.
LEMMA NewFacts ==
  ASSUME NEW nd \in NodeRecord, NEW c, NEW s \in Norm \cup {NULL}
  PROVE  LET b == WithNew(nd, c, s)
         IN /\ b \in NodeRecord /\ SamePlan(nd, b) /\ b.changed /\ b.port = nd.port
            /\ \A k \in PortNums : b.new[k] = IF k = c THEN s ELSE nd.new[k]
  <1> DEFINE p == [nd.new EXCEPT ![c] = s]
  <1>1. nd.new \in PortMap
    BY DEF NodeRecord
  <1>2. p \in PortMap /\ \A k \in PortNums : p[k] = IF k = c THEN s ELSE nd.new[k]
    BY <1>1 DEF PortMap
  <1>3. WithNew(nd, c, s) = [nd EXCEPT !.new = p, !.changed = TRUE]
    BY DEF NodeRecord, WithNew
  <1> HIDE DEF p
  <1>4. LET b == [nd EXCEPT !.new = p, !.changed = TRUE]
        IN /\ b \in NodeRecord /\ SamePlan(nd, b) /\ b.changed /\ b.port = nd.port
           /\ b.new = p
    BY <1>2 DEF NodeRecord, SamePlan
  <1> QED  BY <1>2, <1>3, <1>4

\* recv_subscribed: a message is without effect, or it is news of a port, and the
\* state of its clock is computed anew.
LEMMA RecvFacts ==
  ASSUME conf \in Configs, NEW nd \in NodeRecord, NEW m,
         m.kind = "PORT_DATA_SET" => m.port \in PortNums
  PROVE  LET b == recv_subscribed(nd, m)
             s == normalize_state(m.state)
             c == conf.clock[m.port]
         IN /\ b \in NodeRecord /\ SamePlan(nd, b)
            /\ \/ b = nd /\ (m.kind = "PORT_DATA_SET" => nd.port[m.port] \in {NULL, s})
               \/ /\ m.kind = "PORT_DATA_SET" /\ nd.port[m.port] # NULL
                  /\ \A k \in PortNums : b.port[k] = IF k = m.port THEN s ELSE nd.port[k]
                  /\ \/ /\ nd.clock[c] = Computed(b, c) /\ nd.new[c] = NULL
                        /\ b.new = nd.new /\ b.changed = nd.changed
                     \/ /\ \A k \in PortNums : b.new[k] = IF k = c THEN Computed(b, c) ELSE nd.new[k]
                        /\ b.changed
  <1> DEFINE s == normalize_state(m.state)
             c == conf.clock[m.port]
             told == WithPort(nd, m.port, s)
             new == Computed(told, c)
             next == WithNew(told, c, new)
  <1>0. SamePlan(nd, nd)
    BY DEF SamePlan
  <1>1. CASE m.kind # "PORT_DATA_SET" \/ nd.port[m.port] \in {NULL, s}
    <2>1. recv_subscribed(nd, m) = nd
      BY <1>1 DEF recv_subscribed, WithPort
    <2> QED  BY <1>0, <1>1, <2>1
  <1>2. CASE m.kind = "PORT_DATA_SET" /\ nd.port[m.port] \notin {NULL, s}
    <2>1. recv_subscribed(nd, m) = IF nd.clock[c] # new \/ nd.new[c] # NULL THEN next ELSE told
      BY <1>2 DEF recv_subscribed, Computed, WithPort, WithNew
    <2>2. s \in Norm /\ s # NULL /\ m.port \in PortNums /\ m.port \in PortsOf(c)
      BY <1>2, NormalFacts, ConfFacts
    <2> HIDE DEF s, c
    <2>3. /\ told \in NodeRecord /\ SamePlan(nd, told) /\ told.new = nd.new
          /\ told.changed = nd.changed
          /\ \A k \in PortNums : told.port[k] = IF k = m.port THEN s ELSE nd.port[k]
      BY <2>2, PortFacts
    <2> HIDE DEF told
    <2>4. nd.port \in PortMap /\ told.port \in PortMap
      BY <2>3 DEF NodeRecord
    <2>5. told.port[m.port] # NULL
      BY <2>2, <2>3
    <2>6. new \in Norm
      BY <2>2, <2>4, <2>5, ComputedFacts
    <2> HIDE DEF new
    <2>7. /\ next \in NodeRecord /\ SamePlan(told, next) /\ next.changed
          /\ next.port = told.port
          /\ \A k \in PortNums : next.new[k] = IF k = c THEN new ELSE told.new[k]
      <3>1. told \in NodeRecord /\ new \in Norm \cup {NULL}
        BY <2>3, <2>6
      <3> QED  BY <3>1, NewFacts
    <2> HIDE DEF next
    <2>8. next.port \in PortMap
      BY <2>7 DEF NodeRecord
    <2>9. Computed(next, c) = new
      BY <2>2, <2>4, <2>5, <2>7, <2>8, ComputedSame DEF new
    <2>10. SamePlan(nd, next)
      BY <2>3, <2>7 DEF SamePlan
    <2>11. CASE nd.clock[c] # new \/ nd.new[c] # NULL
      <3>1. recv_subscribed(nd, m) = next
        BY <2>1, <2>11
      <3> QED  BY <1>2, <2>3, <2>7, <2>9, <2>10, <3>1 DEF s, c
    <2>12. CASE ~(nd.clock[c] # new \/ nd.new[c] # NULL)
      <3>1. recv_subscribed(nd, m) = told
        BY <2>1, <2>12
      <3> QED  BY <1>2, <2>3, <2>12, <3>1 DEF s, c, new
    <2> QED  BY <2>11, <2>12
  <1> QED  BY <1>1, <1>2

-----------------------------------------------------------------------------
(* The decision.                                                           *)

\* The decision of reconfigure, by its sources and the clocks that are not ready.
LEMMA DecideCases ==
  ASSUME conf \in Configs, NEW nd
  PROVE  LET S == Sources(nd)
             U == Unready(nd)
         IN Decide(nd) = IF ByDefault(S, U) THEN DefaultSource(nd)
                         ELSE IF Undecided(S, U) THEN [nd EXCEPT !.master = NULL]
                         ELSE IF ByRt(S, U) THEN [nd EXCEPT !.master = RT, !.rt = "SLAVE"]
                         ELSE [SteerRt(nd) EXCEPT !.master = Source(S)]
  <1> DEFINE S == Sources(nd)
             U == Unready(nd)
  <1>1. CASE ByDefault(S, U)
    BY <1>1 DEF Decide, ByDefault
  <1>2. CASE ~ByDefault(S, U) /\ Undecided(S, U)
    <2>1. IsFiniteSet(S \cup U)
      <3>0. NPorts \in Int /\ 1 \in Int /\ Clocks \subseteq 1..NPorts
        BY ConfFacts
      <3>1. IsFiniteSet(1..NPorts)
        BY <3>0, FS_Interval
      <3>2. S \cup U \in SUBSET (1..NPorts)
        BY <3>0 DEF Sources, Unready
      <3> QED  BY <3>1, <3>2, FS_Subset
    <2>2. U # {} => Cardinality(S \cup U) # 0
      BY <2>1, FS_EmptySet
    <2> QED  BY <1>2, <2>2 DEF Decide, ByDefault, Undecided
  <1>3. CASE ~ByDefault(S, U) /\ ~Undecided(S, U) /\ ByRt(S, U)
    BY <1>3 DEF Decide, ByDefault, Undecided, ByRt
  <1>4. CASE ~ByDefault(S, U) /\ ~Undecided(S, U) /\ ~ByRt(S, U)
    BY <1>4 DEF Decide, ByDefault, Undecided, ByRt
  <1> QED  BY <1>1, <1>2, <1>3, <1>4

\* If no other case applies there is a source.
LEMMA SourceFacts ==
  ASSUME conf \in Configs, NEW S \in SUBSET Clocks, NEW U,
         ~Undecided(S, U), ~ByRt(S, U)
  PROVE  Source(S) \in PortNums
  <1>1. CASE S = {}
    <2>1. S \cup U = {}
      BY <1>1 DEF Undecided
    <2>2. Cardinality({}) = 0
      BY FS_EmptySet
    <2> QED  BY <2>1, <2>2 DEF Undecided, ByRt
  <1>2. CASE S # {}
    BY <1>2, ConfFacts DEF Source
  <1> QED  BY <1>1, <1>2

\* What the decision does to the node.
LEMMA DecideFacts ==
  ASSUME conf \in Configs, NEW nd \in NodeRecord
  PROVE  LET b == Decide(nd)
         IN /\ b \in NodeRecord /\ b.port = nd.port /\ b.changed = nd.changed /\ b.age = nd.age
            /\ b.master = MasterOf(Sources(nd), Unready(nd))
            /\ ServoKept(nd) => ServoKept(b)
            /\ \/ b.clock = nd.clock /\ b.new = nd.new
               \/ /\ \A n \in PortNums : b.clock[n] = IF n = 1 THEN "SLAVE" ELSE nd.clock[n]
                  /\ \A n \in PortNums : b.new[n] = IF n = 1 THEN nd.clock[1] ELSE nd.new[n]
  <1> DEFINE S == Sources(nd)
             U == Unready(nd)
             b == Decide(nd)
  <1>0. S \in SUBSET Clocks
    BY DEF Sources
  <1>1. /\ ByDefault(S, U) => b = DefaultSource(nd)
        /\ ~ByDefault(S, U) /\ Undecided(S, U) => b = [nd EXCEPT !.master = NULL]
        /\ ~ByDefault(S, U) /\ ~Undecided(S, U) /\ ByRt(S, U) =>
             b = [nd EXCEPT !.master = RT, !.rt = "SLAVE"]
        /\ ~ByDefault(S, U) /\ ~Undecided(S, U) /\ ~ByRt(S, U) =>
             b = [SteerRt(nd) EXCEPT !.master = Source(S)]
    BY DecideCases, Zenon
  <1> HIDE DEF S, U, b
  <1>2. CASE ByDefault(S, U)
    <2> DEFINE one == 1
               old == nd.clock[1]
               clock == [nd.clock EXCEPT ![1] = "SLAVE"]
               new == [nd.new EXCEPT ![1] = old]
               r == IF rt = "none" THEN nd.rt ELSE "SLAVE"
    <2>1. one \in PortNums /\ nd.clock \in PortMap /\ nd.new \in PortMap
          /\ r \in {"SLAVE", "MASTER", NULL}
      BY ConfFacts DEF NodeRecord
    <2>2. old \in Norm \cup {NULL}
      BY <2>1 DEF PortMap
    <2>3. clock \in PortMap /\ new \in PortMap
      <3> HIDE DEF old
      <3> QED  BY <2>1, <2>2 DEF PortMap, Norm
    <2>4. \A n \in PortNums : clock[n] = (IF n = 1 THEN "SLAVE" ELSE nd.clock[n])
                              /\ new[n] = IF n = 1 THEN old ELSE nd.new[n]
      BY <2>1 DEF PortMap
    <2>5. b = [nd EXCEPT !.master = one, !.new = new, !.clock = clock, !.rt = r]
      BY <1>1, <1>2 DEF DefaultSource, NodeRecord
    <2>6. MasterOf(S, U) = one
      BY <1>2 DEF MasterOf
    <2> HIDE DEF clock, new, r, one
    <2>7. /\ b \in NodeRecord /\ b.port = nd.port /\ b.changed = nd.changed /\ b.age = nd.age
          /\ b.master = one /\ b.rt = r /\ b.rtServo = nd.rtServo
          /\ b.clock = clock /\ b.new = new
      BY <2>1, <2>3, <2>5 DEF NodeRecord
    <2>8. ServoKept(nd) => ServoKept(b)
      BY <2>7 DEF ServoKept, r
    <2> QED  BY <2>4, <2>6, <2>7, <2>8 DEF S, U, b
  <1>3. CASE ~ByDefault(S, U) /\ Undecided(S, U)
    <2>1. b = [nd EXCEPT !.master = NULL] /\ MasterOf(S, U) = NULL
      BY <1>1, <1>3 DEF MasterOf
    <2>2. /\ b \in NodeRecord /\ b.port = nd.port /\ b.changed = nd.changed /\ b.age = nd.age
          /\ b.master = NULL /\ b.rt = nd.rt /\ b.rtServo = nd.rtServo
          /\ b.clock = nd.clock /\ b.new = nd.new
      BY <2>1 DEF NodeRecord
    <2> QED  BY <2>1, <2>2 DEF S, U, b, ServoKept
  <1>4. CASE ~ByDefault(S, U) /\ ~Undecided(S, U) /\ ByRt(S, U)
    <2>1. b = [nd EXCEPT !.master = RT, !.rt = "SLAVE"] /\ MasterOf(S, U) = RT
      BY <1>1, <1>4 DEF MasterOf
    <2>2. /\ b \in NodeRecord /\ b.port = nd.port /\ b.changed = nd.changed /\ b.age = nd.age
          /\ b.master = RT /\ b.rt = "SLAVE"
          /\ b.clock = nd.clock /\ b.new = nd.new
      BY <2>1 DEF NodeRecord
    <2> QED  BY <2>1, <2>2 DEF S, U, b, ServoKept
  <1>5. CASE ~ByDefault(S, U) /\ ~Undecided(S, U) /\ ~ByRt(S, U)
    <2> DEFINE a == SteerRt(nd)
               m == Source(S)
    <2>1. b = [a EXCEPT !.master = m] /\ MasterOf(S, U) = m
      BY <1>1, <1>5 DEF MasterOf
    <2>2. m \in PortNums
      BY <1>0, <1>5, SourceFacts
    <2>3. /\ a \in NodeRecord /\ a.port = nd.port /\ a.changed = nd.changed /\ a.age = nd.age
          /\ a.clock = nd.clock /\ a.new = nd.new
          /\ ServoKept(nd) => ServoKept(a)
      BY DEF NodeRecord, SteerRt, ServoKept
    <2> HIDE DEF a, m
    <2>4. /\ b \in NodeRecord /\ b.port = a.port /\ b.changed = a.changed /\ b.age = a.age
          /\ b.master = m /\ b.rt = a.rt /\ b.rtServo = a.rtServo
          /\ b.clock = a.clock /\ b.new = a.new
      BY <2>1, <2>2, <2>3 DEF NodeRecord
    <2>5. ServoKept(nd) => ServoKept(b)
      BY <2>3, <2>4 DEF ServoKept
    <2> QED  BY <2>1, <2>3, <2>4, <2>5 DEF S, U, b
  <1> QED  BY <1>2, <1>3, <1>4, <1>5

\* The decision about the clocks depends on their states only.
LEMMA DecideSame ==
  ASSUME conf \in Configs, NEW a \in NodeRecord, NEW b \in NodeRecord,
         \A c \in Clocks : a.clock[c] = b.clock[c]
  PROVE  Decide(a).master = Decide(b).master
  <1>1. Sources(a) = Sources(b) /\ Unready(a) = Unready(b)
    BY DEF Sources, Unready
  <1>2. Decide(a).master = MasterOf(Sources(a), Unready(a))
    BY DecideFacts
  <1>3. Decide(b).master = MasterOf(Sources(b), Unready(b))
    BY DecideFacts
  <1> QED  BY <1>1, <1>2, <1>3

-----------------------------------------------------------------------------
(* What ptp4l sends and phc2sys reads.                                     *)

\* Queues without the detail of sequences.
LEMMA AppendFacts ==
  ASSUME NEW T, NEW q \in Seq(T), NEW m \in T
  PROVE  /\ Append(q, m) \in Seq(T) /\ Len(Append(q, m)) = Len(q) + 1 /\ Len(q) \in Nat
         /\ \A i \in 1..Len(q) : Append(q, m)[i] = q[i]
         /\ Append(q, m)[Len(q) + 1] = m
  BY AppendProperties, LenProperties

\* What is left of a queue when its first message is read.
LEMMA TailFacts ==
  ASSUME NEW T, NEW q \in Seq(T), q # <<>>
  PROVE  /\ Tail(q) \in Seq(T) /\ Len(Tail(q)) = Len(q) - 1 /\ Len(q) \in Nat /\ Len(q) >= 1
         /\ \A i \in 1..Len(Tail(q)) : Tail(q)[i] = q[i + 1]
         /\ Head(q) = q[1] /\ Head(q) \in T
  BY HeadTailProperties, LenProperties, EmptySeq

\* Which messages tell of a port, and which is the one about the subscription.
LEMMA MessageFacts ==
  /\ \A n \in PortNums : \A s, k : (News(DataSet(n, s), k) <=> k = n) /\ ~Told(DataSet(n, s), k)
  /\ \A n \in PortNums : \A s, k : (Told(Properties(n, s), k) <=> k = n) /\ ~News(Properties(n, s), k)
  /\ \A m \in {DEFAULT, SUB, TIME} : \A k : ~Told(m, k) /\ ~News(m, k)
  /\ \A n, s : DataSet(n, s) # SUB /\ Properties(n, s) # SUB
  /\ DEFAULT # SUB /\ TIME # SUB
  /\ \A n, s : DataSet(n, s).state = s /\ Properties(n, s).state = s
  BY DEF News, Told, DataSet, Properties, DEFAULT, SUB, TIME, Msg

\* ptp4l answers with the state as it is, or with something else.
LEMMA AnswerAdded ==
  ASSUME NEW q \in Seq(Answers), NEW m \in Answers, NEW p, NEW r, Informed(q, p, r),
         \A n \in PortNums : ~News(m, n) /\ (Told(m, n) => m.state = r[n])
  PROVE  Informed(Append(q, m), p, r)
  <1> DEFINE a == Append(q, m)
             l == Len(q)
  <1>1. l \in Nat /\ Len(a) = l + 1 /\ a[l + 1] = m /\ \A i \in 1..l : a[i] = q[i]
    BY AppendFacts
  <1> HIDE DEF a
  <1>2. InOrder(a)
    <2> SUFFICES ASSUME NEW n \in PortNums, NEW i \in 1..Len(a), NEW j \in 1..Len(a),
                        i < j, News(a[i], n) \/ Told(a[i], n), Told(a[j], n),
                        \A k \in 1..Len(a) : i < k /\ k < j => ~News(a[k], n)
                 PROVE  a[j].state = a[i].state
      BY DEF InOrder
    <2>1. i \in 1..l /\ a[i] = q[i]
      BY <1>1
    <2>2. CASE j \in 1..l
      <3>1. a[j] = q[j] /\ \A k \in 1..l : i < k /\ k < j => ~News(q[k], n)
        BY <1>1, <2>2
      <3> QED  BY <2>1, <2>2, <3>1 DEF Informed, InOrder
    <2>3. CASE j = l + 1
      <3>1. a[j] = m /\ \A k \in 1..l : i < k => ~News(q[k], n)
        BY <1>1, <2>3
      <3>2. q[i].state = r[n]
        BY <2>1, <3>1 DEF Informed, LastWord
      <3> QED  BY <2>1, <3>1, <3>2
    <2> QED  BY <1>1, <2>2, <2>3
  <1>3. LastWord(a, r)
    <2> SUFFICES ASSUME NEW n \in PortNums, NEW i \in 1..Len(a),
                        News(a[i], n) \/ Told(a[i], n),
                        \A k \in 1..Len(a) : i < k => ~News(a[k], n)
                 PROVE  a[i].state = r[n]
      BY DEF LastWord
    <2>1. CASE i \in 1..l
      <3>1. a[i] = q[i] /\ \A k \in 1..l : i < k => ~News(q[k], n)
        BY <1>1, <2>1
      <3> QED  BY <2>1, <3>1 DEF Informed, LastWord
    <2>2. CASE i = l + 1
      BY <1>1, <2>2
    <2> QED  BY <1>1, <2>1, <2>2
  <1>4. NoNews(a, p, r)
    <2> SUFFICES ASSUME NEW n \in PortNums, p[n] # NULL, \A k \in 1..Len(a) : ~News(a[k], n)
                 PROVE  p[n] = normalize_state(r[n])
      BY DEF NoNews
    <2>1. \A k \in 1..l : ~News(q[k], n)
      BY <1>1
    <2> QED  BY <2>1 DEF Informed, NoNews
  <1>5. NextAnswer(a, p)
    <2> SUFFICES ASSUME NEW n \in PortNums, NEW j \in 1..Len(a), p[n] # NULL, Told(a[j], n),
                        \A k \in 1..Len(a) : k < j => ~News(a[k], n)
                 PROVE  p[n] = normalize_state(a[j].state)
      BY DEF NextAnswer
    <2>1. CASE j \in 1..l
      <3>1. a[j] = q[j] /\ \A k \in 1..l : k < j => ~News(q[k], n)
        BY <1>1, <2>1
      <3> QED  BY <2>1, <3>1 DEF Informed, NextAnswer
    <2>2. CASE j = l + 1
      <3>1. a[j] = m /\ \A k \in 1..l : ~News(q[k], n)
        BY <1>1, <2>2
      <3>2. p[n] = normalize_state(r[n])
        BY <3>1 DEF Informed, NoNews
      <3> QED  BY <3>1, <3>2
    <2> QED  BY <1>1, <2>1, <2>2
  <1> QED  BY <1>2, <1>3, <1>4, <1>5 DEF Informed, a

\* A port's state changes and ptp4l tells its subscriber.
LEMMA NewsAdded ==
  ASSUME NEW q \in Seq(Answers), NEW p, NEW r, NEW u, Informed(q, p, r),
         NEW n0 \in PortNums, NEW s, DataSet(n0, s) \in Answers, u[n0] = s,
         \A n \in PortNums : n # n0 => u[n] = r[n]
  PROVE  Informed(Append(q, DataSet(n0, s)), p, u)
  <1> DEFINE m == DataSet(n0, s)
             a == Append(q, m)
             l == Len(q)
  <1>1. l \in Nat /\ Len(a) = l + 1 /\ a[l + 1] = m /\ \A i \in 1..l : a[i] = q[i]
    BY AppendFacts
  <1>2. /\ News(m, n0) /\ m.state = s /\ \A n \in PortNums : ~Told(m, n) /\ (n # n0 => ~News(m, n))
    BY MessageFacts
  <1> HIDE DEF a, m
  <1>3. InOrder(a)
    <2> SUFFICES ASSUME NEW n \in PortNums, NEW i \in 1..Len(a), NEW j \in 1..Len(a),
                        i < j, News(a[i], n) \/ Told(a[i], n), Told(a[j], n),
                        \A k \in 1..Len(a) : i < k /\ k < j => ~News(a[k], n)
                 PROVE  a[j].state = a[i].state
      BY DEF InOrder
    <2>1. i \in 1..l /\ a[i] = q[i]
      BY <1>1
    <2>2. j \in 1..l
      BY <1>1, <1>2
    <2>3. a[j] = q[j] /\ \A k \in 1..l : i < k /\ k < j => ~News(q[k], n)
      BY <1>1, <2>2
    <2> QED  BY <2>1, <2>2, <2>3 DEF Informed, InOrder
  <1>4. LastWord(a, u)
    <2> SUFFICES ASSUME NEW n \in PortNums, NEW i \in 1..Len(a),
                        News(a[i], n) \/ Told(a[i], n),
                        \A k \in 1..Len(a) : i < k => ~News(a[k], n)
                 PROVE  a[i].state = u[n]
      BY DEF LastWord
    <2>1. CASE i \in 1..l
      <3>1. n # n0 /\ a[i] = q[i] /\ \A k \in 1..l : i < k => ~News(q[k], n)
        BY <1>1, <1>2, <2>1
      <3> QED  BY <2>1, <3>1 DEF Informed, LastWord
    <2>2. CASE i = l + 1
      BY <1>1, <1>2, <2>2
    <2> QED  BY <1>1, <2>1, <2>2
  <1>5. NoNews(a, p, u)
    <2> SUFFICES ASSUME NEW n \in PortNums, p[n] # NULL, \A k \in 1..Len(a) : ~News(a[k], n)
                 PROVE  p[n] = normalize_state(u[n])
      BY DEF NoNews
    <2>1. n # n0 /\ \A k \in 1..l : ~News(q[k], n)
      BY <1>1, <1>2
    <2> QED  BY <2>1 DEF Informed, NoNews
  <1>6. NextAnswer(a, p)
    <2> SUFFICES ASSUME NEW n \in PortNums, NEW j \in 1..Len(a), p[n] # NULL, Told(a[j], n),
                        \A k \in 1..Len(a) : k < j => ~News(a[k], n)
                 PROVE  p[n] = normalize_state(a[j].state)
      BY DEF NextAnswer
    <2>1. j \in 1..l
      BY <1>1, <1>2
    <2>2. a[j] = q[j] /\ \A k \in 1..l : k < j => ~News(q[k], n)
      BY <1>1, <2>1
    <2> QED  BY <2>1, <2>2 DEF Informed, NextAnswer
  <1> QED  BY <1>3, <1>4, <1>5, <1>6 DEF Informed, a, m

\* phc2sys reads a message: what it then knows of a port it knew, or is what the
\* message says; it misses no news of a port that it knows.
LEMMA MessageRead ==
  ASSUME NEW q \in Seq(Answers), q # <<>>, NEW p, NEW d, NEW r, Informed(q, p, r),
         \A n \in PortNums :
           \/ d[n] = NULL
           \/ d[n] = p[n] /\ ~News(Head(q), n)
           \/ (News(Head(q), n) \/ Told(Head(q), n)) /\ d[n] = normalize_state(Head(q).state)
  PROVE  Informed(Tail(q), d, r)
  <1> DEFINE t == Tail(q)
             l == Len(q)
             h == q[1]
  <1>1. l \in Nat /\ l >= 1 /\ Len(t) = l - 1 /\ Head(q) = h /\ \A i \in 1..Len(t) : t[i] = q[i + 1]
    BY TailFacts
  <1> HIDE DEF t
  <1>2. \A k \in 1..Len(t) : k + 1 \in 1..l
    BY <1>1
  <1>3. \A k \in 1..l : k = 1 \/ (k - 1 \in 1..Len(t) /\ q[k] = t[k - 1])
    <2> SUFFICES ASSUME NEW k \in 1..l, k # 1 PROVE k - 1 \in 1..Len(t) /\ q[k] = t[k - 1]
      OBVIOUS
    <2>1. k - 1 \in 1..Len(t) /\ (k - 1) + 1 = k
      BY <1>1
    <2> QED  BY <1>1, <2>1
  <1>4. InOrder(t)
    <2> SUFFICES ASSUME NEW n \in PortNums, NEW i \in 1..Len(t), NEW j \in 1..Len(t),
                        i < j, News(t[i], n) \/ Told(t[i], n), Told(t[j], n),
                        \A k \in 1..Len(t) : i < k /\ k < j => ~News(t[k], n)
                 PROVE  t[j].state = t[i].state
      BY DEF InOrder
    <2>1. t[i] = q[i + 1] /\ t[j] = q[j + 1] /\ i + 1 < j + 1 /\ i + 1 \in 1..l /\ j + 1 \in 1..l
      BY <1>1, <1>2
    <2>2. \A k \in 1..l : i + 1 < k /\ k < j + 1 => ~News(q[k], n)
      <3> SUFFICES ASSUME NEW k \in 1..l, i + 1 < k, k < j + 1 PROVE ~News(q[k], n)
        OBVIOUS
      <3>1. k # 1 /\ i < k - 1 /\ k - 1 < j
        BY <1>1
      <3> QED  BY <1>3, <3>1
    <2> QED  BY <2>1, <2>2 DEF Informed, InOrder
  <1>5. LastWord(t, r)
    <2> SUFFICES ASSUME NEW n \in PortNums, NEW i \in 1..Len(t),
                        News(t[i], n) \/ Told(t[i], n),
                        \A k \in 1..Len(t) : i < k => ~News(t[k], n)
                 PROVE  t[i].state = r[n]
      BY DEF LastWord
    <2>1. t[i] = q[i + 1] /\ i + 1 \in 1..l
      BY <1>1, <1>2
    <2>2. \A k \in 1..l : i + 1 < k => ~News(q[k], n)
      <3> SUFFICES ASSUME NEW k \in 1..l, i + 1 < k PROVE ~News(q[k], n)
        OBVIOUS
      <3>1. k # 1 /\ i < k - 1
        BY <1>1
      <3> QED  BY <1>3, <3>1
    <2> QED  BY <2>1, <2>2 DEF Informed, LastWord
  <1>6. NextAnswer(t, d)
    <2> SUFFICES ASSUME NEW n \in PortNums, NEW j \in 1..Len(t), d[n] # NULL, Told(t[j], n),
                        \A k \in 1..Len(t) : k < j => ~News(t[k], n)
                 PROVE  d[n] = normalize_state(t[j].state)
      BY DEF NextAnswer
    <2>1. t[j] = q[j + 1] /\ j + 1 \in 1..l /\ 1 < j + 1 /\ 1 \in 1..l
      BY <1>1, <1>2
    <2>2. \A k \in 1..l : 1 < k /\ k < j + 1 => ~News(q[k], n)
      <3> SUFFICES ASSUME NEW k \in 1..l, 1 < k, k < j + 1 PROVE ~News(q[k], n)
        OBVIOUS
      <3>1. k # 1 /\ k - 1 < j
        BY <1>1
      <3> QED  BY <1>3, <3>1
    <2>3. CASE d[n] = p[n] /\ ~News(h, n)
      <3>1. \A k \in 1..l : k < j + 1 => ~News(q[k], n)
        BY <2>2, <2>3
      <3> QED  BY <2>1, <2>3, <3>1 DEF Informed, NextAnswer
    <2>4. CASE (News(h, n) \/ Told(h, n)) /\ d[n] = normalize_state(h.state)
      <3>1. q[j + 1].state = q[1].state
        BY <2>1, <2>2, <2>4 DEF Informed, InOrder
      <3> QED  BY <2>1, <2>4, <3>1
    <2> QED  BY <1>1, <2>3, <2>4
  <1>7. NoNews(t, d, r)
    <2> SUFFICES ASSUME NEW n \in PortNums, d[n] # NULL, \A k \in 1..Len(t) : ~News(t[k], n)
                 PROVE  d[n] = normalize_state(r[n])
      BY DEF NoNews
    <2>1. 1 \in 1..l /\ \A k \in 1..l : 1 < k => ~News(q[k], n)
      BY <1>1, <1>3
    <2>2. CASE d[n] = p[n] /\ ~News(h, n)
      <3>1. \A k \in 1..l : ~News(q[k], n)
        BY <1>3, <2>2
      <3> QED  BY <2>2, <3>1 DEF Informed, NoNews
    <2>3. CASE (News(h, n) \/ Told(h, n)) /\ d[n] = normalize_state(h.state)
      <3>1. q[1].state = r[n]
        BY <2>1, <2>3 DEF Informed, LastWord
      <3> QED  BY <2>3, <3>1
    <2> QED  BY <1>1, <2>2, <2>3
  <1> QED  BY <1>4, <1>5, <1>6, <1>7 DEF Informed, t

\* Where the message about the subscription is when a queue grows or is read.
LEMMA SubFacts ==
  ASSUME NEW T, NEW q \in Seq(T)
  PROVE  /\ \A m \in T : HasSub(Append(q, m)) <=> HasSub(q) \/ m = SUB
         /\ q # <<>> => (HasSub(q) <=> HasSub(Tail(q)) \/ Head(q) = SUB)
         /\ ~HasSub(<<>>)
  <1>1. ASSUME NEW m \in T PROVE HasSub(Append(q, m)) <=> HasSub(q) \/ m = SUB
    <2> DEFINE a == Append(q, m)
               l == Len(q)
    <2>1. l \in Nat /\ Len(a) = l + 1 /\ a[l + 1] = m /\ \A i \in 1..l : a[i] = q[i]
      BY AppendFacts
    <2> HIDE DEF a, l
    <2>2. 1..Len(a) = (1..l) \cup {l + 1}
      BY <2>1
    <2>3. (\E i \in 1..Len(a) : a[i] = SUB) <=> (\E i \in 1..l : q[i] = SUB) \/ m = SUB
      BY <2>1, <2>2
    <2> QED  BY <2>3 DEF HasSub, a, l
  <1>2. ASSUME q # <<>> PROVE HasSub(q) <=> HasSub(Tail(q)) \/ Head(q) = SUB
    <2> DEFINE t == Tail(q)
               l == Len(q)
    <2>1. l \in Nat /\ l >= 1 /\ Len(t) = l - 1 /\ Head(q) = q[1] /\ \A i \in 1..Len(t) : t[i] = q[i + 1]
      BY <1>2, TailFacts
    <2> HIDE DEF t, l
    <2>2. ASSUME NEW i \in 1..l, q[i] = SUB PROVE (\E k \in 1..Len(t) : t[k] = SUB) \/ q[1] = SUB
      <3>1. CASE i = 1
        BY <2>2, <3>1
      <3>2. CASE i # 1
        <4>1. i - 1 \in 1..Len(t) /\ (i - 1) + 1 = i
          BY <2>1, <3>2
        <4> QED  BY <2>1, <2>2, <4>1
      <3> QED  BY <3>1, <3>2
    <2>3. ASSUME NEW k \in 1..Len(t), t[k] = SUB PROVE \E i \in 1..l : q[i] = SUB
      <3>1. k + 1 \in 1..l
        BY <2>1
      <3> QED  BY <2>1, <2>3, <3>1
    <2>4. q[1] = SUB => \E i \in 1..l : q[i] = SUB
      BY <2>1
    <2>5. (\E i \in 1..l : q[i] = SUB) <=> (\E k \in 1..Len(t) : t[k] = SUB) \/ q[1] = SUB
      BY <2>2, <2>3, <2>4
    <2> QED  BY <2>1, <2>5 DEF HasSub, t, l
  <1>3. ~HasSub(<<>>)
    BY DEF HasSub
  <1> QED  BY <1>1, <1>2, <1>3

\* Nothing is known and nothing was said.
LEMMA Silent ==
  ASSUME NEW q, NEW p, NEW r, \A n \in PortNums : p[n] = NULL,
         \A i \in 1..Len(q), n \in PortNums : ~News(q[i], n) /\ ~Told(q[i], n)
  PROVE  Informed(q, p, r)
  BY DEF Informed, InOrder, LastWord, NextAnswer, NoNews

-----------------------------------------------------------------------------
(* The invariant after a step, from its parts.                             *)

\* Definitions that depend on the configuration, which never changes.
LEMMA SameConf ==
  ASSUME conf' = conf
  PROVE  /\ Clocks' = Clocks /\ States' = States /\ Answers' = Answers
         /\ InLoop(pc', at') => InLoop(pc, at)'
         /\ Reckoned(pc', at', node') => Reckoned(pc, at, node)'
  <1>1. Clocks' = Clocks
    BY DEF Clocks
  <1>2. States' = States
    BY DEF States
  <1>3. Answers' = Answers
    BY <1>2 DEF Answers
  <1>4. InLoop(pc', at') => InLoop(pc, at)'
    BY <1>1 DEF InLoop
  <1>5. \A c : Computed(node, c)' = Computed(node', c)
    <2> SUFFICES ASSUME NEW c PROVE Computed(node, c)' = Computed(node', c)
      OBVIOUS
    <2> DEFINE P(cf) == {n \in PortNums : cf.clock[n] = c}
               f(cf, nd) == CHOOSE s \in {nd.port[n] : n \in P(cf)} \ {NULL} :
                              \A n \in P(cf) : nd.port[n] # NULL => Below(nd.port[n], s)
    <2>1. Computed(node, c)' = f(conf', node')
      BY DEF Computed, clock_compute_state, PortsOf, Below
    <2>2. Computed(node', c) = f(conf, node')
      BY DEF Computed, clock_compute_state, PortsOf, Below
    <2> HIDE DEF f
    <2> QED  BY <2>1, <2>2
  <1>6. Followers(node)' = Followers(node') /\ Waiting(node)' = Waiting(node')
    BY <1>1, <1>5 DEF Followers, Waiting
  <1>7. \A S, U : MasterOf(S, U)' = MasterOf(S, U)
    <2>1. \A S : Source(S)' = Source(S)
      BY <1>1 DEF Source
    <2>2. rt' = rt
      BY DEF rt
    <2>3. \A S, U : /\ ByDefault(S, U)' <=> ByDefault(S, U)
                    /\ Undecided(S, U)' <=> Undecided(S, U)
                    /\ ByRt(S, U)' <=> ByRt(S, U)
      BY <1>1, <2>2 DEF ByDefault, Undecided, ByRt
    <2> QED  BY <2>1, <2>3 DEF MasterOf
  <1>8. Pending(node') => Pending(node)'
    BY <1>1, <1>5 DEF Pending
  <1>9. Decided(node') => Decided(node)'
    BY <1>1, <1>5, <1>6, <1>7 DEF Decided
  <1>10. AtClock(pc, at)' = AtClock(pc', at')
    BY DEF AtClock
  <1>11. Reckoned(pc', at', node') => Reckoned(pc, at, node)'
    BY <1>1, <1>8, <1>9, <1>10 DEF Reckoned
  <1> QED  BY <1>1, <1>2, <1>3, <1>4, <1>11

\* The parts of IInv, for the state after a step.
LEMMA Parts ==
  ASSUME conf \in Configs, conf' = conf,
         real' \in [PortNums -> States], node' \in NodeRecord,
         toNode' \in Seq(Answers), toPtp' \in Seq(Requests),
         asked' \in BOOLEAN, woke' \in BOOLEAN,
         sub' \in 0..PMC_SUBSCRIBE_DURATION, at' \in 0..NPorts,
         pc' \in Early \cup {"init_port", "init_offset"} \cup Running,
         InLoop(pc', at'), Subscribed', Informed(toNode', node'.port, real'), Acquainted',
         Reckoned(pc', at', node'), ServoKept(node')
  PROVE  IInv'
  <1>1. Typed'
    BY SameConf DEF Typed
  <1>2. InLoop(pc, at)' /\ Reckoned(pc, at, node)'
    BY SameConf
  <1>3. Informed(toNode, node.port, real)' /\ ServoKept(node)'
    BY DEF Informed, InOrder, LastWord, NextAnswer, NoNews, ServoKept, News, Told
  <1> QED  BY <1>1, <1>2, <1>3 DEF IInv

\* The states of the clocks depend on those of the ports only.
LEMMA SamePorts ==
  ASSUME NEW a, NEW b, a.port = b.port
  PROVE  /\ \A c : Computed(a, c) = Computed(b, c)
         /\ Followers(a) = Followers(b) /\ Waiting(a) = Waiting(b)
  <1>1. \A c : Computed(a, c) = Computed(b, c)
    <2> SUFFICES ASSUME NEW c PROVE Computed(a, c) = Computed(b, c)
      OBVIOUS
    <2> DEFINE f(p) == CHOOSE s \in {p[n] : n \in PortsOf(c)} \ {NULL} :
                         \A n \in PortsOf(c) : p[n] # NULL => Below(p[n], s)
    <2>1. Computed(a, c) = f(a.port) /\ Computed(b, c) = f(b.port)
      BY DEF Computed, clock_compute_state, Below
    <2> HIDE DEF f
    <2> QED  BY <2>1
  <1> QED  BY <1>1 DEF Followers, Waiting

\* What was reckoned depends on these parts of the node.
LEMMA SameReckoning ==
  ASSUME NEW w, NEW e, NEW a, NEW b, Reckoned(w, e, a),
         b.port = a.port, b.clock = a.clock, b.new = a.new, b.changed = a.changed,
         b.master = a.master
  PROVE  Reckoned(w, e, b)
  <1>1. /\ \A c : Computed(a, c) = Computed(b, c)
        /\ Followers(a) = Followers(b) /\ Waiting(a) = Waiting(b)
    BY SamePorts
  <1>2. Pending(a) => Pending(b)
    BY <1>1 DEF Pending
  <1>3. Decided(a) => Decided(b)
    BY <1>1 DEF Decided
  <1> QED  BY <1>2, <1>3 DEF Reckoned

-----------------------------------------------------------------------------
(* The steps of ptp4l, and time.                                           *)

\* A port of ptp4l changes its state and its subscriber is told (port_notify_event).
LEMMA ChangeStep ==
  ASSUME IInv, NEW n \in PortNums, NEW s \in PortStates, Change(n, s)
  PROVE  IInv'
  <1> DEFINE m == DataSet(n, s)
  <1>1. /\ conf \in Configs /\ real \in [PortNums -> States] /\ node \in NodeRecord
        /\ toNode \in Seq(Answers) /\ toPtp \in Seq(Requests) /\ asked \in BOOLEAN /\ woke \in BOOLEAN
        /\ sub \in 0..PMC_SUBSCRIBE_DURATION /\ at \in 0..NPorts
        /\ pc \in Early \cup {"init_port", "init_offset"} \cup Running
    BY DEF IInv, Typed
  <1>2. /\ real' = [real EXCEPT ![n] = s]
        /\ toNode' = IF sub > 0 THEN Append(toNode, m) ELSE toNode
        /\ UNCHANGED <<conf, sub, toPtp, pc, asked, at, node, woke>>
    BY DEF Change
  <1>3. s \in States /\ m \in Answers
    BY DEF States, Answers
  <1>4. m # SUB /\ \A k \in PortNums : ~Told(m, k)
    BY MessageFacts
  <1>5. real' \in [PortNums -> States] /\ real'[n] = s /\ \A k \in PortNums : k # n => real'[k] = real[k]
    BY <1>1, <1>2, <1>3
  <1> HIDE DEF m
  <1>6. toNode' \in Seq(Answers) /\ (HasSub(toNode') <=> HasSub(toNode))
    BY <1>1, <1>2, <1>3, <1>4, AppendFacts, SubFacts
  <1>7. Subscribed'
    BY <1>2, <1>6 DEF IInv, Subscribed
  <1>8. CASE sub > 0
    <2>1. toNode' = Append(toNode, DataSet(n, s)) /\ node' = node
      BY <1>2, <1>8 DEF m
    <2>2. Informed(toNode, node.port, real) /\ DataSet(n, s) \in Answers
      BY <1>3 DEF IInv, m
    <2>3. Informed(toNode', node.port, real')
      BY <1>1, <1>5, <2>1, <2>2, NewsAdded
    <2>4. Acquainted'
      BY <1>1, <1>2, <1>8 DEF IInv, Acquainted
    <2> QED  BY <1>1, <1>2, <1>5, <1>6, <1>7, <2>3, <2>4, Parts DEF IInv
  <1>9. CASE ~(sub > 0)
    <2>1. sub = 0 /\ toNode' = toNode
      BY <1>1, <1>2, <1>9
    <2>2. Acquainted'
      BY <1>2, <2>1 DEF IInv, Acquainted
    <2>3. Informed(toNode', node'.port, real')
      BY <1>2, <2>1, Silent DEF IInv, Acquainted
    <2> QED  BY <1>1, <1>2, <1>5, <1>6, <1>7, <2>2, <2>3, Parts DEF IInv
  <1> QED  BY <1>8, <1>9

\* What ptp4l answers.
LEMMA AnswerFacts ==
  ASSUME conf \in Configs, real \in [PortNums -> States], NEW m \in Requests
  PROVE  /\ Answer(m) \in Answers /\ (Answer(m) = SUB <=> m = SUB)
         /\ \A n \in PortNums : ~News(Answer(m), n) /\ (Told(Answer(m), n) => Answer(m).state = real[n])
         /\ m.kind # "PORT_PROPERTIES" => \A n \in PortNums : ~Told(Answer(m), n)
  <1>1. CASE m \in {DEFAULT, SUB, TIME}
    <2>1. Answer(m) = m
      BY <1>1 DEF Answer, DEFAULT, SUB, TIME, Msg
    <2> QED  BY <1>1, <2>1, MessageFacts DEF Answers
  <1>2. ASSUME NEW n \in PortNums, m = Properties(n, NULL)
        PROVE  /\ Answer(m) \in Answers /\ (Answer(m) = SUB <=> m = SUB)
               /\ \A k \in PortNums : ~News(Answer(m), k) /\ (Told(Answer(m), k) => Answer(m).state = real[k])
               /\ m.kind = "PORT_PROPERTIES"
    <2>1. Answer(m) = Properties(n, real[n]) /\ m.kind = "PORT_PROPERTIES"
      BY <1>2 DEF Answer, Properties, Msg
    <2>2. Answer(m) \in Answers
      BY <2>1 DEF Answers
    <2>3. Answer(m) # SUB /\ m # SUB
      BY <1>2, <2>1, MessageFacts
    <2>4. \A k \in PortNums : ~News(Answer(m), k) /\ (Told(Answer(m), k) => Answer(m).state = real[k])
      BY <2>1, MessageFacts
    <2> QED  BY <2>1, <2>2, <2>3, <2>4
  <1> QED  BY <1>1, <1>2 DEF Requests

\* ptp4l answers a request (clock_manage).
LEMMA ServeStep ==
  ASSUME IInv, Serve
  PROVE  IInv'
  <1> DEFINE h == Head(toPtp)
             m == Answer(h)
  <1>1. /\ conf \in Configs /\ real \in [PortNums -> States] /\ node \in NodeRecord
        /\ toNode \in Seq(Answers) /\ toPtp \in Seq(Requests) /\ asked \in BOOLEAN /\ woke \in BOOLEAN
        /\ sub \in 0..PMC_SUBSCRIBE_DURATION /\ at \in 0..NPorts
        /\ pc \in Early \cup {"init_port", "init_offset"} \cup Running
    BY DEF IInv, Typed
  <1>2. /\ toPtp # <<>> /\ toPtp' = Tail(toPtp) /\ toNode' = Append(toNode, m)
        /\ sub' = IF h = SUB THEN 3 ELSE sub
        /\ UNCHANGED <<conf, real, pc, asked, at, node, woke>>
    BY DEF Serve, PMC_SUBSCRIBE_DURATION
  <1>3. /\ h \in Requests /\ toPtp' \in Seq(Requests) /\ Len(toPtp') = Len(toPtp) - 1
        /\ Len(toPtp) \in Nat /\ Len(toPtp) >= 1
        /\ h = toPtp[1] /\ \A i \in 1..Len(toPtp') : toPtp'[i] = toPtp[i + 1]
    BY <1>1, <1>2, TailFacts
  <1>4. /\ m \in Answers /\ (m = SUB <=> h = SUB)
        /\ \A n \in PortNums : ~News(m, n) /\ (Told(m, n) => m.state = real[n])
        /\ h.kind # "PORT_PROPERTIES" => \A n \in PortNums : ~Told(m, n)
    BY <1>1, <1>3, AnswerFacts
  <1> HIDE DEF m, h
  <1>5. toNode' \in Seq(Answers) /\ sub' \in 0..PMC_SUBSCRIBE_DURATION
    BY <1>1, <1>2, <1>4, AppendFacts DEF PMC_SUBSCRIBE_DURATION
  <1>6. /\ HasSub(toNode') <=> HasSub(toNode) \/ h = SUB
        /\ HasSub(toPtp) <=> HasSub(toPtp') \/ h = SUB
    BY <1>1, <1>2, <1>4, SubFacts DEF h
  <1>7. Subscribed'
    <2>1. woke
      BY <1>2 DEF IInv, Subscribed
    <2>2. CASE h = SUB
      BY <1>2, <2>1, <2>2 DEF IInv, Subscribed
    <2>3. CASE h # SUB
      BY <1>2, <1>6, <2>1, <2>3 DEF IInv, Subscribed
    <2> QED  BY <2>2, <2>3
  <1>8. Informed(toNode', node'.port, real')
    BY <1>1, <1>2, <1>4, AnswerAdded DEF IInv
  <1>9. Acquainted'
    <2>1. CASE sub' = 0
      <3>1. sub = 0
        BY <1>2, <2>1
      <3>2. /\ pc \in Early /\ \A n \in PortNums : node.port[n] = NULL
            /\ \A i \in 1..Len(toNode), n \in PortNums : ~News(toNode[i], n) /\ ~Told(toNode[i], n)
            /\ \A i \in 1..Len(toPtp) : toPtp[i].kind # "PORT_PROPERTIES"
        BY <3>1 DEF IInv, Acquainted
      <3>3. \A i \in 1..Len(toPtp') : toPtp'[i].kind # "PORT_PROPERTIES"
        <4> SUFFICES ASSUME NEW i \in 1..Len(toPtp') PROVE toPtp'[i].kind # "PORT_PROPERTIES"
          OBVIOUS
        <4>1. i + 1 \in 1..Len(toPtp)
          BY <1>3
        <4> QED  BY <1>3, <3>2, <4>1
      <3>4. \A n \in PortNums : ~Told(m, n) /\ ~News(m, n)
        <4>1. h.kind # "PORT_PROPERTIES"
          BY <1>3, <3>2
        <4> QED  BY <1>4, <4>1
      <3>5. \A i \in 1..Len(toNode'), n \in PortNums : ~News(toNode'[i], n) /\ ~Told(toNode'[i], n)
        <4>1. /\ Len(toNode') = Len(toNode) + 1 /\ toNode'[Len(toNode) + 1] = m /\ Len(toNode) \in Nat
              /\ \A i \in 1..Len(toNode) : toNode'[i] = toNode[i]
          BY <1>1, <1>2, <1>4, AppendFacts
        <4>2. \A i \in 1..Len(toNode') : i = Len(toNode) + 1 \/ i \in 1..Len(toNode)
          BY <4>1
        <4> QED  BY <3>2, <3>4, <4>1, <4>2
      <3> QED  BY <1>2, <3>2, <3>3, <3>5 DEF IInv, Acquainted, Early, Running
    <2>2. CASE sub' # 0
      BY <1>2, <2>2 DEF IInv, Acquainted
    <2> QED  BY <2>1, <2>2
  <1> QED  BY <1>1, <1>2, <1>3, <1>5, <1>7, <1>8, <1>9, Parts DEF IInv

\* A second passes; the subscription grows older (clock_prune_subscriptions).
LEMMA TickStep ==
  ASSUME IInv, Tick
  PROVE  IInv'
  <1> DEFINE age == node.age + 1
  <1>1. /\ conf \in Configs /\ real \in [PortNums -> States] /\ node \in NodeRecord
        /\ toNode \in Seq(Answers) /\ toPtp \in Seq(Requests) /\ asked \in BOOLEAN /\ woke \in BOOLEAN
        /\ sub \in 0..PMC_SUBSCRIBE_DURATION /\ at \in 0..NPorts
        /\ pc \in Early \cup {"init_port", "init_offset"} \cup Running
    BY DEF IInv, Typed
  <1>2. /\ pc = "sleep" /\ woke /\ toPtp = <<>> /\ sub' = Prune(sub)
        /\ node' = [node EXCEPT !.age = age] /\ woke' = FALSE
        /\ UNCHANGED <<conf, real, toNode, toPtp, pc, asked, at>>
    BY <1>1 DEF Tick, NodeRecord
  <1>3. age \in Nat /\ age >= 1
    BY <1>1 DEF NodeRecord
  <1> HIDE DEF age
  <1>4. /\ node' \in NodeRecord /\ node'.age = age
        /\ node'.port = node.port /\ node'.clock = node.clock /\ node'.new = node.new
        /\ node'.changed = node.changed /\ node'.master = node.master /\ node'.rt = node.rt
        /\ node'.rtServo = node.rtServo
    BY <1>1, <1>2, <1>3 DEF NodeRecord
  <1>5. ~HasSub(toPtp)
    BY <1>1, <1>2, SubFacts
  <1>6. sub >= 2 /\ (HasSub(toNode) => sub = 3) /\ ~asked
    BY <1>2, <1>5 DEF IInv, Subscribed, Running, Hasty, Calls
  <1>7. sub' = sub - 1 /\ sub' \in 0..PMC_SUBSCRIBE_DURATION
    BY <1>1, <1>2, <1>6 DEF Prune, PMC_SUBSCRIBE_DURATION
  <1>8. Subscribed'
    BY <1>1, <1>2, <1>3, <1>4, <1>6, <1>7 DEF Subscribed, PMC_SUBSCRIBE_DURATION
  <1>9. Acquainted'
    BY <1>1, <1>2, <1>4, <1>6, <1>7 DEF IInv, Acquainted, PMC_SUBSCRIBE_DURATION
  <1>10. Reckoned(pc', at', node') /\ ServoKept(node') /\ Informed(toNode', node'.port, real')
    BY <1>2, <1>4, SameReckoning DEF IInv, ServoKept
  <1>11. InLoop(pc', at')
    BY <1>2 DEF IInv
  <1> QED  BY <1>1, <1>2, <1>4, <1>7, <1>8, <1>9, <1>10, <1>11, Parts

-----------------------------------------------------------------------------
(* phc2sys reads a message that is not the answer.                         *)

\* The state of every clock is known once the ports are.
LEMMA KnownClock ==
  ASSUME conf \in Configs, NEW nd \in NodeRecord, \A n \in PortNums : nd.port[n] # NULL,
         NEW c \in Clocks
  PROVE  Computed(nd, c) \in Norm /\ Computed(nd, c) # NULL
  <1>1. c \in PortsOf(c) /\ nd.port[c] # NULL /\ nd.port \in PortMap
    BY ConfFacts DEF NodeRecord
  <1> QED  BY <1>1, ComputedFacts, Phc2sysAssumption

\* News of a port, read in whatever call, leave the reckoning right (recv_subscribed).
LEMMA RecvReckoned ==
  ASSUME conf \in Configs, NEW nd \in NodeRecord, NEW m,
         m.kind = "PORT_DATA_SET" => m.port \in PortNums,
         NEW w, NEW e, Reckoned(w, e, nd), InLoop(w, e),
         w \in {"init_offset"} \cup Running => \A n \in PortNums : nd.port[n] # NULL
  PROVE  Reckoned(w, e, recv_subscribed(nd, m))
  <1> DEFINE b == recv_subscribed(nd, m)
             s == normalize_state(m.state)
             d == conf.clock[m.port]
  <1>1. /\ b \in NodeRecord /\ SamePlan(nd, b)
        /\ \/ b = nd
           \/ /\ m.kind = "PORT_DATA_SET" /\ nd.port[m.port] # NULL
              /\ \A k \in PortNums : b.port[k] = IF k = m.port THEN s ELSE nd.port[k]
              /\ \/ /\ nd.clock[d] = Computed(b, d) /\ nd.new[d] = NULL
                    /\ b.new = nd.new /\ b.changed = nd.changed
                 \/ /\ \A k \in PortNums : b.new[k] = IF k = d THEN Computed(b, d) ELSE nd.new[k]
                    /\ b.changed
    BY RecvFacts
  <1> HIDE DEF b, s, d
  <1>2. CASE b = nd
    BY <1>2 DEF b
  <1>3. CASE /\ m.kind = "PORT_DATA_SET" /\ nd.port[m.port] # NULL
             /\ \A k \in PortNums : b.port[k] = IF k = m.port THEN s ELSE nd.port[k]
             /\ \/ /\ nd.clock[d] = Computed(b, d) /\ nd.new[d] = NULL
                   /\ b.new = nd.new /\ b.changed = nd.changed
                \/ /\ \A k \in PortNums : b.new[k] = IF k = d THEN Computed(b, d) ELSE nd.new[k]
                   /\ b.changed
    <2>1. CASE w \in {"init_offset"} \cup Running
      <3>1. s # NULL /\ m.port \in PortNums /\ d \in Clocks /\ Clocks \subseteq PortNums
        BY <1>3, NormalFacts, ConfFacts DEF s, d
      <3>2. \A n \in PortNums : nd.port[n] # NULL /\ b.port[n] # NULL
        BY <1>3, <2>1, <3>1
      <3>3. ASSUME NEW c \in Clocks, c # d
            PROVE  Computed(b, c) = Computed(nd, c)
        <4>1. c \in PortsOf(c) /\ PortsOf(c) \subseteq PortNums /\ m.port \notin PortsOf(c)
          BY <3>3, ConfFacts DEF PortsOf, d
        <4>2. b.port \in PortMap /\ nd.port \in PortMap
          BY <1>1 DEF NodeRecord
        <4>3. \A n \in PortsOf(c) : b.port[n] = nd.port[n]
          BY <1>3, <4>1
        <4>4. b.port[c] # NULL
          BY <3>1, <3>2
        <4> QED  BY <4>1, <4>2, <4>3, <4>4, ComputedSame
      <3>4. Computed(b, d) # NULL
        BY <1>1, <3>1, <3>2, KnownClock
      <3>5. b.clock = nd.clock /\ b.master = nd.master
        BY <1>1 DEF SamePlan
      <3>6. Pending(nd)
        BY <2>1 DEF Reckoned
      <3>7. CASE /\ nd.clock[d] = Computed(b, d) /\ nd.new[d] = NULL
                 /\ b.new = nd.new /\ b.changed = nd.changed
        <4>1. \A c \in Clocks : Computed(b, c) = Computed(nd, c)
          BY <3>1, <3>3, <3>6, <3>7 DEF Pending
        <4>2. Pending(b)
          BY <3>5, <3>6, <3>7, <4>1 DEF Pending
        <4>3. Followers(b) = Followers(nd) /\ Waiting(b) = Waiting(nd)
          BY <4>1 DEF Followers, Waiting
        <4>4. Decided(nd) => Decided(b)
          BY <3>5, <4>1, <4>3 DEF Decided
        <4> QED  BY <3>7, <4>2, <4>4 DEF Reckoned, b
      <3>8. CASE /\ \A k \in PortNums : b.new[k] = IF k = d THEN Computed(b, d) ELSE nd.new[k]
                 /\ b.changed
        <4>1. Pending(b)
          <5> SUFFICES ASSUME NEW c \in Clocks
                       PROVE  IF b.new[c] # NULL THEN b.new[c] = Computed(b, c)
                              ELSE b.clock[c] = Computed(b, c)
            BY DEF Pending
          <5>1. CASE c = d
            BY <3>1, <3>4, <3>8, <5>1
          <5>2. CASE c # d
            <6>1. b.new[c] = nd.new[c]
              BY <3>1, <3>8, <5>2
            <6> QED  BY <3>3, <3>5, <3>6, <5>2, <6>1 DEF Pending
          <5> QED  BY <5>1, <5>2
        <4>2. w = "reinit" => b.new[AtClock(w, e)] # NULL
          <5>1. w = "reinit" => AtClock(w, e) \in PortNums
            BY ConfFacts DEF AtClock, InLoop
          <5> QED  BY <3>4, <3>8, <5>1 DEF Reckoned
        <4> QED  BY <3>8, <4>1, <4>2 DEF Reckoned, b
      <3> QED  BY <1>3, <3>7, <3>8
    <2>2. CASE w \notin {"init_offset"} \cup Running
      BY <2>2 DEF Reckoned, Running, Idle
    <2> QED  BY <2>1, <2>2
  <1> QED  BY <1>1, <1>2, <1>3

\* News and answers are of ports.
LEMMA OfPorts ==
  ASSUME NEW m \in Answers
  PROVE  /\ m.kind \in {"PORT_DATA_SET", "PORT_PROPERTIES"} => m.port \in PortNums
         /\ m.kind = "SUBSCRIBE" => m = SUB
  <1>1. CASE m \in {DEFAULT, SUB, TIME}
    BY <1>1 DEF DEFAULT, SUB, TIME, Msg
  <1>2. CASE \E n \in PortNums, s \in States : m = Properties(n, s)
    BY <1>2 DEF Properties, Msg
  <1>3. CASE \E n \in PortNums, s \in States : m = DataSet(n, s)
    BY <1>3 DEF DataSet, Msg
  <1> QED  BY <1>1, <1>2, <1>3 DEF Answers

\* A message that is not the answer waited for is read (run_pmc, recv_subscribed).
LEMMA ReadOtherStep ==
  ASSUME IInv, ReadOther
  PROVE  IInv'
  <1> DEFINE m == Head(toNode)
  <1>1. /\ conf \in Configs /\ real \in [PortNums -> States] /\ node \in NodeRecord
        /\ toNode \in Seq(Answers) /\ toPtp \in Seq(Requests) /\ asked \in BOOLEAN /\ woke \in BOOLEAN
        /\ sub \in 0..PMC_SUBSCRIBE_DURATION /\ at \in 0..NPorts
        /\ pc \in Early \cup {"init_port", "init_offset"} \cup Running
    BY DEF IInv, Typed
  <1>2. /\ pc \in Calls /\ toNode # <<>> /\ node' = recv_subscribed(node, m) /\ toNode' = Tail(toNode)
        /\ UNCHANGED <<conf, real, sub, toPtp, pc, asked, at, woke>>
    BY DEF ReadOther
  <1>3. /\ m \in Answers /\ toNode' \in Seq(Answers) /\ m = toNode[1] /\ Len(toNode') = Len(toNode) - 1
        /\ Len(toNode) \in Nat /\ Len(toNode) >= 1
        /\ \A i \in 1..Len(toNode') : toNode'[i] = toNode[i + 1]
    BY <1>1, <1>2, TailFacts
  <1>4. m.kind = "PORT_DATA_SET" => m.port \in PortNums
    BY <1>3, OfPorts
  <1>5. HasSub(toNode') => HasSub(toNode)
    BY <1>1, <1>2, SubFacts
  <1>6. /\ node' \in NodeRecord /\ SamePlan(node, node')
        /\ \/ node' = node /\ (m.kind = "PORT_DATA_SET" => node.port[m.port] \in {NULL, normalize_state(m.state)})
           \/ /\ m.kind = "PORT_DATA_SET" /\ node.port[m.port] # NULL
              /\ \A k \in PortNums : node'.port[k] = IF k = m.port THEN normalize_state(m.state)
                                                     ELSE node.port[k]
    BY <1>1, <1>2, <1>4, RecvFacts
  <1> HIDE DEF m
  <1>7. woke
    BY <1>2 DEF IInv, Subscribed, Calls
  <1>8. Subscribed'
    BY <1>2, <1>5, <1>7 DEF IInv, Subscribed
  <1>9. Informed(toNode', node'.port, real')
    <2>1. \A n \in PortNums :
            \/ node'.port[n] = NULL
            \/ node'.port[n] = node.port[n] /\ ~News(m, n)
            \/ (News(m, n) \/ Told(m, n)) /\ node'.port[n] = normalize_state(m.state)
      BY <1>6 DEF News
    <2> QED  BY <1>1, <1>2, <2>1, MessageRead DEF IInv, m
  <1>10. \A n \in PortNums : node.port[n] # NULL => node'.port[n] # NULL
    BY <1>6, NormalFacts
  <1>11. Acquainted'
    <2>1. CASE sub = 0
      <3>1. /\ pc \in Early /\ \A n \in PortNums : node.port[n] = NULL
            /\ \A i \in 1..Len(toNode), n \in PortNums : ~News(toNode[i], n) /\ ~Told(toNode[i], n)
            /\ \A i \in 1..Len(toPtp) : toPtp[i].kind # "PORT_PROPERTIES"
        BY <2>1 DEF IInv, Acquainted
      <3>2. node' = node
        BY <1>4, <1>6, <3>1
      <3>3. \A i \in 1..Len(toNode'), n \in PortNums : ~News(toNode'[i], n) /\ ~Told(toNode'[i], n)
        <4> SUFFICES ASSUME NEW i \in 1..Len(toNode')
                     PROVE  \A n \in PortNums : ~News(toNode'[i], n) /\ ~Told(toNode'[i], n)
          OBVIOUS
        <4>1. i + 1 \in 1..Len(toNode)
          BY <1>3
        <4> QED  BY <1>3, <3>1, <4>1
      <3> QED  BY <1>2, <3>1, <3>2, <3>3 DEF Acquainted, Early, Running
    <2>2. CASE sub # 0
      BY <1>2, <1>10, <2>2 DEF IInv, Acquainted
    <2> QED  BY <2>1, <2>2
  <1>12. Reckoned(pc', at', node')
    BY <1>1, <1>2, <1>4, RecvReckoned DEF IInv, Acquainted
  <1>13. ServoKept(node') /\ InLoop(pc', at')
    BY <1>2, <1>6 DEF IInv, ServoKept, SamePlan
  <1> QED  BY <1>1, <1>2, <1>3, <1>6, <1>8, <1>9, <1>11, <1>12, <1>13, Parts

-----------------------------------------------------------------------------
(* The steps of phc2sys without an answer.                                 *)

\* A request is sent (run_pmc).
LEMMA AskStep ==
  ASSUME IInv, Ask
  PROVE  IInv'
  <1>1. /\ conf \in Configs /\ real \in [PortNums -> States] /\ node \in NodeRecord
        /\ toNode \in Seq(Answers) /\ toPtp \in Seq(Requests) /\ asked \in BOOLEAN /\ woke \in BOOLEAN
        /\ sub \in 0..PMC_SUBSCRIBE_DURATION /\ at \in 0..NPorts
        /\ pc \in Early \cup {"init_port", "init_offset"} \cup Running
    BY DEF IInv, Typed
  <1>2. /\ pc \in Calls /\ Wanted # NULL /\ toPtp' = Append(toPtp, Wanted) /\ asked' = TRUE
        /\ UNCHANGED <<conf, real, sub, toNode, pc, at, node, woke>>
    BY DEF Ask
  <1>3. /\ Wanted \in Requests
        /\ pc = "subscribe" => Wanted = SUB
        /\ pc \in Early => Wanted.kind # "PORT_PROPERTIES"
    <2>1. CASE pc \in {"init_identity", "init_number"}
      BY <2>1 DEF Wanted, Requests, DEFAULT, Msg
    <2>2. CASE pc \in {"init_subscribe", "subscribe"}
      BY <2>2 DEF Wanted, Requests, SUB, Msg
    <2>3. CASE pc \in {"init_port", "reinit"}
      BY <2>3 DEF Wanted, Requests, Early, IInv, InLoop
    <2>4. CASE pc \in {"init_offset", "offset", "force"}
      BY <2>4 DEF Wanted, Requests, Early
    <2>5. CASE pc = "events"
      BY <1>2, <2>5 DEF Wanted
    <2> QED  BY <1>2, <2>1, <2>2, <2>3, <2>4, <2>5 DEF Calls
  <1>4. /\ toPtp' \in Seq(Requests) /\ Len(toPtp') = Len(toPtp) + 1 /\ Len(toPtp) \in Nat
        /\ toPtp'[Len(toPtp) + 1] = Wanted /\ \A i \in 1..Len(toPtp) : toPtp'[i] = toPtp[i]
    BY <1>1, <1>2, <1>3, AppendFacts
  <1>5. HasSub(toPtp') <=> HasSub(toPtp) \/ Wanted = SUB
    BY <1>1, <1>2, <1>3, SubFacts
  <1>6. Subscribed'
    <2>1. woke
      BY <1>2 DEF IInv, Subscribed, Calls
    <2> QED  BY <1>2, <1>3, <1>5, <2>1 DEF IInv, Subscribed
  <1>7. Acquainted'
    <2>1. sub = 0 => \A i \in 1..Len(toPtp') : toPtp'[i].kind # "PORT_PROPERTIES"
      <3> SUFFICES ASSUME sub = 0, NEW i \in 1..Len(toPtp')
                   PROVE  toPtp'[i].kind # "PORT_PROPERTIES"
        OBVIOUS
      <3>1. pc \in Early /\ \A k \in 1..Len(toPtp) : toPtp[k].kind # "PORT_PROPERTIES"
        BY DEF IInv, Acquainted
      <3>2. i = Len(toPtp) + 1 \/ i \in 1..Len(toPtp)
        BY <1>4
      <3> QED  BY <1>3, <1>4, <3>1, <3>2
    <2> QED  BY <1>2, <2>1 DEF IInv, Acquainted
  <1>8. /\ InLoop(pc', at') /\ Informed(toNode', node'.port, real') /\ Reckoned(pc', at', node')
        /\ ServoKept(node')
    BY <1>2 DEF IInv
  <1> QED  BY <1>1, <1>2, <1>4, <1>6, <1>7, <1>8, Parts

\* The loop goes on (do_loop, update_pmc).
LEMMA WakeStep ==
  ASSUME IInv, Wake
  PROVE  IInv'
  <1>1. /\ conf \in Configs /\ real \in [PortNums -> States] /\ node \in NodeRecord
        /\ toNode \in Seq(Answers) /\ toPtp \in Seq(Requests) /\ asked \in BOOLEAN /\ woke \in BOOLEAN
        /\ sub \in 0..PMC_SUBSCRIBE_DURATION /\ at \in 0..NPorts
    BY DEF IInv, Typed
  <1>2. /\ pc = "sleep" /\ woke' = TRUE
        /\ pc' = "subscribe" \/ (pc' = "events" /\ ~(node.age >= 1))
        /\ UNCHANGED <<conf, real, sub, toNode, toPtp, asked, at, node>>
    BY DEF Wake
  <1>3. pc' \in Running /\ pc' \in Hasty /\ pc' \in Idle /\ pc \in Running /\ pc \in Idle
        /\ pc \notin Calls
    BY <1>2 DEF Running, Hasty, Idle, Calls
  <1>4. ~asked /\ sub >= 1
    BY <1>3 DEF IInv, Subscribed
  <1>5. Subscribed'
    <2>1. pc' = "events" => sub >= 2 \/ HasSub(toPtp)
      BY <1>2, <1>3 DEF IInv, Subscribed
    <2> QED  BY <1>2, <1>3, <1>4, <2>1 DEF IInv, Subscribed
  <1>6. Acquainted'
    BY <1>1, <1>2, <1>3, <1>4 DEF IInv, Acquainted, PMC_SUBSCRIBE_DURATION
  <1>7. Reckoned(pc', at', node')
    BY <1>2, <1>3 DEF IInv, Reckoned
  <1>8. InLoop(pc', at') /\ Informed(toNode', node'.port, real') /\ ServoKept(node')
    BY <1>2 DEF IInv, InLoop
  <1> QED  BY <1>1, <1>2, <1>3, <1>5, <1>6, <1>7, <1>8, Parts

\* The clocks are steered (do_loop, update_clock).
LEMMA SynchronizeStep ==
  ASSUME IInv, Synchronize
  PROVE  IInv'
  <1> DEFINE r == IF RT \in Steered THEN "running"
                  ELSE IF node.rt = "SLAVE" THEN "outdated" ELSE node.rtServo
  <1>1. /\ conf \in Configs /\ real \in [PortNums -> States] /\ node \in NodeRecord
        /\ toNode \in Seq(Answers) /\ toPtp \in Seq(Requests) /\ asked \in BOOLEAN /\ woke \in BOOLEAN
        /\ sub \in 0..PMC_SUBSCRIBE_DURATION /\ at \in 0..NPorts
    BY DEF IInv, Typed
  <1>2. /\ pc = "sync" /\ pc' = "sleep" /\ node' = [node EXCEPT !.rtServo = r]
        /\ UNCHANGED <<conf, real, sub, toNode, toPtp, asked, at, woke>>
    BY <1>1 DEF Synchronize, NodeRecord
  <1>3. r \in {"fresh", "running", "outdated"} /\ (r = "outdated" => node.rt = "SLAVE")
    BY <1>1 DEF NodeRecord, IInv, ServoKept
  <1> HIDE DEF r
  <1>4. /\ node' \in NodeRecord /\ node'.rtServo = r
        /\ node'.port = node.port /\ node'.clock = node.clock /\ node'.new = node.new
        /\ node'.changed = node.changed /\ node'.master = node.master /\ node'.rt = node.rt
        /\ node'.age = node.age
    BY <1>1, <1>2, <1>3 DEF NodeRecord
  <1>5. pc' \in Running /\ pc' \notin Hasty /\ pc' \in Idle /\ pc \in Running /\ pc \in Idle
        /\ pc \notin Calls /\ pc \notin Hasty
    BY <1>2 DEF Running, Hasty, Idle, Calls
  <1>6. ~asked /\ sub >= 1 /\ woke
    BY <1>2, <1>5 DEF IInv, Subscribed
  <1>7. Subscribed'
    BY <1>2, <1>4, <1>5, <1>6 DEF IInv, Subscribed
  <1>8. Acquainted'
    BY <1>1, <1>2, <1>4, <1>5, <1>6 DEF IInv, Acquainted, PMC_SUBSCRIBE_DURATION
  <1>9. Reckoned(pc', at', node')
    <2>1. Reckoned(pc', at', node)
      BY <1>2, <1>5 DEF IInv, Reckoned
    <2> QED  BY <1>4, <2>1, SameReckoning
  <1>10. InLoop(pc', at') /\ Informed(toNode', node'.port, real') /\ ServoKept(node')
    BY <1>2, <1>3, <1>4 DEF IInv, InLoop, ServoKept
  <1> QED  BY <1>1, <1>2, <1>4, <1>5, <1>7, <1>8, <1>9, <1>10, Parts

-----------------------------------------------------------------------------
(* reconfigure                                                             *)

\* The loop goes on to the next clock, or ends in a decision.
LEMMA NextClockFacts ==
  ASSUME conf \in Configs, NEW nd \in NodeRecord, NEW c \in Clocks,
         \A n \in PortNums : nd.port[n] # NULL,
         Pending(nd), nd.new[c] = NULL, ServoKept(nd),
         ~nd.changed => \A d \in Clocks : d > c => nd.new[d] = NULL,
         NextClock(nd, c)
  PROVE  /\ node' \in NodeRecord /\ at' \in 0..NPorts /\ pc' \in {"sync", "reconfigure"}
         /\ InLoop(pc', at') /\ Reckoned(pc', at', node') /\ ServoKept(node')
         /\ node'.port = nd.port /\ node'.age = nd.age
  <1> DEFINE d == Before(Clocks, c)
  <1>1. /\ node' = IF d = 0 THEN Decide(nd) ELSE nd
        /\ pc' = IF d = 0 THEN "sync" ELSE "reconfigure"
        /\ at' = d
    BY DEF NextClock
  <1>2. \/ d = 0 /\ \A m \in Clocks : ~(m < c)
        \/ d \in Clocks /\ d < c /\ d # 0 /\ \A m \in Clocks : m < c => m <= d
    BY ConfFacts, BeforeFacts
  <1>3. Clocks \subseteq PortNums /\ 1 \in Clocks /\ PortNums \subseteq 1..NPorts /\ NPorts \in Nat
    BY ConfFacts
  <1> HIDE DEF d
  <1>4. CASE d = 0
    <2> DEFINE b == Decide(nd)
    <2>1. node' = b /\ pc' = "sync" /\ at' = 0
      BY <1>1, <1>4
    <2>2. /\ b \in NodeRecord /\ b.port = nd.port /\ b.changed = nd.changed /\ b.age = nd.age
          /\ b.master = MasterOf(Sources(nd), Unready(nd))
          /\ ServoKept(b)
          /\ \/ b.clock = nd.clock /\ b.new = nd.new
             \/ /\ \A n \in PortNums : b.clock[n] = IF n = 1 THEN "SLAVE" ELSE nd.clock[n]
                /\ \A n \in PortNums : b.new[n] = IF n = 1 THEN nd.clock[1] ELSE nd.new[n]
      BY DecideFacts
    <2> HIDE DEF b
    <2>3. c = 1 /\ \A m \in Clocks : m = c \/ m > c
      <3>1. \A m \in Clocks : ~(m < c) /\ m \in 1..NPorts
        BY <1>2, <1>3, <1>4
      <3> QED  BY <1>3, <3>1
    <2>4. /\ \A k : Computed(b, k) = Computed(nd, k)
          /\ Followers(b) = Followers(nd) /\ Waiting(b) = Waiting(nd)
      BY <2>2, SamePorts
    <2>5. nd.clock[1] = Computed(nd, 1) /\ Computed(nd, 1) # NULL
      BY <1>3, <2>3, KnownClock DEF Pending
    <2>6. Pending(b)
      <3> SUFFICES ASSUME NEW k \in Clocks
                   PROVE  IF b.new[k] # NULL THEN b.new[k] = Computed(nd, k)
                          ELSE b.clock[k] = Computed(nd, k)
        BY <2>4 DEF Pending
      <3>1. k \in PortNums
        BY <1>3
      <3>2. IF nd.new[k] # NULL THEN nd.new[k] = Computed(nd, k)
            ELSE nd.clock[k] = Computed(nd, k)
        BY DEF Pending
      <3>3. CASE b.clock = nd.clock /\ b.new = nd.new
        BY <3>2, <3>3
      <3>4. CASE k = 1 /\ b.new[k] = nd.clock[1]
        BY <2>5, <3>4
      <3>5. CASE b.new[k] = nd.new[k] /\ b.clock[k] = nd.clock[k]
        BY <3>2, <3>5
      <3> QED  BY <2>2, <3>1, <3>3, <3>4, <3>5
    <2>7. ~b.changed => Decided(b)
      <3> SUFFICES ASSUME ~nd.changed PROVE Decided(b)
        BY <2>2
      <3>1. \A k \in Clocks : nd.new[k] = NULL
        BY <2>3
      <3>2. \A k \in Clocks : nd.clock[k] = Computed(nd, k)
        BY <3>1 DEF Pending
      <3>3. Sources(nd) = Followers(nd) /\ Unready(nd) = Waiting(nd)
        BY <3>2 DEF Sources, Followers, Unready, Waiting
      <3>4. b.master = MasterOf(Followers(b), Waiting(b))
        BY <2>2, <2>4, <3>3
      <3>5. \A k \in Clocks : b.clock[k] \in {nd.clock[k], "SLAVE"}
        BY <1>3, <2>2
      <3>6. \A k \in Clocks : b.clock[k] \in {Computed(b, k), "SLAVE"}
        BY <2>4, <3>2, <3>5
      <3> QED  BY <3>4, <3>6 DEF Decided
    <2>8. Reckoned("sync", 0, b)
      BY <2>6, <2>7 DEF Reckoned
    <2>9. InLoop("sync", 0) /\ 0 \in 0..NPorts
      BY <1>3 DEF InLoop
    <2> QED  BY <2>1, <2>2, <2>8, <2>9
  <1>5. CASE d # 0
    <2>1. node' = nd /\ pc' = "reconfigure" /\ at' = d
      BY <1>1, <1>5
    <2>2. d \in Clocks /\ d \in 0..NPorts
      <3>1. d \in Clocks
        BY <1>2, <1>5
      <3>2. d \in 1..NPorts
        BY <1>3, <3>1
      <3> QED  BY <1>3, <3>1, <3>2
    <2>3. \A k \in Clocks : k > d => k = c \/ k > c
      <3>1. \A m \in Clocks : m \in 1..NPorts
        BY <1>3
      <3> QED  BY <1>2, <1>5, <3>1
    <2>4. ~nd.changed => \A k \in Clocks : k > d => nd.new[k] = NULL
      BY <2>3
    <2>5. Reckoned("reconfigure", d, nd)
      BY <2>4 DEF Reckoned, AtClock, Idle
    <2>6. InLoop("reconfigure", d)
      BY <2>2 DEF InLoop
    <2> QED  BY <2>1, <2>2, <2>5, <2>6
  <1> QED  BY <1>4, <1>5

\* Past its events a loop keeps what it knows of its subscription.
LEMMA RunOn ==
  ASSUME IInv, pc \in Running, pc \notin Hasty, woke, pc' \in Running, pc' \notin Hasty,
         asked' = FALSE, UNCHANGED <<sub, toPtp, woke>>, HasSub(toNode') => HasSub(toNode)
  PROVE  Subscribed'
  <1>1. pc # "subscribe" /\ pc \notin {"init_port", "init_offset"}
        /\ pc' \notin {"init_port", "init_offset"}
    BY DEF Running, Hasty
  <1> QED  BY <1>1 DEF IInv, Subscribed

\* The last of a set of ports.
LEMMA LastPort ==
  ASSUME conf \in Configs, NEW S \in SUBSET PortNums, S # {}
  PROVE  /\ Before(S, NPorts + 1) \in S
         /\ \A m \in S : m <= Before(S, NPorts + 1)
  <1>1. NPorts \in Nat /\ \A m \in S : m \in 1..NPorts
    BY ConfFacts
  <1>2. \A m \in S : m < NPorts + 1
    BY <1>1
  <1>3. \/ Before(S, NPorts + 1) = 0 /\ \A m \in S : ~(m < NPorts + 1)
        \/ Before(S, NPorts + 1) \in S /\ \A m \in S : m < NPorts + 1 => m <= Before(S, NPorts + 1)
    BY BeforeFacts
  <1> QED  BY <1>2, <1>3

\* A clock gets its new state, or the decision is made (reconfigure).
LEMMA ReconfigureStep ==
  ASSUME IInv, Reconfigure
  PROVE  IInv'
  <1>1. /\ conf \in Configs /\ real \in [PortNums -> States] /\ node \in NodeRecord
        /\ toNode \in Seq(Answers) /\ toPtp \in Seq(Requests) /\ asked \in BOOLEAN /\ woke \in BOOLEAN
        /\ sub \in 0..PMC_SUBSCRIBE_DURATION
    BY DEF IInv, Typed
  <1>2. /\ pc = "reconfigure"
        /\ UNCHANGED <<conf, real, sub, toNode, toPtp, asked, woke>>
    BY DEF Reconfigure
  <1>3. /\ at \in Clocks /\ \A n \in PortNums : node.port[n] # NULL
        /\ Pending(node) /\ ServoKept(node)
        /\ ~node.changed => \A d \in Clocks : d > at => node.new[d] = NULL
    BY <1>2 DEF IInv, InLoop, Acquainted, Reckoned, AtClock, Running
  <1>4. /\ node' \in NodeRecord /\ at' \in 0..NPorts /\ pc' \in {"sync", "reconfigure", "reinit"}
        /\ InLoop(pc', at') /\ Reckoned(pc', at', node') /\ ServoKept(node')
        /\ node'.port = node.port /\ node'.age = node.age
    <2>1. CASE node.new[at] = NULL
      <3>1. NextClock(node, at)
        BY <2>1 DEF Reconfigure
      <3> QED  BY <1>1, <1>3, <2>1, <3>1, NextClockFacts
    <2>2. CASE node.new[at] # NULL
      <3> DEFINE n == Before(PortsOf(at), NPorts + 1)
      <3>1. pc' = "reinit" /\ at' = n /\ node' = node
        BY <2>2 DEF Reconfigure, Goto
      <3>2. PortsOf(at) \in SUBSET PortNums /\ PortsOf(at) # {}
        BY <1>1, <1>3, ConfFacts
      <3>3. n \in PortsOf(at)
        BY <1>1, <3>2, LastPort
      <3> HIDE DEF n
      <3>4. n \in PortNums /\ conf.clock[n] = at
        BY <3>3 DEF PortsOf
      <3>5. n \in 0..NPorts
        BY <1>1, <3>4, ConfFacts
      <3>6. InLoop("reinit", n)
        BY <3>4 DEF InLoop
      <3>7. Reckoned("reinit", n, node)
        BY <1>3, <2>2, <3>4 DEF Reckoned, AtClock, Idle
      <3> QED  BY <1>1, <1>3, <3>1, <3>5, <3>6, <3>7
    <2> QED  BY <2>1, <2>2
  <1>5. pc \in Running /\ pc \notin Hasty /\ pc' \in Running /\ pc' \notin Hasty /\ pc \notin Calls
    BY <1>2, <1>4 DEF Running, Hasty, Calls
  <1>6. woke /\ asked = FALSE /\ sub # 0
    BY <1>1, <1>2, <1>5 DEF IInv, Subscribed
  <1>7. Subscribed'
    BY <1>2, <1>5, <1>6, RunOn
  <1>8. Acquainted'
    BY <1>2, <1>3, <1>4, <1>5, <1>6 DEF Acquainted, Running
  <1>9. Informed(toNode', node'.port, real')
    BY <1>2, <1>4 DEF IInv
  <1> QED  BY <1>1, <1>2, <1>4, <1>5, <1>7, <1>8, <1>9, Parts

-----------------------------------------------------------------------------
(* run_pmc returns.                                                        *)

\* The answer about a port sets that port's state and nothing else.
LEMMA WithStateFacts ==
  ASSUME NEW nd \in NodeRecord, NEW m
  PROVE  LET b == WithState(nd, m)
         IN /\ b \in NodeRecord /\ SamePlan(nd, b) /\ b.new = nd.new /\ b.changed = nd.changed
            /\ m = NULL => b = nd
            /\ m # NULL => \A k \in PortNums : b.port[k] = IF k = at THEN normalize_state(m.state)
                                                          ELSE nd.port[k]
  <1>1. CASE m = NULL
    BY <1>1 DEF WithState, SamePlan
  <1>2. CASE m # NULL
    <2> DEFINE s == normalize_state(m.state)
    <2>1. WithState(nd, m) = WithPort(nd, at, s)
      BY <1>2 DEF WithState, WithPort
    <2>2. s \in Norm
      BY NormalFacts
    <2> HIDE DEF s
    <2>3. LET b == WithPort(nd, at, s)
          IN /\ b \in NodeRecord /\ SamePlan(nd, b) /\ b.new = nd.new /\ b.changed = nd.changed
             /\ \A k \in PortNums : b.port[k] = IF k = at THEN s ELSE nd.port[k]
      BY <2>2, PortFacts
    <2> QED  BY <1>2, <2>1, <2>3 DEF s
  <1> QED  BY <1>1, <1>2

\* Where the answer m, or none, leads.
Landed(m) ==
  /\ node' \in NodeRecord /\ at' \in 0..NPorts
  /\ InLoop(pc', at') /\ Reckoned(pc', at', node') /\ ServoKept(node')
  /\ \A k \in PortNums :
       \/ node'.port[k] = node.port[k]
       \/ /\ pc \in {"init_port", "reinit"} /\ k = at /\ m # NULL
          /\ node'.port[k] = normalize_state(m.state)
  /\ pc' = "init_port" => \A n \in PortNums : n < at' => node'.port[n] # NULL
  /\ pc' \in {"init_offset"} \cup Running => \A n \in PortNums : node'.port[n] # NULL

Goes(m) ==
  \/ pc \in Early /\ pc' \in Early
  \/ pc = "init_subscribe" /\ m # NULL /\ pc' = "init_port"
  \/ pc \in {"init_port", "init_offset"} /\ pc' \in {"exit", "init_port", "init_offset", "sleep"}
  \/ pc = "subscribe" /\ pc' = "offset"
  \/ pc = "offset" /\ pc' = "events"
  \/ pc = "events" /\ pc' \in {"force", "sync"}
  \/ pc \in {"force", "reinit"} /\ pc' \in {"sleep", "reconfigure", "reinit", "sync"}

\* Before the ports are asked.
LEMMA EarlyReturn ==
  ASSUME IInv, NEW m, Return(m), pc \in {"init_identity", "init_number", "init_subscribe"}
  PROVE  Landed(m) /\ Goes(m)
  <1>1. /\ node' = node /\ at' = 1
        /\ pc' \in Early \/ (pc = "init_subscribe" /\ m # NULL /\ pc' = "init_port")
    BY DEF Return, Goto, Early
  <1>2. node \in NodeRecord /\ conf \in Configs /\ ServoKept(node)
    BY DEF IInv, Typed
  <1>3. 1 \in PortNums /\ 1 \in 0..NPorts /\ \A n \in PortNums : ~(n < 1)
    BY <1>2, ConfFacts
  <1>4. InLoop(pc', at') /\ Reckoned(pc', at', node')
    BY <1>1, <1>3 DEF InLoop, Reckoned, Early, Running, Idle
  <1>5. Goes(m)
    BY <1>1 DEF Goes, Early
  <1>6. pc' \notin {"init_offset"} \cup Running
    BY <1>1 DEF Early, Running
  <1> QED  BY <1>1, <1>2, <1>3, <1>4, <1>5, <1>6 DEF Landed

\* The first states of the clocks.
LEMMA FirstFacts ==
  ASSUME conf \in Configs, NEW nd \in NodeRecord, \A n \in PortNums : nd.port[n] # NULL
  PROVE  LET b == FirstStates(nd)
         IN /\ b \in NodeRecord /\ SamePlan(nd, b) /\ b.port = nd.port /\ b.changed /\ Pending(b)
  <1> DEFINE new == [n \in PortNums |-> IF n \in Clocks THEN Computed(nd, n) ELSE NULL]
             b == [nd EXCEPT !.new = new, !.changed = TRUE]
  <1>1. FirstStates(nd) = b
    BY DEF FirstStates, Computed
  <1>2. \A c \in Clocks : c \in PortNums /\ Computed(nd, c) \in Norm /\ Computed(nd, c) # NULL
    BY KnownClock, ConfFacts
  <1>3. new \in PortMap /\ \A c \in Clocks : new[c] = Computed(nd, c)
    BY <1>2 DEF PortMap
  <1> HIDE DEF new
  <1>4. b \in NodeRecord /\ SamePlan(nd, b) /\ b.port = nd.port /\ b.changed /\ b.new = new
    BY <1>3 DEF NodeRecord, SamePlan
  <1> HIDE DEF b
  <1>5. \A c : Computed(b, c) = Computed(nd, c)
    BY <1>4, SamePorts
  <1>6. Pending(b)
    BY <1>2, <1>3, <1>4, <1>5 DEF Pending
  <1> QED  BY <1>1, <1>4, <1>6

\* The ports are asked one by one.
LEMMA PortReturn ==
  ASSUME IInv, NEW m, Return(m), pc = "init_port"
  PROVE  Landed(m) /\ Goes(m)
  <1> DEFINE b == WithState(node, m)
  <1>1. node \in NodeRecord /\ conf \in Configs /\ ServoKept(node) /\ at \in PortNums
    BY DEF IInv, Typed, InLoop
  <1>2. at \in 1..NPorts /\ NPorts \in Nat /\ PortNums \subseteq 1..NPorts
    BY <1>1, ConfFacts
  <1>3. \A n \in PortNums : n < at => node.port[n] # NULL
    BY DEF IInv, Acquainted
  <1>4. CASE m = NULL
    <2>1. pc' = "exit" /\ at' = at /\ node' = node
      BY <1>4 DEF Return, Goto
    <2>2. InLoop(pc', at') /\ Reckoned(pc', at', node') /\ at \in 0..NPorts
      BY <1>2, <2>1 DEF InLoop, Reckoned, Running, Idle
    <2> QED  BY <1>1, <2>1, <2>2 DEF Landed, Goes, Running
  <1>5. CASE m # NULL
    <2>1. /\ b \in NodeRecord /\ SamePlan(node, b)
          /\ \A k \in PortNums : b.port[k] = IF k = at THEN normalize_state(m.state) ELSE node.port[k]
      BY <1>1, <1>5, WithStateFacts
    <2>2. \A n \in PortNums : n < at + 1 => b.port[n] # NULL
      <3>1. \A n \in PortNums : n < at + 1 => n < at \/ n = at
        BY <1>2
      <3> QED  BY <1>3, <2>1, <3>1, NormalFacts
    <2>3. ServoKept(b)
      BY <1>1, <2>1 DEF ServoKept, SamePlan
    <2>4. CASE at < NPorts
      <3>1. pc' = "init_port" /\ at' = at + 1 /\ node' = b
        <4>1. at # NPorts
          BY <1>2, <2>4
        <4>2. Goto(pc, at + 1, b)
          BY <1>5, <2>4, <4>1 DEF Return
        <4> QED  BY <4>2 DEF Goto
      <3> HIDE DEF b
      <3>2. at + 1 \in PortNums /\ at + 1 \in 0..NPorts
        BY <1>2, <2>4 DEF PortNums
      <3>3. InLoop(pc', at') /\ Reckoned(pc', at', node')
        BY <3>1, <3>2 DEF InLoop, Reckoned, Running, Idle
      <3> QED  BY <1>5, <2>1, <2>2, <2>3, <3>1, <3>2, <3>3 DEF Landed, Goes, Running
    <2>5. CASE at = NPorts
      <3> DEFINE f == FirstStates(b)
      <3>1. pc' = "init_offset" /\ at' = at /\ node' = f
        BY <1>2, <1>5, <2>5 DEF Return, Goto
      <3>2. \A n \in PortNums : b.port[n] # NULL
        <4>1. \A n \in PortNums : n < at + 1
          BY <1>2, <2>5
        <4> QED  BY <2>2, <4>1
      <3> HIDE DEF b
      <3>3. f \in NodeRecord /\ SamePlan(b, f) /\ f.port = b.port /\ f.changed /\ Pending(f)
        BY <1>1, <2>1, <3>2, FirstFacts
      <3> HIDE DEF f
      <3>4. ServoKept(f)
        BY <2>3, <3>3 DEF ServoKept, SamePlan
      <3>5. InLoop(pc', at') /\ Reckoned(pc', at', node') /\ at \in 0..NPorts
        BY <1>2, <3>1, <3>3 DEF InLoop, Reckoned, Idle
      <3> QED  BY <1>5, <2>1, <3>1, <3>2, <3>3, <3>4, <3>5 DEF Landed, Goes
    <2> QED  BY <1>2, <2>4, <2>5
  <1> QED  BY <1>4, <1>5

\* The loop of do_loop, but for reconfigure.
LEMMA LoopReturn ==
  ASSUME IInv, NEW m, Return(m), pc \in {"init_offset", "subscribe", "offset", "events"}
  PROVE  Landed(m) /\ Goes(m)
  <1>1. /\ node \in NodeRecord /\ conf \in Configs /\ ServoKept(node) /\ at \in 0..NPorts
        /\ Reckoned(pc, at, node)
    BY DEF IInv, Typed
  <1>2. \A n \in PortNums : node.port[n] # NULL
    BY DEF IInv, Acquainted, Running
  <1>3. at' = at /\ Goes(m) /\ pc' \in Idle \cup {"exit"}
    BY DEF Return, Goto, Goes, Idle, Early
  <1>4. InLoop(pc', at')
    BY <1>3 DEF InLoop, Idle
  <1>5. /\ node' \in NodeRecord
        /\ node'.port = node.port /\ node'.clock = node.clock /\ node'.new = node.new
        /\ node'.changed = node.changed /\ node'.master = node.master /\ node'.rt = node.rt
        /\ node'.rtServo = node.rtServo
    <2> DEFINE zero == 0
    <2>1. node' = node \/ node' = [node EXCEPT !.age = zero]
      BY DEF Return, Goto
    <2>2. zero \in Nat
      OBVIOUS
    <2> HIDE DEF zero
    <2> QED  BY <1>1, <2>1, <2>2 DEF NodeRecord
  <1>6. Reckoned(pc', at, node)
    <2>1. pc = "init_offset" => pc' \in {"sleep", "exit"}
      BY DEF Return, Goto
    <2>2. CASE pc = "init_offset"
      BY <1>1, <2>1, <2>2 DEF Reckoned, Running, Idle
    <2>3. CASE pc # "init_offset" /\ pc' \in Idle
      BY <1>1, <2>3 DEF Reckoned, Running, Idle
    <2>4. CASE pc' = "exit"
      BY <2>4 DEF Reckoned, Running, Idle
    <2> QED  BY <1>3, <2>2, <2>3, <2>4
  <1>7. Reckoned(pc', at', node')
    BY <1>3, <1>5, <1>6, SameReckoning
  <1>8. ServoKept(node')
    BY <1>1, <1>5 DEF ServoKept
  <1> QED  BY <1>1, <1>2, <1>3, <1>4, <1>5, <1>7, <1>8 DEF Landed, Idle

\* reconfigure starts, or has to wait.
LEMMA ForceReturn ==
  ASSUME IInv, NEW m, Return(m), pc = "force"
  PROVE  Landed(m) /\ Goes(m)
  <1>1. /\ node \in NodeRecord /\ conf \in Configs /\ ServoKept(node) /\ at \in 0..NPorts
        /\ Reckoned(pc, at, node)
    BY DEF IInv, Typed
  <1>2. \A n \in PortNums : node.port[n] # NULL
    BY DEF IInv, Acquainted, Running
  <1>3. Pending(node)
    BY <1>1 DEF Reckoned, Running
  <1>4. CASE m = NULL
    <2>1. pc' = "sleep" /\ at' = at /\ node' = node
      BY <1>4 DEF Return, Goto
    <2>2. Reckoned(pc', at', node') /\ InLoop(pc', at')
      BY <1>1, <2>1 DEF Reckoned, Running, Idle, InLoop
    <2> QED  BY <1>1, <1>2, <2>1, <2>2 DEF Landed, Goes
  <1>5. CASE m # NULL
    <2> DEFINE c == Before(Clocks, NPorts + 1)
    <2>1. pc' = "reconfigure" /\ at' = c /\ node' = [node EXCEPT !.changed = FALSE]
      BY <1>5 DEF Return, Goto
    <2>2. c \in Clocks /\ \A k \in Clocks : k <= c
      <3>1. Clocks \in SUBSET PortNums /\ Clocks # {}
        BY <1>1, ConfFacts
      <3> QED  BY <1>1, <3>1, LastPort
    <2> HIDE DEF c
    <2>3. Clocks \subseteq 1..NPorts /\ NPorts \in Nat
      BY <1>1, ConfFacts
    <2>4. c \in 1..NPorts /\ c \in 0..NPorts /\ \A k \in Clocks : ~(k > c)
      BY <2>2, <2>3
    <2>5. /\ node' \in NodeRecord
          /\ node'.port = node.port /\ node'.clock = node.clock /\ node'.new = node.new
          /\ node'.rt = node.rt /\ node'.rtServo = node.rtServo
      BY <1>1, <2>1 DEF NodeRecord
    <2>6. Pending(node')
      <3>1. \A k : Computed(node', k) = Computed(node, k)
        BY <2>5, SamePorts
      <3> QED  BY <1>3, <2>5, <3>1 DEF Pending
    <2>7. Reckoned(pc', at', node') /\ InLoop(pc', at')
      BY <2>1, <2>2, <2>4, <2>6 DEF Reckoned, Idle, InLoop, AtClock
    <2>8. ServoKept(node')
      BY <1>1, <2>5 DEF ServoKept
    <2> QED  BY <1>2, <2>1, <2>4, <2>5, <2>7, <2>8 DEF Landed, Goes
  <1> QED  BY <1>4, <1>5

\* A clock takes its new state.
LEMMA NewStateFacts ==
  ASSUME conf \in Configs, NEW nd \in NodeRecord, NEW c \in Clocks,
         \A n \in PortNums : nd.port[n] # NULL, Pending(nd), nd.new[c] # NULL
  PROVE  LET b == NewState(nd, c)
         IN /\ b \in NodeRecord /\ b.port = nd.port /\ b.changed = nd.changed /\ b.rt = nd.rt
            /\ b.rtServo = nd.rtServo /\ Pending(b)
            /\ \A k \in PortNums : b.new[k] = IF k = c THEN NULL ELSE nd.new[k]
  <1> DEFINE s == nd.new[c]
             clock == [nd.clock EXCEPT ![c] = s]
             new == [nd.new EXCEPT ![c] = NULL]
             b == [nd EXCEPT !.clock = clock, !.new = new]
  <1>1. nd.clock \in PortMap /\ nd.new \in PortMap /\ Clocks \subseteq PortNums /\ c \in PortNums
    BY ConfFacts DEF NodeRecord
  <1>2. s \in Norm \cup {NULL} /\ s = Computed(nd, c)
    BY <1>1 DEF PortMap, Pending
  <1>3. NewState(nd, c) = b
    BY DEF NewState, NodeRecord
  <1> HIDE DEF s
  <1>4. /\ clock \in PortMap /\ new \in PortMap
        /\ \A k \in PortNums : clock[k] = IF k = c THEN s ELSE nd.clock[k]
        /\ \A k \in PortNums : new[k] = IF k = c THEN NULL ELSE nd.new[k]
    BY <1>1, <1>2 DEF PortMap
  <1> HIDE DEF clock, new
  <1>5. /\ b \in NodeRecord /\ b.port = nd.port /\ b.changed = nd.changed /\ b.rt = nd.rt
        /\ b.rtServo = nd.rtServo /\ b.clock = clock /\ b.new = new
    BY <1>4 DEF NodeRecord
  <1> HIDE DEF b
  <1>6. \A k : Computed(b, k) = Computed(nd, k)
    BY <1>5, SamePorts
  <1>7. Pending(b)
    BY <1>1, <1>2, <1>4, <1>5, <1>6 DEF Pending
  <1> QED  BY <1>3, <1>4, <1>5, <1>7

\* What an answer about a port says is known already.
LEMMA ReinitReturn ==
  ASSUME IInv, NEW m, Return(m), pc = "reinit",
         m # NULL => node.port[at] = normalize_state(m.state)
  PROVE  Landed(m) /\ Goes(m)
  <1> DEFINE b == WithState(node, m)
             c == conf.clock[at]
             n == Before(PortsOf(c), at)
  <1>1. /\ node \in NodeRecord /\ conf \in Configs /\ ServoKept(node) /\ at \in PortNums
        /\ Reckoned(pc, at, node)
    BY DEF IInv, Typed, InLoop
  <1>2. \A k \in PortNums : node.port[k] # NULL
    BY DEF IInv, Acquainted, Running
  <1>3. /\ b \in NodeRecord /\ SamePlan(node, b) /\ b.new = node.new /\ b.changed = node.changed
        /\ b.port = node.port
    <2>1. /\ b \in NodeRecord /\ SamePlan(node, b) /\ b.new = node.new /\ b.changed = node.changed
          /\ m = NULL => b = node
          /\ m # NULL => \A k \in PortNums : b.port[k] = IF k = at THEN normalize_state(m.state)
                                                        ELSE node.port[k]
      BY <1>1, WithStateFacts
    <2> HIDE DEF b
    <2>2. \A k \in PortNums : b.port[k] = node.port[k]
      BY <2>1
    <2>3. b.port \in PortMap /\ node.port \in PortMap
      BY <1>1, <2>1 DEF NodeRecord
    <2>4. b.port = node.port
      BY <2>2, <2>3 DEF PortMap
    <2> QED  BY <2>1, <2>4
  <1>4. IF n # 0 THEN Goto("reinit", n, b) ELSE NextClock(NewState(b, c), c)
    BY DEF Return
  <1>5. c \in Clocks /\ PortsOf(c) \in SUBSET PortNums
    BY <1>1, ConfFacts
  <1>6. n = 0 \/ n \in PortsOf(c)
    BY <1>1, <1>5, BeforeFacts
  <1> HIDE DEF b, n
  <1>7. /\ Pending(b) /\ b.new[c] # NULL
        /\ ~b.changed => \A k \in Clocks : k > c => b.new[k] = NULL
    <2>1. Reckoned("reinit", at, b)
      BY <1>1, <1>3, SameReckoning DEF SamePlan
    <2> QED  BY <2>1 DEF Reckoned, Running, AtClock
  <1>8. ServoKept(b)
    BY <1>1, <1>3 DEF ServoKept, SamePlan
  <1>9. CASE n # 0
    <2>1. pc' = "reinit" /\ at' = n /\ node' = b
      BY <1>4, <1>9 DEF Goto
    <2>2. n \in PortNums /\ conf.clock[n] = c
      BY <1>6, <1>9 DEF PortsOf
    <2>3. n \in 0..NPorts
      BY <1>1, <2>2, ConfFacts
    <2> HIDE DEF c
    <2>4. Reckoned("reinit", n, b) /\ InLoop("reinit", n)
      BY <1>7, <2>2 DEF Reckoned, Idle, InLoop, AtClock
    <2> QED  BY <1>2, <1>3, <1>8, <2>1, <2>3, <2>4 DEF Landed, Goes
  <1>10. CASE n = 0
    <2> HIDE DEF c
    <2> DEFINE d == NewState(b, c)
    <2>1. NextClock(d, c)
      BY <1>4, <1>10
    <2>2. /\ d \in NodeRecord /\ d.port = b.port /\ d.changed = b.changed /\ d.rt = b.rt
          /\ d.rtServo = b.rtServo /\ Pending(d)
          /\ \A k \in PortNums : d.new[k] = IF k = c THEN NULL ELSE b.new[k]
      BY <1>1, <1>2, <1>3, <1>5, <1>7, NewStateFacts
    <2> HIDE DEF d
    <2>3. ServoKept(d) /\ \A k \in PortNums : d.port[k] # NULL
      BY <1>2, <1>3, <1>8, <2>2 DEF ServoKept
    <2>4. d.new[c] = NULL /\ (~d.changed => \A k \in Clocks : k > c => d.new[k] = NULL)
      <3>1. Clocks \subseteq PortNums
        BY <1>1, ConfFacts
      <3> QED  BY <1>5, <1>7, <2>2, <3>1
    <2>5. /\ node' \in NodeRecord /\ at' \in 0..NPorts /\ pc' \in {"sync", "reconfigure"}
          /\ InLoop(pc', at') /\ Reckoned(pc', at', node') /\ ServoKept(node')
          /\ node'.port = d.port
      BY <1>1, <1>5, <2>1, <2>2, <2>3, <2>4, NextClockFacts
    <2> QED  BY <1>2, <1>3, <2>2, <2>5 DEF Landed, Goes
  <1> QED  BY <1>9, <1>10

\* run_pmc returns, to wherever it was called.
LEMMA Returns ==
  ASSUME IInv, NEW m, Return(m), pc \in Calls,
         pc = "reinit" /\ m # NULL => node.port[at] = normalize_state(m.state)
  PROVE  Landed(m) /\ Goes(m)
  <1>1. CASE pc \in {"init_identity", "init_number", "init_subscribe"}
    BY <1>1, EarlyReturn
  <1>2. CASE pc = "init_port"
    BY <1>2, PortReturn
  <1>3. CASE pc \in {"init_offset", "subscribe", "offset", "events"}
    BY <1>3, LoopReturn
  <1>4. CASE pc = "force"
    BY <1>4, ForceReturn
  <1>5. CASE pc = "reinit"
    BY <1>5, ReinitReturn
  <1> QED  BY <1>1, <1>2, <1>3, <1>4, <1>5 DEF Calls

\* The invariant after a call.  One that asks for a subscription returns with the
\* answer, or has asked; the last one has read everything.
LEMMA Landing ==
  ASSUME IInv, pc \in Calls, NEW m, Landed(m), Goes(m),
         UNCHANGED <<conf, real, sub, toPtp, woke>>, asked' = FALSE,
         toNode' \in Seq(Answers), HasSub(toNode') => HasSub(toNode),
         Informed(toNode', node'.port, real),
         sub = 0 => \A i \in 1..Len(toNode'), n \in PortNums :
                      ~News(toNode'[i], n) /\ ~Told(toNode'[i], n),
         pc \in {"subscribe", "init_subscribe"} /\ m # NULL => HasSub(toNode),
         pc = "subscribe" /\ m = NULL => asked,
         pc = "events" => ~HasSub(toNode')
  PROVE  IInv'
  <1>1. /\ conf \in Configs /\ real \in [PortNums -> States] /\ node \in NodeRecord
        /\ toPtp \in Seq(Requests) /\ woke \in BOOLEAN
        /\ sub \in 0..PMC_SUBSCRIBE_DURATION
        /\ pc \in Early \cup {"init_port", "init_offset"} \cup Running
    BY DEF IInv, Typed
  <1>2. woke /\ Subscribed /\ Acquainted
    BY DEF IInv, Subscribed, Calls
  <1>3. pc' \in Early \cup {"init_port", "init_offset"} \cup Running
    BY DEF Goes, Early, Running
  <1>4. Subscribed'
    <2>1. CASE pc \in Early /\ pc' \in Early
      BY <1>2, <2>1 DEF Subscribed, Early, Running, Hasty
    <2>2. CASE pc = "init_subscribe" /\ m # NULL /\ pc' = "init_port"
      BY <1>2, <2>2 DEF Subscribed, Running, Hasty
    <2>3. CASE pc \in {"init_port", "init_offset"} /\ pc' \in {"exit", "init_port", "init_offset", "sleep"}
      BY <1>2, <2>3 DEF Subscribed, Running, Hasty
    <2>4. CASE pc = "subscribe" /\ pc' = "offset"
      BY <1>2, <2>4 DEF Subscribed, Running, Hasty
    <2>5. CASE pc = "offset" /\ pc' = "events"
      BY <1>2, <2>5 DEF Subscribed, Running, Hasty
    <2>6. CASE pc = "events" /\ pc' \in {"force", "sync"}
      BY <1>2, <2>6 DEF Subscribed, Running, Hasty
    <2>7. CASE pc \in {"force", "reinit"} /\ pc' \in {"sleep", "reconfigure", "reinit", "sync"}
      BY <1>2, <2>7, RunOn DEF Running, Hasty
    <2> QED  BY <2>1, <2>2, <2>3, <2>4, <2>5, <2>6, <2>7 DEF Goes
  <1>5. Acquainted'
    <2>1. CASE sub = 0
      <3>1. /\ pc \in Early /\ \A n \in PortNums : node.port[n] = NULL
            /\ \A i \in 1..Len(toPtp) : toPtp[i].kind # "PORT_PROPERTIES"
        BY <1>2, <2>1 DEF Acquainted
      <3>2. pc' \in Early
        BY <1>2, <2>1, <3>1 DEF Goes, Early, Subscribed, Hasty
      <3>3. \A n \in PortNums : node'.port[n] = NULL
        BY <3>1 DEF Landed, Early
      <3> QED  BY <2>1, <3>1, <3>2, <3>3 DEF Acquainted, Early, Running
    <2>2. CASE sub # 0
      BY <2>2 DEF Acquainted, Landed
    <2> QED  BY <2>1, <2>2
  <1> QED  BY <1>1, <1>3, <1>4, <1>5, Parts DEF Landed

\* What each call waits for.
LEMMA WantedFacts ==
  ASSUME pc \in Calls, NEW m \in Answers, IsAnswer(m)
  PROVE  /\ \A n : ~News(m, n)
         /\ pc \in {"init_port", "reinit"} => Told(m, at)
         /\ pc \in {"subscribe", "init_subscribe"} => m = SUB
         /\ pc # "events"
  <1>1. Wanted # NULL /\ m.kind = Wanted.kind /\ m.port = Wanted.port
    BY DEF IsAnswer
  <1>2. CASE pc \in {"init_identity", "init_number"}
    BY <1>1, <1>2 DEF Wanted, DEFAULT, Msg, News
  <1>3. CASE pc \in {"init_subscribe", "subscribe"}
    BY <1>1, <1>3, OfPorts DEF Wanted, SUB, Msg, News
  <1>4. CASE pc \in {"init_port", "reinit"}
    BY <1>1, <1>4 DEF Wanted, Properties, Msg, News, Told
  <1>5. CASE pc \in {"init_offset", "offset", "force"}
    BY <1>1, <1>5 DEF Wanted, TIME, Msg, News
  <1>6. CASE pc = "events"
    BY <1>1, <1>6 DEF Wanted
  <1> QED  BY <1>2, <1>3, <1>4, <1>5, <1>6 DEF Calls

\* The answer waited for is read (run_pmc).
LEMMA ReadAnswerStep ==
  ASSUME IInv, ReadAnswer
  PROVE  IInv'
  <1> DEFINE m == Head(toNode)
  <1>1. /\ toNode \in Seq(Answers) /\ at \in 0..NPorts /\ Informed(toNode, node.port, real)
    BY DEF IInv, Typed
  <1>2. /\ pc \in Calls /\ toNode # <<>> /\ IsAnswer(m) /\ Return(m)
        /\ toNode' = Tail(toNode) /\ asked' = FALSE
        /\ UNCHANGED <<conf, real, sub, toPtp, woke>>
    BY DEF ReadAnswer
  <1>3. /\ m \in Answers /\ toNode' \in Seq(Answers) /\ m = toNode[1] /\ Len(toNode') = Len(toNode) - 1
        /\ Len(toNode) \in Nat /\ Len(toNode) >= 1
        /\ \A i \in 1..Len(toNode') : toNode'[i] = toNode[i + 1]
    BY <1>1, <1>2, TailFacts
  <1>4. HasSub(toNode) <=> HasSub(toNode') \/ m = SUB
    BY <1>1, <1>2, SubFacts
  <1> HIDE DEF m
  <1>5. /\ \A n : ~News(m, n)
        /\ pc \in {"init_port", "reinit"} => Told(m, at)
        /\ pc \in {"subscribe", "init_subscribe"} => m = SUB
        /\ pc # "events"
    BY <1>2, <1>3, WantedFacts
  <1>6. pc = "reinit" => node.port[at] = normalize_state(m.state)
    <2> SUFFICES ASSUME pc = "reinit" PROVE node.port[at] = normalize_state(m.state)
      OBVIOUS
    <2>1. at \in PortNums /\ node.port[at] # NULL
      BY DEF IInv, InLoop, Acquainted, Running
    <2>2. 1 \in 1..Len(toNode) /\ Told(toNode[1], at) /\ \A k \in 1..Len(toNode) : ~(k < 1)
      BY <1>3, <1>5
    <2> QED  BY <1>1, <1>3, <2>1, <2>2 DEF Informed, NextAnswer
  <1>7. Landed(m) /\ Goes(m)
    BY <1>2, <1>6, Returns
  <1>8. Informed(toNode', node'.port, real)
    <2>1. \A n \in PortNums :
            \/ node'.port[n] = node.port[n] /\ ~News(m, n)
            \/ (News(m, n) \/ Told(m, n)) /\ node'.port[n] = normalize_state(m.state)
      BY <1>5, <1>7 DEF Landed
    <2> QED  BY <1>1, <1>2, <2>1, MessageRead DEF m
  <1>9. sub = 0 => \A i \in 1..Len(toNode'), n \in PortNums :
                     ~News(toNode'[i], n) /\ ~Told(toNode'[i], n)
    <2> SUFFICES ASSUME sub = 0, NEW i \in 1..Len(toNode')
                 PROVE  \A n \in PortNums : ~News(toNode'[i], n) /\ ~Told(toNode'[i], n)
      OBVIOUS
    <2>1. i + 1 \in 1..Len(toNode)
      BY <1>3
    <2> QED  BY <1>3, <2>1 DEF IInv, Acquainted
  <1>10. SUB # NULL
    BY Phc2sysAssumption
  <1>11. pc = "subscribe" => m # NULL
    BY <1>5, <1>10
  <1> QED  BY <1>2, <1>3, <1>4, <1>5, <1>7, <1>8, <1>9, <1>11, Landing

\* No answer came in time (run_pmc).
LEMMA GiveUpStep ==
  ASSUME IInv, GiveUp
  PROVE  IInv'
  <1>1. toNode \in Seq(Answers) /\ Informed(toNode, node.port, real)
    BY DEF IInv, Typed
  <1>2. /\ pc \in Calls /\ toNode = <<>> /\ (asked \/ Wanted = NULL) /\ Return(NULL)
        /\ asked' = FALSE /\ UNCHANGED <<conf, real, sub, toNode, toPtp, woke>>
    BY DEF GiveUp
  <1>3. pc = "subscribe" => asked
    <2>1. SUB # NULL
      BY Phc2sysAssumption
    <2> QED  BY <1>2, <2>1 DEF Wanted
  <1>4. ~HasSub(toNode')
    BY <1>1, <1>2, SubFacts
  <1>5. Landed(NULL) /\ Goes(NULL)
    BY <1>2, Returns
  <1>6. \A n \in PortNums : node'.port[n] = node.port[n]
    BY <1>5 DEF Landed
  <1>7. Informed(toNode', node'.port, real)
    BY <1>1, <1>2, <1>6 DEF Informed, NextAnswer, NoNews
  <1>8. Len(toNode') = 0
    BY <1>2
  <1>9. \A i \in 1..Len(toNode') : FALSE
    BY <1>8
  <1> QED  BY <1>1, <1>2, <1>3, <1>4, <1>5, <1>7, <1>9, Landing

-----------------------------------------------------------------------------
(* The theorems.                                                           *)

\* phc2sys starts.
LEMMA InitOK == Init => IInv
  <1> SUFFICES ASSUME Init PROVE IInv
    OBVIOUS
  <1> DEFINE none == [n \in PortNums |-> NULL]
             one == 1
  <1>1. conf \in Configs /\ real = conf.start
    BY DEF Init
  <1>2. real \in [PortNums -> States]
    <2>1. conf.start = [n \in PortNums |-> conf.start[n]]
      BY <1>1, Phc2sysAssumption
    <2>2. \A n \in PortNums : conf.start[n] \in States
      BY DEF States
    <2> QED  BY <1>1, <2>1, <2>2
  <1>3. none \in PortMap /\ \A n \in PortNums : none[n] = NULL
    BY DEF PortMap
  <1>4. one \in Nat
    OBVIOUS
  <1>5. node = [port |-> none, clock |-> none, new |-> none, changed |-> FALSE, master |-> NULL,
                rt |-> NULL, rtServo |-> "fresh", age |-> one]
    BY DEF Init
  <1> HIDE DEF none, one
  <1>6. node \in NodeRecord /\ node.port = none /\ ServoKept(node)
    BY <1>3, <1>4, <1>5 DEF NodeRecord, ServoKept
  <1>7. toNode = <<>> /\ toPtp = <<>> /\ Len(toNode) = 0 /\ Len(toPtp) = 0
        /\ sub = 0 /\ at = 1 /\ asked = FALSE /\ woke = TRUE /\ pc = "init_identity"
    BY DEF Init
  <1>8. toNode \in Seq(Answers) /\ toPtp \in Seq(Requests) /\ ~HasSub(toNode)
    BY <1>7 DEF HasSub
  <1>9. at \in 0..NPorts
    BY <1>1, <1>7, ConfFacts
  <1>10. pc \in Early /\ pc \notin Running /\ pc \notin Idle
    BY <1>7 DEF Early, Running, Idle
  <1>11. Typed
    <2>1. sub \in 0..PMC_SUBSCRIBE_DURATION
      BY <1>7 DEF PMC_SUBSCRIBE_DURATION
    <2>2. asked \in BOOLEAN /\ woke \in BOOLEAN
      BY <1>7, Zenon
    <2>3. pc \in Early \cup {"init_port", "init_offset"} \cup Running
      BY <1>10, Zenon
    <2> QED  BY <1>1, <1>2, <1>6, <1>8, <1>9, <2>1, <2>2, <2>3, Zenon DEF Typed
  <1>12. InLoop(pc, at) /\ Reckoned(pc, at, node)
    BY <1>7, <1>10 DEF InLoop, Reckoned
  <1>13. Subscribed
    BY <1>7, <1>8, <1>10 DEF Subscribed
  <1>14. Informed(toNode, node.port, real) /\ Acquainted
    <2>1. \A i \in 1..Len(toNode) : FALSE
      BY <1>7
    <2>2. \A i \in 1..Len(toPtp) : FALSE
      BY <1>7
    <2>3. \A n \in PortNums : node.port[n] = NULL
      BY <1>3, <1>6
    <2> QED  BY <1>7, <1>10, <2>1, <2>2, <2>3, Silent DEF Acquainted
  <1> QED  BY <1>6, <1>11, <1>12, <1>13, <1>14 DEF IInv

\* The inductive invariant (run_pmc, recv_subscribed, reconfigure, update_pmc):
\* answers that wait tell how young the subscription is; a queue from ptp4l ends
\* in how things are; a clock has the state its ports give it, or is about to get
\* it; and without a pending change the decision was made about these states.
THEOREM Invariant == Spec => []IInv
  <1>1. IInv /\ [Next]_vars => IInv'
    <2> SUFFICES ASSUME IInv, [Next]_vars PROVE IInv'
      OBVIOUS
    <2>1. ASSUME NEW n \in PortNums, NEW s \in PortStates, Change(n, s) PROVE IInv'
      BY <2>1, ChangeStep
    <2>2. CASE Serve
      BY <2>2, ServeStep
    <2>3. CASE Tick
      BY <2>3, TickStep
    <2>4. CASE ReadOther
      BY <2>4, ReadOtherStep
    <2>5. CASE ReadAnswer
      BY <2>5, ReadAnswerStep
    <2>6. CASE Ask
      BY <2>6, AskStep
    <2>7. CASE GiveUp
      BY <2>7, GiveUpStep
    <2>8. CASE Reconfigure
      BY <2>8, ReconfigureStep
    <2>9. CASE Wake
      BY <2>9, WakeStep
    <2>10. CASE Synchronize
      BY <2>10, SynchronizeStep
    <2>11. CASE UNCHANGED vars
      <3>1. UNCHANGED <<conf, real, sub, toNode, toPtp, pc, asked, at, node, woke>>
        BY <2>11 DEF vars
      <3>2. Subscribed' /\ Acquainted'
        BY <3>1 DEF IInv, Subscribed, Acquainted
      <3> QED  BY <3>1, <3>2, Parts DEF IInv, Typed
    <2> QED  BY <2>1, <2>2, <2>3, <2>4, <2>5, <2>6, <2>7, <2>8, <2>9, <2>10, <2>11
             DEF Next, Phc2sysStep, RunPmc
  <1> QED  BY <1>1, InitOK, PTL DEF Spec

\* SubscriptionKept: however often ptp4l is late and answers stay unread, the
\* subscription never runs out once phc2sys is up (update_pmc).
THEOREM KeepsSubscription == Spec => []SubscriptionKept
  <1>1. IInv => SubscriptionKept
    <2> SUFFICES ASSUME IInv PROVE SubscriptionKept
      OBVIOUS
    <2>1. at \in 0..NPorts /\ sub \in 0..PMC_SUBSCRIBE_DURATION /\ node \in NodeRecord /\ conf \in Configs
      BY DEF IInv, Typed
    <2>2. at \in 0..(NPorts + 1)
      BY <2>1, ConfFacts
    <2>3. TypeOK
      BY <2>1, <2>2 DEF TypeOK, NodeRecord, PortMap
    <2>4. pc \in Running => sub > 0
      BY <2>1 DEF IInv, Subscribed, PMC_SUBSCRIBE_DURATION
    <2> QED  BY <2>3, <2>4 DEF SubscriptionKept
  <1> QED  BY <1>1, Invariant, PTL

\* RightClocks: when everything is read and no change is pending, the time comes
\* from the clock that the port states as they are call for, and no clock is
\* steered that ptp4l steers (recv_subscribed, clock_reinit, reconfigure, do_loop).
THEOREM ClocksRight == Spec => []RightClocks
  <1>1. IInv => RightClocks
    <2> SUFFICES ASSUME IInv PROVE RightClocks
      OBVIOUS
    <2>1. node \in NodeRecord /\ conf \in Configs /\ real \in [PortNums -> States]
      BY DEF IInv, Typed
    <2>2. ASSUME pc \in {"sync", "sleep"}, toNode = <<>>, ~node.changed
          PROVE  /\ \A n \in PortNums : node.port[n] = normalize_state(real[n]) /\ node.port[n] # NULL
                 /\ Decided(node)
      <3>1. \A n \in PortNums : node.port[n] # NULL
        BY <2>2 DEF IInv, Acquainted, Running
      <3>2. Len(toNode) = 0
        BY <2>2
      <3>3. \A i \in 1..Len(toNode) : FALSE
        BY <3>2
      <3>4. \A n \in PortNums : node.port[n] = normalize_state(real[n])
        BY <3>1, <3>3 DEF IInv, Informed, NoNews
      <3>5. Decided(node)
        BY <2>2 DEF IInv, Reckoned, Idle
      <3> QED  BY <3>1, <3>4, <3>5
    <2>3. UpToDate
      <3> SUFFICES ASSUME pc = "sleep", toNode = <<>>, ~node.changed
                   PROVE  node.master = Decide(RealNode).master
        BY DEF UpToDate
      <3> DEFINE p == [n \in PortNums |-> normalize_state(real[n])]
                 known == [node EXCEPT !.port = p]
                 clock == [n \in PortNums |-> Computed(known, conf.clock[n])]
                 ideal == [node EXCEPT !.clock = clock]
      <3>1. RealNode = ideal
        BY DEF RealNode, Computed
      <3>2. p = node.port
        <4>1. node.port \in PortMap
          BY <2>1 DEF NodeRecord
        <4> QED  BY <2>2, <4>1 DEF PortMap
      <3> HIDE DEF p
      <3>3. known.port = node.port
        BY <2>1, <3>2 DEF NodeRecord
      <3> HIDE DEF known
      <3>4. \A c : Computed(known, c) = Computed(node, c)
        BY <3>3, SamePorts
      <3>5. \A n \in PortNums : Computed(node, conf.clock[n]) \in Norm
        BY <2>1, <2>2, KnownClock, ConfFacts
      <3>6. clock \in PortMap /\ \A n \in PortNums : clock[n] = Computed(node, conf.clock[n])
        BY <3>4, <3>5 DEF PortMap
      <3> HIDE DEF clock
      <3>7. ideal \in NodeRecord /\ ideal.clock = clock
        BY <2>1, <3>6 DEF NodeRecord
      <3> HIDE DEF ideal
      <3>8. \A c \in Clocks : ideal.clock[c] = Computed(node, c)
        BY <2>1, <3>6, <3>7, ConfFacts
      <3>9. Sources(ideal) = Followers(node) /\ Unready(ideal) = Waiting(node)
        BY <3>8 DEF Sources, Followers, Unready, Waiting
      <3>10. Decide(ideal).master = MasterOf(Sources(ideal), Unready(ideal))
        BY <2>1, <3>7, DecideFacts
      <3>11. node.master = MasterOf(Followers(node), Waiting(node))
        BY <2>2 DEF Decided
      <3> QED  BY <3>1, <3>9, <3>10, <3>11
    <2>4. OneDiscipline
      <3> SUFFICES ASSUME pc \in {"sync", "sleep"}, toNode = <<>>, ~node.changed,
                          NEW n \in PortNums, real[n] \in {"SLAVE", "UNCALIBRATED"},
                          conf.clock[n] \in Steered
                   PROVE  FALSE
        BY DEF OneDiscipline
      <3> DEFINE c == conf.clock[n]
      <3>1. c \in Clocks /\ c \in PortNums /\ n \in PortsOf(c)
        BY <2>1, ConfFacts
      <3>2. RT \notin PortNums
        BY Phc2sysAssumption
      <3>3. update_needed(node.clock[c])
        BY <3>1, <3>2 DEF Steered
      <3>4. node.clock[c] \in {Computed(node, c), "SLAVE"}
        BY <2>2, <3>1 DEF Decided
      <3>5. node.port[n] \in {"SLAVE", "UNCALIBRATED"} /\ node.port[n] # NULL
        BY <2>2 DEF normalize_state
      <3>6. node.port \in PortMap
        BY <2>1 DEF NodeRecord
      <3> HIDE DEF c
      <3>7. Computed(node, c) \in Norm /\ Below(node.port[n], Computed(node, c))
        BY <3>1, <3>5, <3>6, ComputedFacts
      <3>8. Computed(node, c) \in {"SLAVE", "UNCALIBRATED"}
        BY <3>5, <3>7, BelowFacts DEF Norm
      <3> QED  BY <3>3, <3>4, <3>8 DEF update_needed
    <2> QED  BY <2>3, <2>4 DEF RightClocks
  <1> QED  BY <1>1, Invariant, PTL

\* RtServoFresh: a system clock that was a source is steered by a servo that starts
\* anew (reconfigure, clock_reinit).
THEOREM ServoFresh == Spec => []RtServoFresh
  <1>1. IInv => RtServoFresh
    <2> SUFFICES ASSUME IInv, RT \in Steered PROVE node.rtServo # "outdated"
      BY DEF RtServoFresh
    <2>1. RT \notin Clocks
      BY ConfFacts, Phc2sysAssumption DEF IInv, Typed
    <2>2. update_needed(node.rt)
      BY <2>1 DEF Steered
    <2> QED  BY <2>2 DEF IInv, ServoKept, update_needed
  <1> QED  BY <1>1, Invariant, PTL
=============================================================================
