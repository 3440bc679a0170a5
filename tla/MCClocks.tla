------------------------------ MODULE MCClocks ------------------------------
(* A clock at a leap second, a transparent clock, and the algorithms ptp4l rests on: *)
(* a behaviour exercises one of them and leaves the others as they are.              *)
EXTENDS LeapSecond, Algorithms

CONSTANT MayFail       \* see TransparentClock

-----------------------------------------------------------------------------
(* The leap second                                                             *)

\* A day of fourteen seconds; the flag is set in its second half and cleared between
\* two seconds before midnight and a second after it, the leap second not counted.
MCConfigs ==
  {c \in [user : {"ptp4l", "phc2sys"}, kernel_leap : BOOLEAN, leap : {-1, 1},
          traceable : BOOLEAN, toUtc : BOOLEAN, steps : BOOLEAN] :
     /\ c.toUtc \/ c.user = "phc2sys"
     /\ ~c.toUtc => ~c.steps /\ ~c.kernel_leap}

-----------------------------------------------------------------------------
(* The algorithms: two grandmasters over up to two steps, two neighbours and   *)
(* two ports; samples of both signs; timers from less than a nanosecond to an  *)
(* hour; the usual kernels.                                                    *)

\* Grandmaster 4 has the better priority1, grandmaster 1 the better identity.
\* Neighbours 2 and 4 of clock 3 announce one of them at a distance of up to two
\* steps and are heard on port 1 or port 256, which has the better localPriority and
\* whose number has the lesser low byte.
MCCandidates ==
  {[priority1 |-> IF i = 4 THEN 100 ELSE 128, clockClass |-> 248, clockAccuracy |-> 254,
    variance |-> 65535, priority2 |-> 128, identity |-> i,
    localPriority |-> IF p = 1 THEN 128 ELSE 1, stepsRemoved |-> steps,
    sender |-> [id |-> s, lo |-> 1, hi |-> 0], receiver |-> [id |-> 3, lo |-> p % 256, hi |-> p \div 256]] :
      i \in {1, 4}, steps \in 0..2, s \in {2, 4}, p \in {1, 256}}

\* Measured delays, negative ones included; statistics come in multiples of 12.
MCDelays == {-7, -2, 0, 1, 6}
MCOffsets == {-36, -12, 0, 24}

\* An interval: its exponent, the multiple or the span, and the random draw.  Below -15
\* it has no nanosecond left; from 6 on the bits of an int may not be enough.
MCIntervals == [log : -18..12, scale : 1..3, span : 1..2, random : 0..2^RandomBits - 1]
\* Kernels with USER_HZ from 64 to 1200, and a fraction of the largest frequency.
MCFrequencies == [hz : {64, 100, 250, 300, 1000, 1024, 1200}, part : -500..500]

-----------------------------------------------------------------------------
(* A transparent clock                                                         *)

Arrival(type, seq, domain) ==
  [type |-> type, oneStep |-> FALSE, src |-> "a", seq |-> seq, domain |-> domain]
OneStep(seq) == [Arrival("SYNC", seq, TRUE) EXCEPT !.oneStep = TRUE]

\* A Follow_Up and a Sync it does not belong to, a request and a response that does not
\* answer it; one message of another domain.
Arriving ==
  {Arrival(t, n, TRUE) : t \in {"SYNC", "DELAY_RESP"}, n \in {0, 1}}
    \cup {Arrival(t, 0, TRUE) : t \in {"FOLLOW_UP", "DELAY_REQ", "PDELAY"}}
    \cup {OneStep(0), Arrival("ANNOUNCE", 0, FALSE)}

ThreePorts == <<1, 2, 3>>
\* The master is behind port 1.
OneTree == {[p \in 1..3 |-> IF p = 1 THEN "RS_SLAVE" ELSE "RS_MASTER"]}
\* An end to end clock with the spanning tree, a peer to peer clock without.
TwoKinds == {<<"E2E", TRUE>>, <<"P2P", FALSE>>}

VARIABLES mech, tree, state, delay, sent, buf, out

tcVars == <<mech, tree, state, delay, sent, buf, out>>

T == INSTANCE TransparentClock WITH
  list <- sent, PortList <- ThreePorts, Messages <- Arriving, Buffers <- {1, 2},
  Configs <- TwoKinds, Recommended <- OneTree

ASSUME T!TcAssumption

-----------------------------------------------------------------------------
ClocksInit ==
  /\ Init /\ AlgorithmsInit /\ T!Init
  /\ subject = "leap second" \/ (conf = (CHOOSE c \in Configs : TRUE) /\ clk = Utc)
  /\ subject = "transparent" \/ tree

\* A bound: without the spanning tree, when messages are forwarded whatever the state of
\* a port, the third port neither fails nor becomes a master.
ClocksNext ==
  \/ /\ subject = "leap second" /\ Next
     /\ UNCHANGED <<algorithmsVars, tcVars>>
  \/ /\ subject = "transparent" /\ T!Next
     /\ tree \/ state'[3] \in {"LISTENING", "PRE_MASTER"}
     /\ UNCHANGED <<algorithmsVars, vars>>
  \/ /\ subject \notin {"leap second", "transparent"} /\ AlgorithmsNext
     /\ UNCHANGED <<vars, tcVars>>

\* The fairness is that of the leap second: the behaviours that satisfy it are its own.
ClocksSpec == ClocksInit /\ [][ClocksNext]_<<vars, algorithmsVars, tcVars>> /\ Fairness

-----------------------------------------------------------------------------
\* See TransparentClock: a buffer has the references of the lists that hold it
\* (tc_flush, tc_prune, tc_complete_syfup).
RefsExact == T!RefsExact

\* See TransparentClock: a Follow_Up or Delay_Resp leaves with the residence time of its
\* own event message (tc_complete_syfup, tc_complete_response).
RightResidence == T!RightResidence

\* See TransparentClock: what a port that is up remembers is pruned a second later
\* (e2e_dispatch, tc_prune).
WillBePruned == T!WillBePruned
=============================================================================
