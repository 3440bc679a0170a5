-------------------------------- MODULE Bmc --------------------------------
(***************************************************************************)
(* The data set comparison of the best master clock algorithm (bmc.c and   *)
(* telecom.c), the loop that keeps the best of a list of data sets, and    *)
(* the state decision of a port.  Clock identities are naturals ordered as *)
(* memcmp orders their bytes.                                              *)
(*                                                                         *)
(* Here and in BoundaryClock a definition marked "Mutation" is a variant   *)
(* of the one after it with a plausible bug; no specification uses it.  It *)
(* serves to show that a property notices the bug.                         *)
(***************************************************************************)
EXTENDS Naturals, Integers, Sequences, PortFsm

CONSTANT NULL       \* the C null pointer

\* The return values of the comparison functions (bmc.h).
A_BETTER_TOPO == 2
A_BETTER      == 1
B_BETTER      == -1
B_BETTER_TOPO == -2

\* struct PortIdentity.  The 16 bit portNumber is in host order, here as the
\* two bytes a little endian machine stores: lo first, then hi.
PortIdentity == [id : Nat, lo : 0..255, hi : 0..255]
portNumber(i) == 256 * i.hi + i.lo

\* The attributes of a grandmaster: what an Announce carries of it.
GmAttributes == [priority1 : Nat, clockClass : Nat, clockAccuracy : Nat,
                 variance : Nat, priority2 : Nat, identity : Nat]

\* struct dataset.
Dataset == [priority1 : Nat, clockClass : Nat, clockAccuracy : Nat,
            variance : Nat, priority2 : Nat, identity : Nat,
            localPriority : Nat, stepsRemoved : Nat,
            sender : PortIdentity, receiver : PortIdentity]

ASSUME NullAssumption == /\ NULL \notin Dataset
                         /\ NULL \notin PortIdentity
                         /\ NULL \notin Nat

\* memcmp(&x, &y, sizeof(struct PortIdentity)) < 0
PidLess(x, y) ==
  \/ x.id < y.id
  \/ x.id = y.id /\ x.lo < y.lo
  \/ x.id = y.id /\ x.lo = y.lo /\ x.hi < y.hi

dscmp2(a, b) ==
  LET A == a.stepsRemoved
      B == b.stepsRemoved
  IN CASE A + 1 < B -> A_BETTER
       [] B + 1 < A -> B_BETTER
       [] A < B /\ B <= A + 1 /\ PidLess(b.receiver, b.sender) -> A_BETTER
       [] A < B /\ B <= A + 1 /\ PidLess(b.sender, b.receiver) -> A_BETTER_TOPO
       [] B < A /\ A <= B + 1 /\ PidLess(a.receiver, a.sender) -> B_BETTER
       [] B < A /\ A <= B + 1 /\ PidLess(a.sender, a.receiver) -> B_BETTER_TOPO
       [] A = B /\ PidLess(a.sender, b.sender) -> A_BETTER_TOPO
       [] A = B /\ PidLess(b.sender, a.sender) -> B_BETTER_TOPO
       [] A = B /\ a.sender = b.sender
            /\ portNumber(a.receiver) < portNumber(b.receiver) -> A_BETTER_TOPO
       [] A = B /\ a.sender = b.sender
            /\ portNumber(b.receiver) < portNumber(a.receiver) -> B_BETTER_TOPO
       [] OTHER -> 0    \* error-1, error-2

\* clockClass, clockAccuracy, offsetScaledLogVariance and priority2, in this
\* order: what both comparisons have in common.
SameQuality(a, b) == /\ a.clockClass = b.clockClass
                     /\ a.clockAccuracy = b.clockAccuracy
                     /\ a.variance = b.variance
                     /\ a.priority2 = b.priority2

QualityLess(a, b) ==
  \/ a.clockClass < b.clockClass
  \/ /\ a.clockClass = b.clockClass
     /\ \/ a.clockAccuracy < b.clockAccuracy
        \/ /\ a.clockAccuracy = b.clockAccuracy
           /\ \/ a.variance < b.variance
              \/ a.variance = b.variance /\ a.priority2 < b.priority2

dscmp(a, b) ==
  CASE a = b -> 0
    [] a # b /\ b = NULL -> A_BETTER
    [] a # b /\ a = NULL -> B_BETTER
    [] OTHER ->
       IF a.identity = b.identity THEN dscmp2(a, b)
       ELSE IF \/ a.priority1 < b.priority1
               \/ /\ a.priority1 = b.priority1
                  /\ \/ QualityLess(a, b)
                     \/ SameQuality(a, b) /\ a.identity < b.identity
            THEN A_BETTER ELSE B_BETTER

telecom_dscmp(a, b) ==
  CASE a = b -> 0
    [] a # b /\ b = NULL -> A_BETTER
    [] a # b /\ a = NULL -> B_BETTER
    [] OTHER ->
       IF ~SameQuality(a, b)
       THEN IF QualityLess(a, b) THEN A_BETTER ELSE B_BETTER
       ELSE IF a.localPriority # b.localPriority
       THEN IF a.localPriority < b.localPriority THEN A_BETTER ELSE B_BETTER
       ELSE IF a.clockClass <= 127 \/ a.identity = b.identity
       THEN dscmp2(a, b)
       ELSE IF a.identity < b.identity THEN A_BETTER ELSE B_BETTER

\* The comparison the clock was configured with (c->dscmp).
clock_dscmp(telecom, a, b) == IF telecom THEN telecom_dscmp(a, b) ELSE dscmp(a, b)

\* Mutation: a master that is only topologically better is not taken.
BestUpTo_ignoring_topology(telecom, ds) ==
  LET best[i \in 0..Len(ds)] ==
        IF i = 0 THEN 0
        ELSE IF /\ ds[i] # NULL
                /\ \/ best[i - 1] = 0
                   \/ clock_dscmp(telecom, ds[i], ds[best[i - 1]]) = A_BETTER
             THEN i ELSE best[i - 1]
  IN best

\* The selection loop of port_compute_best and of handle_state_decision_event:
\* BestUpTo(telecom, ds)[i] is the index of the data set held as best after the
\* first i entries of the list, 0 if there is none; NULL entries are skipped.
BestUpTo(telecom, ds) ==
  LET best[i \in 0..Len(ds)] ==
        IF i = 0 THEN 0
        ELSE IF /\ ds[i] # NULL
                /\ \/ best[i - 1] = 0
                   \/ clock_dscmp(telecom, ds[i], ds[best[i - 1]]) > 0
             THEN i
             ELSE best[i - 1]
  IN best

\* Mutation: every better foreign master makes the port passive.
bmc_state_decision_any_better(telecom, clock_ds, clock_best, port_best, isBest, ps) ==
  CASE port_best = NULL /\ ps = "LISTENING" -> "LISTENING"
    [] OTHER ->
       IF clock_ds.clockClass <= 127
       THEN IF clock_dscmp(telecom, clock_ds, port_best) > 0 THEN "GRAND_MASTER" ELSE "PASSIVE"
       ELSE IF clock_dscmp(telecom, clock_ds, clock_best) > 0 THEN "GRAND_MASTER"
       ELSE IF isBest THEN "SLAVE"
       ELSE IF clock_dscmp(telecom, clock_best, port_best) > 0 THEN "PASSIVE"
       ELSE "MASTER"

\* The role the algorithm recommends for a port: clock_ds is the clock's own
\* data set, clock_best the best foreign one, port_best the port's own best,
\* isBest whether clock_best was received on the port.
bmc_state_decision(telecom, clock_ds, clock_best, port_best, isBest, ps) ==
  CASE port_best = NULL /\ ps = "LISTENING" -> "LISTENING"
    [] OTHER ->
       IF clock_ds.clockClass <= 127
       THEN IF clock_dscmp(telecom, clock_ds, port_best) > 0 THEN "GRAND_MASTER" ELSE "PASSIVE"
       ELSE IF clock_dscmp(telecom, clock_ds, clock_best) > 0 THEN "GRAND_MASTER"
       ELSE IF isBest THEN "SLAVE"
       ELSE IF clock_dscmp(telecom, clock_best, port_best) = A_BETTER_TOPO THEN "PASSIVE"
       ELSE "MASTER"
=============================================================================
