-------------------------- MODULE MCBoundaryClock --------------------------
(* Small instances of BoundaryClock for TLC. *)
EXTENDS BoundaryClock

\* Clock 3 is this clock; 1 is a grandmaster, 2 and 4 are its neighbours.
Me == 3
Pid(i, n) == [id |-> i, lo |-> n, hi |-> 0]

Ann(p1, i, steps) ==
  [priority1 |-> p1, clockClass |-> 248, clockAccuracy |-> 254, variance |-> 65535,
   priority2 |-> 128, identity |-> i, stepsRemoved |-> steps]

OwnDS(p1, class) ==
  [priority1 |-> p1, clockClass |-> class, clockAccuracy |-> 254, variance |-> 65535,
   priority2 |-> 128, identity |-> Me]

TwoSenders == {Pid(2, 1), Pid(4, 1)}
HearAll == [p \in Ports |-> Senders]
\* Port 1 hears clock 2 and port 2 hears clock 4.
HearOne == [p \in Ports |-> {Pid(IF p = 1 THEN 2 ELSE 4, 1)}]

\* Grandmaster 1 is better than this clock; it is announced at both sides of the limit.
GoodAnnounce == {Ann(100, 1, 0)}
LimitAnnounces == {Ann(100, 1, 254), Ann(100, 1, 255)}

Plain == {OwnDS(128, 248)}
PlainDS == OwnDS(128, 248)
PrimaryDS == OwnDS(128, 6)
\* Management moves the clock between class 248 and class 6.
Graded == {PlainDS, PrimaryDS}
SameLocalPriority == [p \in 0..NPorts |-> 128]

AllE2E == [p \in Ports |-> "E2E"]
AllAuto == [p \in Ports |-> "AUTO"]
AllPorts == Ports

Link(up, label, ts) == [up |-> up, label |-> label, ts |-> ts]
UpDown == {Link(TRUE, FALSE, "ok"), Link(FALSE, FALSE, "ok")}
\* Up and down, and up through another slave of the bond, which may lack the time
\* stamping modes or have a PHC that cannot be used.
BondedLinks == UpDown \cup {Link(TRUE, TRUE, "modes"), Link(TRUE, TRUE, "phc")}
=============================================================================
