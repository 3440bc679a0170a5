----------------------------- MODULE MCPhc2sys -----------------------------
(* Small instances of Phc2sys for TLC. *)
EXTENDS Phc2sys

Conf(r, c, s) == [rt |-> r, clock |-> c, start |-> s]

\* Every port has a clock of its own, or they share one.
Own == <<1, 2>>
Shared == <<1, 1>>

\* ptp4l has just started, or one port follows and the other leads.
Starting == <<"LISTENING", "LISTENING">>
Settled == <<"SLAVE", "MASTER">>

TwoPorts == {Conf("dest", Own, Starting), Conf("source", Shared, Settled), Conf("none", Shared, Settled)}
=============================================================================
