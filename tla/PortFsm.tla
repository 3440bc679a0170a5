------------------------------ MODULE PortFsm ------------------------------
(***************************************************************************)
(* The finite state machines of a PTP port (fsm.c): ptp_fsm for an         *)
(* ordinary or boundary clock and ptp_slave_fsm for a slave only clock.    *)
(* States and events keep the names of the enumerations of fsm.h without   *)
(* their PS_ and EV_ prefixes.                                             *)
(***************************************************************************)

States == {"INITIALIZING", "FAULTY", "DISABLED", "LISTENING", "PRE_MASTER",
           "MASTER", "PASSIVE", "UNCALIBRATED", "SLAVE", "GRAND_MASTER"}

Events == {"NONE", "POWERUP", "INITIALIZE", "DESIGNATED_ENABLED",
           "DESIGNATED_DISABLED", "FAULT_CLEARED", "FAULT_DETECTED",
           "STATE_DECISION_EVENT", "QUALIFICATION_TIMEOUT_EXPIRES",
           "ANNOUNCE_RECEIPT_TIMEOUT_EXPIRES", "SYNCHRONIZATION_FAULT",
           "MASTER_CLOCK_SELECTED", "INIT_COMPLETE", "RS_MASTER",
           "RS_GRAND_MASTER", "RS_SLAVE", "RS_PASSIVE"}

\* port_is_enabled: the port's transport and timers are open.
Enabled == States \ {"INITIALIZING", "FAULTY", "DISABLED"}

\* The port follows a master, calibrated or not.
Slaving == {"UNCALIBRATED", "SLAVE"}

\* The port sends Announce and Sync.
Mastering == {"MASTER", "GRAND_MASTER"}

\* The part both machines share: initialisation, faults and administration.
CommonFsm(s, e) ==
  CASE e \in {"INITIALIZE", "POWERUP"} -> "INITIALIZING"
    [] s = "INITIALIZING" /\ e = "FAULT_DETECTED" -> "FAULTY"
    [] s = "INITIALIZING" /\ e = "INIT_COMPLETE" -> "LISTENING"
    [] s = "FAULTY" /\ e = "DESIGNATED_DISABLED" -> "DISABLED"
    [] s = "FAULTY" /\ e = "FAULT_CLEARED" -> "INITIALIZING"
    [] s = "DISABLED" /\ e = "DESIGNATED_ENABLED" -> "INITIALIZING"
    [] s \in Enabled /\ e = "DESIGNATED_DISABLED" -> "DISABLED"
    [] s \in Enabled /\ e = "FAULT_DETECTED" -> "FAULTY"
    [] OTHER -> s

\* The events both machines treat alike in every state.
CommonEvents == {"INITIALIZE", "POWERUP", "FAULT_DETECTED", "INIT_COMPLETE",
                 "DESIGNATED_DISABLED", "FAULT_CLEARED", "DESIGNATED_ENABLED"}

ptp_fsm(s, e, mdiff) ==
  CASE e \in CommonEvents -> CommonFsm(s, e)
    [] s \in {"LISTENING", "PASSIVE"} \cup Slaving
         /\ e = "ANNOUNCE_RECEIPT_TIMEOUT_EXPIRES" -> "MASTER"
    [] s \in {"LISTENING", "PASSIVE"} \cup Slaving
         /\ e = "RS_MASTER" -> "PRE_MASTER"
    [] s \in {"LISTENING", "PASSIVE"} \cup Slaving
         /\ e = "RS_GRAND_MASTER" -> "GRAND_MASTER"
    [] s = "PRE_MASTER" /\ e = "QUALIFICATION_TIMEOUT_EXPIRES" -> "MASTER"
    [] s \in Enabled \ {"SLAVE"} /\ e = "RS_SLAVE" -> "UNCALIBRATED"
    [] s = "SLAVE" /\ e = "RS_SLAVE" /\ mdiff -> "UNCALIBRATED"
    [] s \in Enabled /\ e = "RS_PASSIVE" -> "PASSIVE"
    [] s = "UNCALIBRATED" /\ e = "MASTER_CLOCK_SELECTED" -> "SLAVE"
    [] s = "SLAVE" /\ e = "SYNCHRONIZATION_FAULT" -> "UNCALIBRATED"
    [] OTHER -> s

\* The states the slave only machine has cases for (its default ignores the rest).
SlaveOnlyEnabled == {"LISTENING"} \cup Slaving

ptp_slave_fsm(s, e, mdiff) ==
  CASE e \in {"INITIALIZE", "POWERUP"} -> "INITIALIZING"
    [] s \in Enabled \ SlaveOnlyEnabled -> s
    [] e \in CommonEvents -> CommonFsm(s, e)
    [] s \in SlaveOnlyEnabled
         /\ e \in {"ANNOUNCE_RECEIPT_TIMEOUT_EXPIRES", "RS_MASTER",
                   "RS_GRAND_MASTER", "RS_PASSIVE"} -> "LISTENING"
    [] s = "LISTENING" /\ e = "RS_SLAVE" -> "UNCALIBRATED"
    [] s = "UNCALIBRATED" /\ e = "MASTER_CLOCK_SELECTED" -> "SLAVE"
    [] s = "SLAVE" /\ e = "SYNCHRONIZATION_FAULT" -> "UNCALIBRATED"
    [] s = "SLAVE" /\ e = "RS_SLAVE" /\ mdiff -> "UNCALIBRATED"
    [] OTHER -> s
=============================================================================
