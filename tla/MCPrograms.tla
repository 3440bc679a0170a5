----------------------------- MODULE MCPrograms -----------------------------
(* timemaster, and the configuration of ptp4l: a behaviour is one of timemaster *)
(* or of ptp4l, which share nothing, and leaves the other's variables alone.    *)
EXTENDS Timemaster

CONSTANT Programs   \* the programs that are checked

-----------------------------------------------------------------------------
(* timemaster                                                               *)

Ntp == [type |-> "ntp", ifs |-> <<>>]
Ptp(ifs) == [type |-> "ptp", ifs |-> ifs]
Conf(sources, restart) == [sources |-> sources, first_shm |-> 0, restart |-> restart]

\* NTP servers only; a source whose two interfaces share a PHC; the same PHC in
\* two sources; an interface that cannot be used.
Sources == {
  Conf(<<Ntp>>, TRUE),
  Conf(<<Ptp(<<0, 0>>)>>, TRUE),
  Conf(<<Ptp(<<0>>)>>, FALSE),
  Conf(<<Ptp(<<0, SW>>), Ntp, Ptp(<<0>>)>>, TRUE),
  Conf(<<Ptp(<<0>>), Ptp(<<1, BAD>>)>>, TRUE) }

-----------------------------------------------------------------------------
(* ptp4l: two interfaces with PHCs of their own; the keys share two buckets. *)

Entry(port, default, legal) == [port |-> port, default |-> default, legal |-> legal]

MCItems ==
  [time_stamping |-> Entry(FALSE, "hardware", {"hardware", "software", "onestep"}),
   twoStepFlag |-> Entry(FALSE, "1", {"0", "1"}),
   clock_type |-> Entry(FALSE, "OC", {"OC", "BC", "P2P_TC", "E2E_TC"}),
   delay_mechanism |-> Entry(TRUE, "E2E", {"E2E", "P2P", "Auto"}),
   clock_servo |-> Entry(FALSE, "pi", {"pi", "ntpshm"}),
   kernel_leap |-> Entry(FALSE, "1", {"0", "1"}),
   sanity_freq_limit |-> Entry(FALSE, "200000000", {"0", "200000000"}),
   slaveOnly |-> Entry(FALSE, "0", {"0", "1"}),
   gmCapable |-> Entry(FALSE, "1", {"0", "1"}),
   free_running |-> Entry(FALSE, "0", {"0", "1"}),
   boundary_clock_jbod |-> Entry(TRUE, "0", {"0", "1"}),
   fault_reset_interval |-> Entry(TRUE, "4", {"4", "-128"}),
   step_threshold |-> Entry(FALSE, "0.0", {"0.0", "1.0"})]

MCDeprecated == [pi_offset_const |-> "step_threshold"]

\* Also an option that does not exist, a value that is not legal and one that is not
\* for ports.
MCTokens ==
  {<<"time_stamping", "onestep">>, <<"twoStepFlag", "0">>, <<"twoStepFlag", "2">>, <<"clock_type", "E2E_TC">>,
   <<"clock_type", "P2P_TC">>, <<"delay_mechanism", "P2P">>, <<"clock_servo", "ntpshm">>,
   <<"boundary_clock_jbod", "1">>, <<"fault_reset_interval", "ASAP">>, <<"fault_reset_interval", "4">>,
   <<"pi_offset_const", "1.0">>, <<"gmCapable", "0">>, <<"none", "1">>}

MCShortOptions == {<<"time_stamping", "software">>, <<"slaveOnly", "1">>}

MCPhc == [eth0 |-> "ptp0", eth1 |-> "ptp1"]

MCBucket ==
  [k \in {"global", "eth0", "eth1"} \X DOMAIN MCItems |->
     IF k[2] \in {"delay_mechanism", "boundary_clock_jbod"} THEN 1 ELSE 2]

VARIABLES program, table, ifaces, phase, section, clock, log

ptp4lVars == <<table, ifaces, phase, section, clock, log>>

C == INSTANCE Config WITH
  Items <- MCItems, Deprecated <- MCDeprecated, Tokens <- MCTokens,
  ShortOptions <- MCShortOptions, Names <- {"eth0", "eth1"}, Phc <- MCPhc,
  Bucket <- MCBucket, MaxInputs <- 3

ASSUME C!ConfigAssumption

-----------------------------------------------------------------------------
ProgramsInit ==
  /\ program \in Programs
  /\ Init /\ C!Init
  /\ program = "timemaster" \/ conf = CHOOSE c \in Configs : TRUE

ProgramsNext ==
  \/ program = "timemaster" /\ Next /\ UNCHANGED ptp4lVars /\ UNCHANGED program
  \/ program = "ptp4l" /\ C!Next /\ UNCHANGED vars /\ UNCHANGED program

\* The fairness is that of timemaster: the behaviours that satisfy it are its own.
ProgramsSpec == ProgramsInit /\ [][ProgramsNext]_<<program, vars, ptp4lVars>> /\ Fairness

-----------------------------------------------------------------------------
\* See Config: the value with precedence, wherever "ASAP" is not in the global section
\* of the file (parse_item, config_find_item, hash_lookup).
RightValue == C!RightValue

\* See Config: what main, clock_create and port_open check of one clock fits together.
Consistent == C!Consistent

\* See Config: the command line over the global section of the file
\* (parse_fault_interval, config_set_section_int).
CommandLineWins == C!CommandLineWins
=============================================================================
