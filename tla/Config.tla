------------------------------- MODULE Config -------------------------------
(***************************************************************************)
(* The configuration (config.c, hash.c) and the start of ptp4l (ptp4l.c,   *)
(* the checks of clock_create and port_open): options come from the        *)
(* command line, then from a file with a global section and one per port,  *)
(* in any order, and the program adjusts some of them itself.              *)
(*                                                                         *)
(* Values are names; a value outside the set of an option's legal values   *)
(* stands for one that is malformed, out of range or not in the table.     *)
(***************************************************************************)
EXTENDS Integers, SequencesExt

CONSTANTS
  NULL,
  Items,         \* config_tab: [port: may appear in port sections, default, legal]
  Deprecated,    \* names of options that are replaced, and their new names
  Tokens,        \* the settings that are tried: option and value
  ShortOptions,  \* the ones with a letter of their own: option and value
  Names,         \* interfaces
  Phc,           \* the PHC of each
  Bucket,        \* hash_function
  MaxInputs      \* bound: options and lines

Options == DOMAIN Items
Keys == {<<s, o>> : s \in Names \cup {"global"}, o \in Options}

\* The options the program itself looks at are in the table, and the table is sound.
ConfigAssumption ==
  /\ {"time_stamping", "twoStepFlag", "clock_type", "delay_mechanism", "clock_servo",
      "kernel_leap", "sanity_freq_limit", "boundary_clock_jbod",
      "slaveOnly", "gmCapable", "free_running"} \subseteq Options
  /\ "global" \notin Names /\ MaxInputs \in Nat
  /\ \A o \in Options : Items[o].default \in Items[o].legal
  /\ \A d \in DOMAIN Deprecated : Deprecated[d] \in Options

VARIABLES
  table,     \* the buckets of the hash table: lists of nodes
  ifaces,    \* cfg->interfaces
  phase,     \* "options", "file", "running" or "failed"
  section,   \* the section of the file that is read
  clock,     \* once running: [type, phc, ports: their delay mechanisms and PHCs]
  log        \* every setting that was accepted: [from, sec, opt, val]

vars == <<table, ifaces, phase, section, clock, log>>

Buckets == {Bucket[k] : k \in Keys}

-----------------------------------------------------------------------------
(* hash.c                                                                  *)

Chain(t, key) == SelectSeq(t[Bucket[key]], LAMBDA n : n.key = key)

hash_lookup(t, key) ==
  LET chain == Chain(t, key) IN IF chain = <<>> THEN NULL ELSE Head(chain).data

\* A new node is the first of its bucket; NULL if the key is there.
hash_insert(t, key, data) ==
  IF hash_lookup(t, key) # NULL THEN NULL
  ELSE [t EXCEPT ![Bucket[key]] = <<[key |-> key, data |-> data]>> \o @]

\* A node's data is changed through the pointer hash_lookup returned.
Store(t, key, data) ==
  [t EXCEPT ![Bucket[key]] =
     [i \in DOMAIN @ |-> IF @[i].key = key THEN [@[i] EXCEPT !.data = data] ELSE @[i]]]

-----------------------------------------------------------------------------
(* config.c.  An operation returns the new table, or NULL for a failure.   *)

Item(val, locked) == [val |-> val, locked |-> locked]

config_global_item(t, o) == hash_lookup(t, <<"global", o>>)

config_find_item(t, sec, o) ==
  LET own == IF sec = NULL THEN NULL ELSE hash_lookup(t, <<sec, o>>)
  IN IF own # NULL THEN own ELSE config_global_item(t, o)

config_get(t, sec, o) == config_find_item(t, sec, o).val

\* An item of a port's section, created or updated.
SetSection(t, sec, o, val) ==
  IF hash_lookup(t, <<sec, o>>) = NULL
  THEN hash_insert(t, <<sec, o>>, Item(val, FALSE))
  ELSE Store(t, <<sec, o>>, Item(val, hash_lookup(t, <<sec, o>>).locked))

config_set_section_int(t, sec, o, val) ==
  IF sec = NULL THEN Store(t, <<"global", o>>, Item(val, TRUE)) ELSE SetSection(t, sec, o, val)

config_set_int(t, o, val) == config_set_section_int(t, NULL, o, val)

\* "ASAP" is set as it stands, without regard to what is allowed or locked.
FaultInterval(o) ==
  CASE o = "fault_badpeernet_interval" -> "0" [] o = "fault_reset_interval" -> "-128" [] OTHER -> NULL

\* Mutation: the file is read as if nothing had come before it.
IsLocked_never(cmd, item) == FALSE

\* A global option that was set on the command line stays as it is.
IsLocked(cmd, item) == ~cmd /\ item.locked

parse_item(t, cmd, sec, o, val) ==
  CASE val = "ASAP" /\ FaultInterval(o) # NULL -> config_set_section_int(t, sec, o, FaultInterval(o))
    [] ~(val = "ASAP" /\ FaultInterval(o) # NULL) /\ o \notin Options -> NULL
    [] ~(val = "ASAP" /\ FaultInterval(o) # NULL) /\ o \in Options ->
         IF val \notin Items[o].legal THEN NULL
         ELSE IF sec # NULL THEN IF Items[o].port THEN SetSection(t, sec, o, val) ELSE NULL
         ELSE IF IsLocked(cmd, config_global_item(t, o)) THEN t
         ELSE Store(t, <<"global", o>>, Item(val, cmd \/ config_global_item(t, o).locked))

check_deprecated_options(o) == IF o \in DOMAIN Deprecated THEN Deprecated[o] ELSE o

config_create_interface(list, n) == IF n \in ToSet(list) THEN list ELSE Append(list, n)

OneStepModes == {"onestep", "p2p1step"}

config_harmonize_onestep(t) ==
  LET ts == config_get(t, NULL, "time_stamping")
      two == config_get(t, NULL, "twoStepFlag") = "1"
  IN CASE ts \in {"software", "legacy"} /\ ~two -> NULL
       [] ts = "hardware" /\ ~two -> config_set_int(t, "time_stamping", "onestep")
       [] ts \in OneStepModes /\ two -> config_set_int(t, "twoStepFlag", "0")
       [] OTHER -> t

-----------------------------------------------------------------------------
(* ptp4l.c                                                                 *)

Fail == phase' = "failed" /\ UNCHANGED <<table, ifaces, section, clock, log>>

\* A setting leaves the table t, or ends the program.
Accept(t, from, sec, o, val) ==
  IF t = NULL THEN Fail
  ELSE /\ table' = t
       /\ log' = Append(log, [from |-> from, sec |-> sec, opt |-> o, val |-> val])
       /\ UNCHANGED <<ifaces, phase, section, clock>>

LongOption(o, val) ==
  /\ phase = "options" /\ o \in Options
  /\ Accept(parse_item(table, TRUE, NULL, o, val), "cmd", NULL, o, val)

ShortOption(o, val) ==
  /\ phase = "options"
  /\ Accept(config_set_int(table, o, val), "cmd", NULL, o, val)

Interface(n) ==
  /\ phase = "options"
  /\ ifaces' = config_create_interface(ifaces, n)
  /\ UNCHANGED <<table, phase, section, clock, log>>

ReadFile ==
  /\ phase = "options" /\ phase' = "file"
  /\ UNCHANGED <<table, ifaces, section, clock, log>>

\* A section of a port also names its interface.
SectionLine(s) ==
  /\ phase = "file" /\ s # section
  /\ section' = s
  /\ ifaces' = IF s = "global" THEN ifaces ELSE config_create_interface(ifaces, s)
  /\ UNCHANGED <<table, phase, clock, log>>

SettingLine(name, val) ==
  LET o == check_deprecated_options(name)
      sec == IF section = "global" THEN NULL ELSE section
  IN /\ phase = "file"
     /\ IF section = NULL THEN Fail
        ELSE Accept(parse_item(table, FALSE, sec, o, val), "file", sec, o, val)

\* The NTP daemon handles leap seconds and jumps of the clock itself.
AdjustNtpshm(t) ==
  IF config_get(t, NULL, "clock_servo") = "ntpshm"
  THEN config_set_int(config_set_int(t, "kernel_leap", "0"), "sanity_freq_limit", "0") ELSE t

\* The type of clock, or NULL where the interfaces or the delay mechanism do not fit.
ClockType(t) ==
  LET type == config_get(t, NULL, "clock_type")
      many == Len(ifaces) > 1
      dm == config_get(t, NULL, "delay_mechanism")
  IN CASE type = "OC" -> IF many THEN "BC" ELSE "OC"
       [] type = "BC" /\ many -> "BC"
       [] type = "P2P_TC" /\ many /\ dm = "P2P" -> type
       [] type = "E2E_TC" /\ many /\ dm = "E2E" -> type
       [] OTHER -> NULL

\* clock_create: a clock that cannot be master because of 802.1AS is not a 1588 slave.
ClassFits(t) == config_get(t, NULL, "gmCapable") = "1" \/ config_get(t, NULL, "slaveOnly") = "0"

\* Neither a clock that runs free nor one without hardware time stamps has a PHC;
\* otherwise it is that of the first port.
ClockPhc(t) ==
  IF \/ config_get(t, NULL, "free_running") = "1"
     \/ config_get(t, NULL, "time_stamping") \in {"software", "legacy"}
  THEN NULL ELSE Phc[ifaces[1]]

\* Mutation: the ports of a transparent clock are not looked at.
PortFits_type(t, type, n) ==
  ClockPhc(t) \in {NULL, Phc[n]} \/ config_get(t, n, "boundary_clock_jbod") = "1"

\* port_open
PortFits(t, type, n) ==
  /\ type = "P2P_TC" => config_get(t, n, "delay_mechanism") = "P2P"
  /\ type = "E2E_TC" => config_get(t, n, "delay_mechanism") = "E2E"
  /\ ClockPhc(t) \in {NULL, Phc[n]} \/ config_get(t, n, "boundary_clock_jbod") = "1"

\* A port of a clock with a PHC has the one of its interface.
OpenPort(t, n) ==
  [name |-> n, dm |-> config_get(t, n, "delay_mechanism"),
   phc |-> IF ClockPhc(t) = NULL THEN NULL ELSE Phc[n],
   jbod |-> config_get(t, n, "boundary_clock_jbod") = "1"]

\* The options are read; the program checks them and starts the clock, or ends.
Run ==
  LET t == IF ifaces # <<>> /\ ClockType(table) # NULL /\ ClassFits(table)
           THEN config_harmonize_onestep(AdjustNtpshm(table)) ELSE NULL
      type == ClockType(table)
  IN
  /\ phase \in {"options", "file"}
  /\ IF t = NULL THEN Fail
     ELSE IF \E i \in DOMAIN ifaces : ~PortFits(t, type, ifaces[i]) THEN Fail
     ELSE /\ phase' = "running" /\ table' = t
          /\ clock' = [type |-> type, phc |-> ClockPhc(t),
                       ports |-> [i \in DOMAIN ifaces |-> OpenPort(t, ifaces[i])]]
          /\ UNCHANGED <<ifaces, section, log>>

\* Every option is entered with its default (config_create).
Defaults ==
  FoldSet(LAMBDA o, t : hash_insert(t, <<"global", o>>, Item(Items[o].default, FALSE)),
          [b \in Buckets |-> <<>>], Options)

Init ==
  /\ table = Defaults /\ ifaces = <<>> /\ phase = "options" /\ section = NULL
  /\ clock = NULL /\ log = <<>>

More == Len(log) < MaxInputs

Next ==
  \/ \E x \in Tokens : More /\ LongOption(x[1], x[2])
  \/ \E x \in ShortOptions : More /\ ShortOption(x[1], x[2])
  \/ \E n \in Names : Interface(n)
  \/ ReadFile
  \/ \E s \in Names \cup {"global"} : SectionLine(s)
  \/ \E x \in Tokens : More /\ SettingLine(x[1], x[2])
  \/ Run

Spec == Init /\ [][Next]_vars

-----------------------------------------------------------------------------
(* Properties.                                                             *)

\* Every node is in the bucket of its key and no key is there twice; no interface is
\* in the list twice.
TypeOK ==
  /\ \A b \in Buckets :
       LET keys == {n.key : n \in ToSet(table[b])}
       IN Cardinality(keys) = Len(table[b]) /\ \A key \in keys : Bucket[key] = b
  /\ IsInjective(ifaces)
  /\ phase \in {"options", "file", "running", "failed"}

Asap(e) == e.val = "ASAP" /\ FaultInterval(e.opt) # NULL
Value(e) == IF Asap(e) THEN FaultInterval(e.opt) ELSE e.val

\* The settings of an option in a port's section (sec), or in NULL the clock's, that
\* came from the command line or the file.
Entries(sec, o, from) == SelectSeq(log, LAMBDA e : e.sec = sec /\ e.opt = o /\ e.from \in from)

\* ptp4l.8: a port's own section comes first, then the command line, then the global
\* section of the file, then the default.
Expected(sec, o) ==
  LET own == IF sec = NULL THEN <<>> ELSE Entries(sec, o, {"file"})
      cmd == Entries(NULL, o, {"cmd"})
      file == Entries(NULL, o, {"file"})
  IN IF own # <<>> THEN Value(Last(own))
     ELSE IF cmd # <<>> THEN Value(Last(cmd))
     ELSE IF file # <<>> THEN Value(Last(file)) ELSE Items[o].default

Reading == phase \in {"options", "file"}

\* In whatever order options, sections and settings come, by whichever of their names,
\* and whatever shares a bucket, every port and the clock get the value that has
\* precedence (parse_item, config_find_item, hash_lookup).  Not so where the global
\* section says "ASAP": that setting is in CommandLineWins.
RightValue ==
  TypeOK /\ (Reading =>
    \A o \in Options : (\E i \in DOMAIN log : Asap(log[i]) /\ log[i].from = "file" /\ log[i].sec = NULL /\ log[i].opt = o)
      \/ \A sec \in Names \cup {NULL} : config_get(table, sec, o) = Expected(sec, o))

\* ptp4l.8: "Option values given on the command line override values in the global
\* section of the configuration file."  "ASAP" in that section overrides the command
\* line, and locks the option (parse_fault_interval, config_set_section_int).
CommandLineWins ==
  Reading => \A o \in Options :
    LET cmd == Entries(NULL, o, {"cmd"})
    IN cmd # <<>> => config_get(table, NULL, o) = Value(Last(cmd))

\* A clock that runs is one step exactly if its two step flag is cleared, has a port per
\* interface, and its ports have the delay mechanism its type needs and its PHC, or
\* jbod, though each of these is set in a place of its own (config_harmonize_onestep,
\* main, port_open).
Consistent ==
  phase = "running" =>
    /\ config_get(table, NULL, "twoStepFlag") = "0" <=> config_get(table, NULL, "time_stamping") \in OneStepModes
    /\ clock.type \in {"P2P_TC", "E2E_TC", "BC"} <=> Len(clock.ports) > 1
    /\ \A i \in DOMAIN clock.ports :
         /\ clock.type = "P2P_TC" => clock.ports[i].dm = "P2P"
         /\ clock.type = "E2E_TC" => clock.ports[i].dm = "E2E"
         /\ clock.ports[i].phc = clock.phc \/ clock.ports[i].jbod

=============================================================================
