----------------------------- MODULE Timemaster -----------------------------
(***************************************************************************)
(* timemaster (timemaster.c): it turns a list of time sources into a set   *)
(* of commands (chronyd or ntpd, and for every PHC or interface a ptp4l    *)
(* with, if it has a PHC, a phc2sys), starts them, and from then on lives  *)
(* on signals: SIGCHLD when a process has ended, and SIGTERM, SIGINT or    *)
(* SIGQUIT ("TERM" here), which it also sends to itself to quit.  The      *)
(* signals are blocked and wait until sigwaitinfo takes them; several of   *)
(* one kind that are waiting are one.                                      *)
(***************************************************************************)
EXTENDS Integers, SequencesExt

CONSTANTS
  NULL,
  Configs,       \* the configurations, see below
  MaxGroup,      \* bound: the groups of any configuration
  MaxDeaths,     \* bound: processes that end of their own
  MaxFailures,   \* bound: processes that cannot be started
  MaxSignals     \* bound: signals from the user

VARIABLES
  conf,       \* the sources, first_shm_segment and restart_processes
  script,     \* the commands, NULL if the sources cannot be used
  proc,       \* each command's process: "none" (pids[i] = 0), "running",
              \* "told" (to end), or "zombie"
  files,      \* whether there are configuration files
  pc,         \* "start", "wait" (sigwaitinfo), "reap" (SIGCHLD taken) or "exited"
  next,       \* the command to start next
  pending,    \* the signals that wait
  quit, ret,
  old,        \* whether it ran for more than a second
  deaths, failures, signals

vars == <<conf, script, proc, files, pc, next, pending, quit, ret, old, deaths, failures, signals>>
bounds == <<deaths, failures, signals>>

\* An interface of a PTP source: the index of its PHC, SW if it has none but can
\* take software time stamps, BAD if it cannot be used.
SW == -1
BAD == -2
Interfaces == Nat \cup {SW, BAD}

-----------------------------------------------------------------------------
(* script_create                                                           *)

Command(prog, group, ifs, phc, shm) ==
  [prog |-> prog, group |-> group, ifs |-> ifs, phc |-> phc, shm |-> shm]

CommandRecords ==
  [prog : {"ntp", "ptp4l", "phc2sys"}, group : Nat, ifs : SUBSET (Nat \X Nat),
   phc : Nat \cup {NULL}, shm : Nat \cup {NULL}]

\* What script_create has built so far: the commands, the SHM segments the NTP
\* program reads, the next segment and group, and allocated_phcs.
EmptyScript(c) ==
  [cmds |-> <<Command("ntp", 0, {}, NULL, NULL)>>, refclocks |-> <<>>, shm |-> c.first_shm,
   group |-> 1, used |-> {}, ok |-> TRUE]

\* Mutation: a PHC is not recorded as used.
Usable_forgetting(s, phc) == phc >= 0

\* An interface's PHC is used unless another source has it.
Usable(s, phc) == phc >= 0 /\ phc \notin s.used

\* The PHCs of a source, found before any of its commands is added.
Phcs(s, ifs) == [i \in DOMAIN ifs |-> IF Usable(s, ifs[i]) THEN ifs[i] ELSE SW]

\* A ptp4l, and a phc2sys if it has a PHC, for interface i and those of the
\* source that share its PHC.
AddCommands(s, src, phcs, i) ==
  LET hw == phcs[i] >= 0
      ifs == {<<src, j>> : j \in IF hw THEN {j \in DOMAIN phcs : phcs[j] = phcs[i]} ELSE {i}}
      ptp4l == Command("ptp4l", s.group, ifs, IF hw THEN phcs[i] ELSE NULL, IF hw THEN NULL ELSE s.shm)
      phc2sys == Command("phc2sys", s.group, {}, phcs[i], s.shm)
  IN [s EXCEPT !.cmds = @ \o IF hw THEN <<ptp4l, phc2sys>> ELSE <<ptp4l>>,
               !.refclocks = Append(@, s.shm),
               !.shm = @ + 1, !.group = @ + 1,
               !.used = IF hw THEN @ \cup {phcs[i]} ELSE @]

\* Whether an interface of a source gets commands of its own: the first with each
\* PHC does, and so does one without.
Leads(phcs, i) == phcs[i] = SW \/ \A j \in 1..(i-1) : phcs[j] # phcs[i]

\* The loop over the interfaces: what is built after each of them.
Added(s, src, phcs) ==
  LET added[i \in 0..Len(phcs)] ==
        IF i = 0 THEN s
        ELSE IF Leads(phcs, i) THEN AddCommands(added[i-1], src, phcs, i) ELSE added[i-1]
  IN added

\* PHCs are looked up once, before this source uses any of them.
add_ptp_source(s, src, ifs) ==
  IF \E i \in DOMAIN ifs : ifs[i] = BAD THEN [s EXCEPT !.ok = FALSE]
  ELSE Added(s, src, Phcs(s, ifs))[Len(ifs)]

\* NTP servers only become lines of the NTP program's configuration.
AddSource(c, s, k) ==
  IF c.sources[k].type = "ntp" THEN s ELSE add_ptp_source(s, k, c.sources[k].ifs)

\* The loop over the sources.
Built(c) ==
  LET built[k \in 0..Len(c.sources)] ==
        IF k = 0 THEN EmptyScript(c) ELSE AddSource(c, built[k-1], k)
  IN built

script_create(c) ==
  LET s == Built(c)[Len(c.sources)]
  IN IF s.ok THEN s ELSE NULL

SourceRecords == [type : {"ntp", "ptp"}, ifs : Seq(Interfaces)]

ASSUME TimemasterAssumption ==
  /\ NULL \notin Nat
  /\ MaxGroup \in Nat /\ MaxDeaths \in Nat /\ MaxFailures \in Nat /\ MaxSignals \in Nat
  /\ Configs \subseteq [sources : Seq(SourceRecords), first_shm : Nat, restart : BOOLEAN]
  /\ \A c \in Configs : script_create(c) # NULL => script_create(c).group <= MaxGroup + 1

-----------------------------------------------------------------------------
(* The processes and the user.                                             *)

Commands == IF script = NULL THEN {} ELSE DOMAIN script.cmds
Groups == {script.cmds[i].group : i \in Commands}
Members(g) == {i \in Commands : script.cmds[i].group = g}

\* A process ends, because of an error of its own or because it was told to.
Ends(i) == proc' = [proc EXCEPT ![i] = "zombie"] /\ pending' = pending \cup {"CHLD"}

Die(i) ==
  /\ proc[i] = "running" /\ deaths < MaxDeaths
  /\ Ends(i)
  /\ deaths' = deaths + 1
  /\ UNCHANGED <<conf, script, files, pc, next, quit, ret, old, failures, signals>>

Obey(i) ==
  /\ proc[i] = "told"
  /\ Ends(i)
  /\ UNCHANGED <<conf, script, files, pc, next, quit, ret, old, bounds>>

UserSignal ==
  /\ pc \in {"start", "wait", "reap"} /\ signals < MaxSignals
  /\ pending' = pending \cup {"TERM"}
  /\ signals' = signals + 1
  /\ UNCHANGED <<conf, script, proc, files, pc, next, quit, ret, old, deaths, failures>>

Age ==
  /\ pc \in {"wait", "reap"} /\ ~old
  /\ old' = TRUE
  /\ UNCHANGED <<conf, script, proc, files, pc, next, pending, quit, ret, bounds>>

-----------------------------------------------------------------------------
(* main and script_run                                                     *)

\* The configuration files; when one cannot be written, those before it stay.
create_config_files ==
  /\ pc = "create"
  /\ \/ script = NULL /\ pc' = "exited" /\ ret' = 1 /\ UNCHANGED <<files, failures>>
     \/ script # NULL /\ pc' = "start" /\ files' = TRUE /\ UNCHANGED <<ret, failures>>
     \/ /\ script # NULL /\ failures < MaxFailures
        /\ pc' = "exited" /\ ret' = 1 /\ files' \in BOOLEAN /\ failures' = failures + 1
  /\ UNCHANGED <<conf, script, proc, next, pending, quit, old, deaths, signals>>

num_commands == Len(script.cmds)

\* A command is started, or cannot be; then the program is to quit.
Start ==
  /\ pc = "start" /\ next <= num_commands
  /\ \/ /\ proc' = [proc EXCEPT ![next] = "running"]
        /\ next' = next + 1
        /\ UNCHANGED <<pc, pending, failures>>
     \/ /\ failures < MaxFailures /\ failures' = failures + 1
        /\ pending' = pending \cup {"TERM"}
        /\ pc' = "wait"
        /\ UNCHANGED <<proc, next>>
  /\ UNCHANGED <<conf, script, files, quit, ret, old, deaths, signals>>

AllStarted ==
  /\ pc = "start" /\ next > num_commands
  /\ pc' = "wait"
  /\ UNCHANGED <<conf, script, proc, files, next, pending, quit, ret, old, bounds>>

\* Tell the processes in S to end.
Kill(S) == [i \in Commands |-> IF i \in S /\ proc[i] = "running" THEN "told" ELSE proc[i]]

TakeTerm ==
  /\ pc = "wait" /\ "TERM" \in pending
  /\ pending' = pending \ {"TERM"}
  /\ proc' = IF quit THEN proc ELSE Kill(Commands)
  /\ quit' = TRUE
  /\ UNCHANGED <<conf, script, files, pc, next, ret, old, bounds>>

\* The kernel delivers the lowest signal that waits first.
TakeChld ==
  /\ pc = "wait" /\ "CHLD" \in pending /\ "TERM" \notin pending
  /\ pending' = pending \ {"CHLD"}
  /\ pc' = "reap"
  /\ UNCHANGED <<conf, script, proc, files, next, quit, ret, old, bounds>>

\* Mutation: one process is waited for, as if every one had a signal of its own.
Reaped_one(p) ==
  LET z == {i \in Commands : p[i] = "zombie"}
  IN [i \in Commands |-> IF i \in z /\ \A j \in z : i <= j THEN "none" ELSE p[i]]

\* waitpid until no process that has ended is left
Reaped(p) == [i \in Commands |-> IF p[i] = "zombie" THEN "none" ELSE p[i]]

AllGone(p) == \A i \in Commands : p[i] = "none"

\* When quitting, it exits once all processes are gone; the files are removed.
ReapQuitting ==
  /\ pc = "reap" /\ quit
  /\ proc' = Reaped(proc)
  /\ pc' = IF AllGone(proc') THEN "exited" ELSE "wait"
  /\ files' = (files /\ pc' = "wait")
  /\ UNCHANGED <<conf, script, next, pending, quit, ret, old, bounds>>

\* The groups with a process that is gone, and those of them that are all gone.
Broken(p) == {g \in Groups : \E i \in Members(g) : p[i] = "none"}
Gone(p) == {g \in Broken(p) : \A i \in Members(g) : p[i] = "none"}

\* The NTP program is not restarted; nothing is, in the first second or when
\* restarting is disabled.  SIGTERM to itself ends the program.
ReapGiveUp ==
  /\ pc = "reap" /\ ~quit
  /\ proc' = Reaped(proc)
  /\ Broken(proc') # {}
  /\ 0 \in Broken(proc') \/ ~old \/ ~conf.restart
  /\ pending' = pending \cup {"TERM"} /\ ret' = 1
  /\ pc' = "wait"
  /\ UNCHANGED <<conf, script, files, next, quit, old, bounds>>

\* Mutation: what is gone is restarted at once.
Restartable_early(p) == {i \in Commands : p[i] = "none"}

\* A process is started again only after all of its group have ended.
Restartable(p) == {i \in Commands : p[i] = "none" /\ script.cmds[i].group \in Gone(p)}

\* Mutation: the rest of a broken group goes on.
Survivors_spared(p) == {}

\* The processes of broken groups that still run.
Survivors(p) == {i \in Commands : p[i] = "running" /\ script.cmds[i].group \in Broken(p)}

\* Otherwise a broken group is told to end and, when all of it has, started again.
ReapRestart ==
  LET reaped == Reaped(proc)
      again == Restartable(reaped)
  IN
  /\ pc = "reap" /\ ~quit
  /\ Broken(reaped) = {} \/ (0 \notin Broken(reaped) /\ old /\ conf.restart)
  /\ \E failed \in SUBSET again :
       /\ failures + Cardinality(failed) <= MaxFailures
       /\ failures' = failures + Cardinality(failed)
       /\ pending' = IF failed = {} THEN pending ELSE pending \cup {"TERM"}
       /\ proc' = [i \in Commands |->
                     IF i \in again \ failed THEN "running"
                     ELSE IF i \in Survivors(reaped) THEN "told" ELSE reaped[i]]
  /\ pc' = "wait"
  /\ UNCHANGED <<conf, script, files, next, quit, ret, old, deaths, signals>>

Init ==
  /\ conf \in Configs
  /\ script = script_create(conf)
  /\ proc = [i \in Commands |-> "none"]
  /\ files = FALSE /\ pc = "create" /\ next = 1 /\ pending = {}
  /\ quit = FALSE /\ ret = 0 /\ old = FALSE
  /\ deaths = 0 /\ failures = 0 /\ signals = 0

Main ==
  create_config_files \/ Start \/ AllStarted \/ TakeTerm \/ TakeChld
  \/ ReapQuitting \/ ReapGiveUp \/ ReapRestart

Next ==
  \/ Main
  \/ \E i \in Commands : Die(i) \/ Obey(i)
  \/ UserSignal
  \/ Age

Spec == Init /\ [][Next]_vars

\* timemaster goes on, and processes end when they are told to.
Fairness == WF_vars(Main) /\ WF_vars(\E i \in Commands : Obey(i))
FairSpec == Spec /\ Fairness

-----------------------------------------------------------------------------
(* Properties.                                                             *)

TypeOK ==
  /\ pc \in {"create", "start", "wait", "reap", "exited"}
  /\ pending \subseteq {"CHLD", "TERM"} /\ next \in 1..(Cardinality(Commands) + 1)
  /\ quit \in BOOLEAN /\ old \in BOOLEAN /\ files \in BOOLEAN /\ ret \in {0, 1}
  /\ proc \in [Commands -> {"none", "running", "told", "zombie"}]

Uses(i) == script.cmds[i].prog = "ptp4l" /\ script.cmds[i].phc # NULL

\* No two ptp4l processes discipline one PHC, whatever sources share interfaces;
\* every usable interface of every source has exactly one ptp4l; each SHM segment
\* has one writer and is read by the NTP program (add_ptp_source).
ScriptSound ==
  script # NULL =>
    /\ \A i, j \in Commands : i # j /\ Uses(i) /\ Uses(j) => script.cmds[i].phc # script.cmds[j].phc
    /\ \A k \in DOMAIN conf.sources : conf.sources[k].type = "ptp" =>
         \A n \in DOMAIN conf.sources[k].ifs :
           Cardinality({i \in Commands : <<k, n>> \in script.cmds[i].ifs}) = 1
    /\ \A n \in DOMAIN script.refclocks :
         Cardinality({i \in Commands : script.cmds[i].shm = script.refclocks[n]}) = 1

\* A process that has ended is noticed: its SIGCHLD is still to be handled, or is
\* being handled; and nothing timemaster started is left when it exits, whatever
\* ended, failed to start or was signalled meanwhile (the two loops of script_run,
\* with signals merged).
NoLostChild ==
  /\ TypeOK
  /\ (\E i \in Commands : proc[i] = "zombie") => "CHLD" \in pending \/ pc = "reap"
  /\ pc = "exited" => \A i \in Commands : proc[i] = "none"

\* A new ptp4l never runs beside the phc2sys of the old one, or the reverse: when
\* a process is started again, nothing of its group is left (script_run).
GroupsTogether ==
  [][pc = "reap" =>
       \A i \in Commands : proc[i] \in {"none", "zombie"} /\ proc'[i] = "running" =>
         \A j \in Members(script.cmds[i].group) : proc[j] \in {"none", "zombie"}]_vars

Up(g) == \A i \in Members(g) : proc[i] = "running"

\* A group that lost a process runs again, or timemaster quits.
Restored ==
  \A g \in 0..MaxGroup : (pc = "wait" /\ g \in Groups /\ ~Up(g)) ~> (quit \/ Up(g))

\* Told to quit while a process is left, timemaster exits.
QuitsWithChildren == (quit /\ \E i \in Commands : proc[i] # "none") ~> (pc = "exited")

\* While a process is left, script_run deals with everything it is told: a group that
\* lost a process runs again or the program is to quit, and it quits when the last
\* process has ended.  What it does with no process left is in ExitsOnLoss.
Recovers == Restored /\ QuitsWithChildren

\* timemaster.8: "If a process was terminated and is not started again, timemaster will
\* kill the other processes and exit with a non-zero status."  The code does not where
\* there are no others: it ends on a SIGCHLD only, and none is to come (script_run).
ExitsOnLoss == (ret = 1) ~> (pc = "exited")
=============================================================================
