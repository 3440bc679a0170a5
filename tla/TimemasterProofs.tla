-------------------------- MODULE TimemasterProofs --------------------------
(***************************************************************************)
(* timemaster loses none of its processes and never runs two generations   *)
(* of a group side by side, for any configurations and any number of       *)
(* processes that end, fail to start or are signalled; and the commands    *)
(* it starts share no PHC, interface or SHM segment, for any sources.      *)
(***************************************************************************)
EXTENDS Timemaster, FiniteSetTheorems, WellFoundedInduction, TLAPS

-----------------------------------------------------------------------------
(* What script_create builds.                                              *)

\* The scripts, and what the processes of one take for granted: a PHC that is
\* disciplined is recorded as used, a segment that is written was handed out, and
\* no PHC, interface or segment belongs to two commands.
Scripts ==
  [cmds : Seq(CommandRecords), refclocks : Seq(Nat), shm : Nat, group : Nat,
   used : SUBSET Nat, ok : BOOLEAN]

Hard(c) == c.prog = "ptp4l" /\ c.phc # NULL

Apart(c, d) ==
  /\ ~(Hard(c) /\ Hard(d) /\ c.phc = d.phc)
  /\ c.ifs \cap d.ifs = {}
  /\ ~(c.shm = d.shm /\ c.shm # NULL)

Known(s, c) == (Hard(c) => c.phc \in s.used) /\ (c.shm # NULL => c.shm < s.shm)

Sound(s) ==
  /\ \A i \in DOMAIN s.cmds : Known(s, s.cmds[i])
  /\ \A i, j \in DOMAIN s.cmds : i # j => Apart(s.cmds[i], s.cmds[j])
  /\ \A n \in DOMAIN s.refclocks : \E i \in DOMAIN s.cmds : s.cmds[i].shm = s.refclocks[n]

Covered(s, x) == \E i \in DOMAIN s.cmds : x \in s.cmds[i].ifs

\* The interfaces of a source that share interface i's process.
Mates(phcs, i) == IF phcs[i] >= 0 THEN {j \in DOMAIN phcs : phcs[j] = phcs[i]} ELSE {i}

PhcLists == Seq(Nat \cup {SW})

\* The commands for one interface: the two of a PHC, or one.
Ptp4l(s, src, phcs, i) ==
  Command("ptp4l", s.group, {<<src, j>> : j \in Mates(phcs, i)},
          IF phcs[i] >= 0 THEN phcs[i] ELSE NULL, IF phcs[i] >= 0 THEN NULL ELSE s.shm)
Phc2sys(s, phcs, i) == Command("phc2sys", s.group, {}, phcs[i], s.shm)

\* The fields of a script.
LEMMA ScriptFields ==
  ASSUME NEW s \in Scripts
  PROVE  /\ s.cmds \in Seq(CommandRecords) /\ s.refclocks \in Seq(Nat)
         /\ s.shm \in Nat /\ s.group \in Nat /\ s.used \in SUBSET Nat /\ s.ok \in BOOLEAN
         /\ Len(s.cmds) \in Nat /\ DOMAIN s.cmds = 1..Len(s.cmds)
         /\ Len(s.refclocks) \in Nat /\ DOMAIN s.refclocks = 1..Len(s.refclocks)
  <1>1. /\ s.cmds \in Seq(CommandRecords) /\ s.refclocks \in Seq(Nat)
        /\ s.shm \in Nat /\ s.group \in Nat /\ s.used \in SUBSET Nat /\ s.ok \in BOOLEAN
    BY DEF Scripts
  <1> QED  BY <1>1

\* The fields of a list of PHCs.
LEMMA PhcFields ==
  ASSUME NEW phcs \in PhcLists
  PROVE  /\ Len(phcs) \in Nat /\ DOMAIN phcs = 1..Len(phcs)
         /\ \A i \in 1..Len(phcs) : phcs[i] \in Int /\ (phcs[i] \in Nat \/ phcs[i] = SW)
         /\ \A i \in 1..Len(phcs) : phcs[i] >= 0 <=> phcs[i] \in Nat
         /\ SW = -1 /\ SW \notin Nat
  <1>1. Len(phcs) \in Nat /\ DOMAIN phcs = 1..Len(phcs) /\ SW = -1
    BY DEF PhcLists, SW
  <1>2. ASSUME NEW i \in 1..Len(phcs) PROVE phcs[i] \in Nat \cup {SW}
    BY <1>1 DEF PhcLists
  <1>3. SW \notin Nat /\ SW \in Int /\ ~(SW >= 0)
    BY <1>1
  <1> QED  BY <1>1, <1>2, <1>3

\* The commands for an interface are commands.
LEMMA CommandsTyped ==
  ASSUME NEW s \in Scripts, NEW src \in Nat, NEW phcs \in PhcLists, NEW i \in 1..Len(phcs)
  PROVE  /\ Ptp4l(s, src, phcs, i) \in CommandRecords
         /\ phcs[i] >= 0 => Phc2sys(s, phcs, i) \in CommandRecords
  <1> DEFINE ifs == {<<src, j>> : j \in Mates(phcs, i)}
  <1>1. Mates(phcs, i) \subseteq Nat
    BY PhcFields DEF Mates
  <1>2. ifs \in SUBSET (Nat \X Nat)
    BY <1>1
  <1>3. phcs[i] >= 0 => phcs[i] \in Nat
    BY PhcFields
  <1>4. s.group \in Nat /\ s.shm \in Nat
    BY ScriptFields
  <1>5. Ptp4l(s, src, phcs, i) \in CommandRecords
    <2> HIDE DEF ifs
    <2>1. Ptp4l(s, src, phcs, i) = [prog |-> "ptp4l", group |-> s.group, ifs |-> ifs,
             phc |-> IF phcs[i] >= 0 THEN phcs[i] ELSE NULL,
             shm |-> IF phcs[i] >= 0 THEN NULL ELSE s.shm]
      BY DEF Ptp4l, Command, ifs
    <2> QED  BY <1>2, <1>3, <1>4, <2>1 DEF CommandRecords
  <1>6. ASSUME phcs[i] >= 0 PROVE Phc2sys(s, phcs, i) \in CommandRecords
    BY <1>3, <1>4, <1>6 DEF Phc2sys, Command, CommandRecords
  <1> QED  BY <1>5, <1>6

\* What joining two sequences gives.
LEMMA Joined ==
  ASSUME NEW S, NEW u \in Seq(S), NEW v \in Seq(S)
  PROVE  /\ (u \o v) \in Seq(S) /\ Len(u \o v) = Len(u) + Len(v)
         /\ \A k \in 1..Len(u) : (u \o v)[k] = u[k]
         /\ \A k \in 1..Len(v) : (u \o v)[Len(u) + k] = v[k]
  <1>1. (u \o v) \in Seq(S) /\ Len(u \o v) = Len(u) + Len(v)
    OBVIOUS
  <1>2. ASSUME NEW k \in 1..Len(u) PROVE (u \o v)[k] = u[k]
    OBVIOUS
  <1>3. ASSUME NEW k \in 1..Len(v) PROVE (u \o v)[Len(u) + k] = v[k]
    OBVIOUS
  <1> QED  BY <1>1, <1>2, <1>3

\* What AddCommands does to a script.
AddsTo(s, src, phcs, i, t) ==
  /\ t \in Scripts
  /\ t.shm = s.shm + 1 /\ t.ok = s.ok /\ t.refclocks = Append(s.refclocks, s.shm)
  /\ t.used = IF phcs[i] >= 0 THEN s.used \cup {phcs[i]} ELSE s.used
  /\ \A k \in 1..Len(s.cmds) : t.cmds[k] = s.cmds[k]
  /\ t.cmds[Len(s.cmds) + 1] = Ptp4l(s, src, phcs, i)
  /\ phcs[i] >= 0 => /\ Len(t.cmds) = Len(s.cmds) + 2
                     /\ t.cmds[Len(s.cmds) + 2] = Phc2sys(s, phcs, i)
  /\ ~(phcs[i] >= 0) => Len(t.cmds) = Len(s.cmds) + 1

\* It does so.
LEMMA AddFacts ==
  ASSUME NEW s \in Scripts, NEW src \in Nat, NEW phcs \in PhcLists, NEW i \in 1..Len(phcs)
  PROVE  AddsTo(s, src, phcs, i, AddCommands(s, src, phcs, i))
  <1> DEFINE t == AddCommands(s, src, phcs, i)
  <1> DEFINE a == Ptp4l(s, src, phcs, i)
             b == Phc2sys(s, phcs, i)
             more == IF phcs[i] >= 0 THEN <<a, b>> ELSE <<a>>
             used == IF phcs[i] >= 0 THEN s.used \cup {phcs[i]} ELSE s.used
  <1>1. t = [s EXCEPT !.cmds = @ \o more, !.refclocks = Append(@, s.shm),
                      !.shm = @ + 1, !.group = @ + 1, !.used = used]
    BY DEF AddCommands, Ptp4l, Phc2sys, Mates
  <1> HIDE DEF t
  <1>2. a \in CommandRecords /\ (phcs[i] >= 0 => b \in CommandRecords)
    BY CommandsTyped
  <1> HIDE DEF a, b
  <1>3. /\ more \in Seq(CommandRecords)
        /\ Len(more) = IF phcs[i] >= 0 THEN 2 ELSE 1
        /\ more[1] = a /\ (phcs[i] >= 0 => more[2] = b)
    BY <1>2
  <1>4. used \in SUBSET Nat
    BY ScriptFields, PhcFields
  <1> HIDE DEF more, used
  <1> DEFINE cmds == s.cmds \o more
             refs == Append(s.refclocks, s.shm)
  <1>5. /\ cmds \in Seq(CommandRecords) /\ Len(cmds) = Len(s.cmds) + Len(more)
        /\ \A k \in 1..Len(s.cmds) : cmds[k] = s.cmds[k]
        /\ \A k \in 1..Len(more) : cmds[Len(s.cmds) + k] = more[k]
    <2>1. s.cmds \in Seq(CommandRecords) /\ more \in Seq(CommandRecords)
      BY <1>3, ScriptFields
    <2> QED  BY <2>1, Joined
  <1>6. refs \in Seq(Nat) /\ s.shm + 1 \in Nat /\ s.group + 1 \in Nat /\ s.ok \in BOOLEAN
    BY ScriptFields
  <1> HIDE DEF cmds, refs
  <1>7. /\ t = [cmds |-> cmds, refclocks |-> refs, shm |-> s.shm + 1, group |-> s.group + 1,
                used |-> used, ok |-> s.ok]
    BY <1>1 DEF cmds, refs, Scripts
  <1>8. t \in Scripts
    BY <1>4, <1>5, <1>6, <1>7 DEF Scripts
  <1>9. t.cmds = cmds /\ t.refclocks = refs /\ t.shm = s.shm + 1 /\ t.used = used /\ t.ok = s.ok
    BY <1>7
  <1>10. /\ cmds[Len(s.cmds) + 1] = a /\ (phcs[i] >= 0 => cmds[Len(s.cmds) + 2] = b)
    <2>1. 1 \in 1..Len(more) /\ (phcs[i] >= 0 => 2 \in 1..Len(more))
      BY <1>3
    <2>2. cmds[Len(s.cmds) + 1] = more[1] /\ (phcs[i] >= 0 => cmds[Len(s.cmds) + 2] = more[2])
      BY <1>5, <2>1
    <2> QED  BY <1>3, <2>2
  <1>11. AddsTo(s, src, phcs, i, t)
    BY <1>3, <1>5, <1>8, <1>9, <1>10 DEF a, b, used, refs, AddsTo
  <1> QED  BY <1>11 DEF t

\* The fields of the commands for an interface.
LEMMA NewCommands ==
  ASSUME NEW s \in Scripts, NEW src \in Nat, NEW phcs \in PhcLists, NEW i \in 1..Len(phcs),
         NEW a, a = Ptp4l(s, src, phcs, i), NEW b, b = Phc2sys(s, phcs, i)
  PROVE  /\ a.prog = "ptp4l" /\ a.ifs = {<<src, j>> : j \in Mates(phcs, i)}
         /\ phcs[i] >= 0 => a.phc = phcs[i] /\ a.shm = NULL
         /\ ~(phcs[i] >= 0) => a.phc = NULL /\ a.shm = s.shm
         /\ b.prog = "phc2sys" /\ b.ifs = {} /\ b.shm = s.shm
  BY DEF Ptp4l, Phc2sys, Command

\* A command that was known stays known when more is used.
LEMMA KnownLater ==
  ASSUME NEW s \in Scripts, NEW t \in Scripts, s.used \subseteq t.used, t.shm = s.shm + 1,
         NEW c \in CommandRecords, Known(s, c)
  PROVE  Known(t, c)
  <1>1. s.shm \in Nat /\ t.shm \in Nat
    BY ScriptFields
  <1>2. c.shm # NULL => c.shm \in Nat
    BY DEF CommandRecords
  <1> QED  BY <1>1, <1>2 DEF Known

\* A sound script with the interfaces that share interface i's process.
AddSoundly(s, src, phcs, i, t) ==
  /\ t \in Scripts /\ Sound(t) /\ t.ok = s.ok /\ t.used \subseteq s.used \cup {phcs[i]}
  /\ \A x : Covered(t, x) <=> Covered(s, x) \/ \E j \in Mates(phcs, i) : x = <<src, j>>

\* The commands for an interface whose PHC nobody uses and whose mates have no
\* process yet keep the script sound.
LEMMA AddSound ==
  ASSUME NEW s \in Scripts, Sound(s), NEW src \in Nat, NEW phcs \in PhcLists, NEW i \in 1..Len(phcs),
         phcs[i] \notin s.used, \A j \in Mates(phcs, i) : ~Covered(s, <<src, j>>)
  PROVE  AddSoundly(s, src, phcs, i, AddCommands(s, src, phcs, i))
  <1> DEFINE t == AddCommands(s, src, phcs, i)
  <1> DEFINE L == Len(s.cmds)
             a == Ptp4l(s, src, phcs, i)
             b == Phc2sys(s, phcs, i)
  <1>1. /\ t \in Scripts
        /\ t.shm = s.shm + 1 /\ t.ok = s.ok /\ t.refclocks = Append(s.refclocks, s.shm)
        /\ t.used = IF phcs[i] >= 0 THEN s.used \cup {phcs[i]} ELSE s.used
        /\ \A k \in 1..L : t.cmds[k] = s.cmds[k]
        /\ t.cmds[L + 1] = a
        /\ phcs[i] >= 0 => Len(t.cmds) = L + 2 /\ t.cmds[L + 2] = b
        /\ ~(phcs[i] >= 0) => Len(t.cmds) = L + 1
    <2>1. AddsTo(s, src, phcs, i, t)
      BY AddFacts
    <2> HIDE DEF t
    <2> QED  BY <2>1 DEF AddsTo
  <1>2. /\ a.prog = "ptp4l" /\ a.ifs = {<<src, j>> : j \in Mates(phcs, i)}
        /\ phcs[i] >= 0 => a.phc = phcs[i] /\ a.shm = NULL
        /\ ~(phcs[i] >= 0) => a.phc = NULL /\ a.shm = s.shm
        /\ b.prog = "phc2sys" /\ b.ifs = {} /\ b.shm = s.shm
    BY NewCommands
  <1>3. /\ L \in Nat /\ DOMAIN s.cmds = 1..L /\ s.shm \in Nat
        /\ DOMAIN t.cmds = 1..Len(t.cmds) /\ Len(t.cmds) \in Nat
    BY <1>1, ScriptFields
  <1>4. \A k \in 1..L : s.cmds[k] \in CommandRecords
    BY ScriptFields
  <1>5. s.shm \in Nat /\ NULL \notin Nat
    BY <1>3, TimemasterAssumption
  <1> HIDE DEF L, a, b, t
  \* which commands there are
  <1>6. \A k \in DOMAIN t.cmds : \/ k \in 1..L
                                 \/ k = L + 1
                                 \/ k = L + 2 /\ phcs[i] >= 0
    BY <1>1, <1>3
  <1>7. /\ \A k \in 1..L : k \in DOMAIN t.cmds /\ k # L + 1 /\ k # L + 2
        /\ L + 1 \in DOMAIN t.cmds /\ (phcs[i] >= 0 => L + 2 \in DOMAIN t.cmds)
        /\ L + 1 # L + 2
    BY <1>1, <1>3
  <1>8. \A k \in 1..L : Known(s, s.cmds[k])
    BY <1>3 DEF Sound
  \* the new commands against the old ones and against each other
  <1>9. ASSUME NEW k \in 1..L
        PROVE  Apart(s.cmds[k], a) /\ Apart(a, s.cmds[k]) /\ Apart(s.cmds[k], b) /\ Apart(b, s.cmds[k])
    <2> DEFINE c == s.cmds[k]
    <2>1. c.shm # s.shm
      <3>1. c.shm # NULL => c.shm \in Nat /\ c.shm < s.shm
        BY <1>4, <1>8 DEF Known, CommandRecords
      <3> QED  BY <1>5, <3>1
    <2>2. Hard(c) => c.phc # phcs[i]
      BY <1>8 DEF Known
    <2>3. c.ifs \cap a.ifs = {}
      <3> SUFFICES ASSUME NEW x \in c.ifs, x \in a.ifs PROVE FALSE
        OBVIOUS
      <3>1. PICK j \in Mates(phcs, i) : x = <<src, j>>
        BY <1>2
      <3> QED  BY <1>3, <3>1 DEF Covered
    <2>4. Hard(a) => phcs[i] >= 0 /\ a.phc = phcs[i]
      BY <1>2 DEF Hard
    <2>5. ~Hard(b)
      BY <1>2 DEF Hard
    <2>6. a.shm = NULL \/ a.shm = s.shm
      BY <1>2
    <2> HIDE DEF c
    <2>7. Apart(c, a) /\ Apart(a, c)
      BY <2>1, <2>2, <2>3, <2>4, <2>6 DEF Apart
    <2>8. Apart(c, b) /\ Apart(b, c)
      BY <1>2, <2>1, <2>5 DEF Apart
    <2> QED  BY <2>7, <2>8 DEF c
  <1>10. ASSUME phcs[i] >= 0 PROVE Apart(a, b) /\ Apart(b, a)
    BY <1>2, <1>5, <1>10 DEF Apart, Hard
  <1>11. ASSUME NEW j \in DOMAIN t.cmds, NEW k \in DOMAIN t.cmds, j # k
         PROVE  Apart(t.cmds[j], t.cmds[k])
    <2>1. CASE j \in 1..L /\ k \in 1..L
      BY <1>1, <1>3, <1>11, <2>1 DEF Sound
    <2>2. CASE j \in 1..L /\ k \notin 1..L
      BY <1>1, <1>6, <1>9, <2>2
    <2>3. CASE j \notin 1..L /\ k \in 1..L
      BY <1>1, <1>6, <1>9, <2>3
    <2>4. CASE j \notin 1..L /\ k \notin 1..L
      BY <1>1, <1>6, <1>10, <1>11, <2>4
    <2> QED  BY <2>1, <2>2, <2>3, <2>4
  <1>12. ASSUME NEW k \in DOMAIN t.cmds PROVE Known(t, t.cmds[k])
    <2>1. s.used \subseteq t.used
      BY <1>1
    <2>2. CASE k \in 1..L
      BY <1>1, <1>4, <1>8, <2>1, <2>2, KnownLater
    <2>3. CASE k = L + 1
      <3>1. Hard(a) => a.phc \in t.used
        BY <1>1, <1>2 DEF Hard
      <3>2. a.shm # NULL => a.shm < t.shm
        BY <1>1, <1>2, <1>3
      <3> QED  BY <1>1, <2>3, <3>1, <3>2 DEF Known
    <2>4. CASE k = L + 2 /\ phcs[i] >= 0
      <3>1. ~Hard(b)
        BY <1>2 DEF Hard
      <3>2. b.shm < t.shm
        BY <1>1, <1>2, <1>3
      <3> QED  BY <1>1, <2>4, <3>1, <3>2 DEF Known
    <2> QED  BY <1>6, <2>2, <2>3, <2>4
  <1>13. ASSUME NEW n \in DOMAIN t.refclocks
         PROVE  \E k \in DOMAIN t.cmds : t.cmds[k].shm = t.refclocks[n]
    <2>1. /\ Len(s.refclocks) \in Nat /\ DOMAIN s.refclocks = 1..Len(s.refclocks)
          /\ s.refclocks \in Seq(Nat)
      BY ScriptFields
    <2>2. \/ n \in DOMAIN s.refclocks /\ t.refclocks[n] = s.refclocks[n]
          \/ t.refclocks[n] = s.shm
      BY <1>1, <1>3, <2>1
    <2>3. CASE n \in DOMAIN s.refclocks /\ t.refclocks[n] = s.refclocks[n]
      <3>1. PICK k \in DOMAIN s.cmds : s.cmds[k].shm = s.refclocks[n]
        BY <2>3 DEF Sound
      <3> QED  BY <1>1, <1>3, <1>7, <2>3, <3>1
    <2>4. CASE t.refclocks[n] = s.shm
      BY <1>1, <1>2, <1>7, <2>4
    <2> QED  BY <2>2, <2>3, <2>4
  <1>14. Sound(t)
    BY <1>11, <1>12, <1>13 DEF Sound
  <1>15. ASSUME NEW x PROVE Covered(t, x) <=> Covered(s, x) \/ \E j \in Mates(phcs, i) : x = <<src, j>>
    <2>1. Covered(t, x) => Covered(s, x) \/ \E j \in Mates(phcs, i) : x = <<src, j>>
      <3> SUFFICES ASSUME NEW k \in DOMAIN t.cmds, x \in t.cmds[k].ifs
                   PROVE  Covered(s, x) \/ \E j \in Mates(phcs, i) : x = <<src, j>>
        BY DEF Covered
      <3>1. k \in 1..L \/ k = L + 1
        BY <1>1, <1>2, <1>6
      <3>2. CASE k \in 1..L
        BY <1>1, <1>3, <3>2 DEF Covered
      <3>3. CASE k = L + 1
        <4>1. x \in a.ifs
          BY <1>1, <3>3
        <4> QED  BY <1>2, <4>1
      <3> QED  BY <3>1, <3>2, <3>3
    <2>2. Covered(s, x) => Covered(t, x)
      BY <1>1, <1>3, <1>7 DEF Covered
    <2>3. (\E j \in Mates(phcs, i) : x = <<src, j>>) => Covered(t, x)
      BY <1>1, <1>2, <1>7 DEF Covered
    <2> QED  BY <2>1, <2>2, <2>3
  <1>16. t.used \subseteq s.used \cup {phcs[i]}
    BY <1>1
  <1>17. AddSoundly(s, src, phcs, i, t)
    BY <1>1, <1>14, <1>15, <1>16 DEF AddSoundly
  <1> QED  BY <1>17 DEF t

\* A set of numbers that is not empty has a smallest one.
LEMMA Smallest ==
  ASSUME NEW T \in SUBSET Nat, T # {}
  PROVE  \E m \in T : \A k \in T : m <= k
  <1>1. PICK x \in T : \A y \in T : ~(<<y, x>> \in OpToRel(<, Nat))
    BY NatLessThanWellFounded, WFMin
  <1>2. ASSUME NEW y \in T PROVE x <= y
    <2>1. x \in Nat /\ y \in Nat /\ ~(y < x)
      BY <1>1 DEF OpToRel
    <2> QED  BY <2>1
  <1> QED  BY <1>2

\* What holds before a loop over 1..n, and after each turn if before it, holds
\* after every turn.
LEMMA LoopKeeps ==
  ASSUME NEW n \in Nat, NEW P, P[0], \A i \in 1..n : P[i - 1] => P[i]
  PROVE  \A i \in 0..n : P[i]
  <1> DEFINE T == {k \in 0..n : ~P[k]}
  <1>1. SUFFICES ASSUME T # {} PROVE FALSE
    OBVIOUS
  <1>2. PICK m \in T : \A k \in T : m <= k
    <2> T \in SUBSET Nat
      OBVIOUS
    <2> HIDE DEF T
    <2> QED  BY <1>1, Smallest
  <1>3. m \in 1..n /\ m - 1 \in 0..n /\ m - 1 \notin T
    BY <1>2
  <1> QED  BY <1>2, <1>3

\* f is a run of the loop over 1..n whose turns are the functions g: the states
\* after each turn.
Runs(f, n, base, g) == f[0] = base /\ \A i \in 1..n : f[i] = g[i][f[i - 1]]

\* A loop over 1..n with a state in W has a run.
LEMMA LoopRuns ==
  ASSUME NEW n \in Nat, NEW W, NEW base \in W, NEW g \in [1..n -> [W -> W]]
  PROVE  \E f \in [0..n -> W] : Runs(f, n, base, g)
  <1> DEFINE P == [k \in 0..n |-> \E f \in [0..k -> W] : Runs(f, k, base, g)]
  <1>1. P[0]
    <2>1. [i \in 0..0 |-> base] \in [0..0 -> W] /\ Runs([i \in 0..0 |-> base], 0, base, g)
      BY DEF Runs
    <2> QED  BY <2>1
  <1>2. ASSUME NEW m \in 1..n, P[m - 1] PROVE P[m]
    <2>1. PICK f \in [0..m - 1 -> W] : Runs(f, m - 1, base, g)
      BY <1>2
    <2> DEFINE h == [i \in 0..m |-> IF i = m THEN g[m][f[m - 1]] ELSE f[i]]
    <2>2. f[m - 1] \in W /\ g[m][f[m - 1]] \in W
      OBVIOUS
    <2>3. h \in [0..m -> W]
      BY <2>2
    <2>4. Runs(h, m, base, g)
      <3>1. h[0] = base
        BY <2>1 DEF Runs
      <3>2. ASSUME NEW i \in 1..m PROVE h[i] = g[i][h[i - 1]]
        <4>1. CASE i = m
          <5>1. h[m] = g[m][f[m - 1]] /\ h[m - 1] = f[m - 1]
            OBVIOUS
          <5> QED  BY <4>1, <5>1
        <4>2. CASE i # m
          <5>1. i \in 1..m - 1 /\ h[i] = f[i] /\ h[i - 1] = f[i - 1]
            BY <4>2
          <5> QED  BY <5>1, <2>1 DEF Runs
        <4> QED  BY <4>1, <4>2
      <3> HIDE DEF h
      <3> QED  BY <3>1, <3>2 DEF Runs
    <2> HIDE DEF h
    <2>5. m \in 0..n
      OBVIOUS
    <2> QED  BY <2>3, <2>4, <2>5
  <1>3. \A i \in 0..n : P[i]
    <2> HIDE DEF P
    <2> QED  BY <1>1, <1>2, LoopKeeps
  <1>4. n \in 0..n
    OBVIOUS
  <1> QED  BY <1>3, <1>4

\* What the script has become after n interfaces of a source.
Turned(s, src, phcs, n, t) ==
  /\ t \in Scripts /\ Sound(t) /\ t.ok = s.ok
  /\ t.used \subseteq s.used \cup {phcs[j] : j \in 1..n}
  /\ \A x : Covered(t, x) <=>
       Covered(s, x) \/ \E l \in 1..n : \E j \in Mates(phcs, l) : x = <<src, j>>

\* A source none of whose PHCs is used and none of whose interfaces has a process.
New(s, src, phcs) ==
  \A i \in 1..Len(phcs) : phcs[i] \notin s.used /\ ~Covered(s, <<src, i>>)

Turn(s, src, phcs, i) == IF Leads(phcs, i) THEN AddCommands(s, src, phcs, i) ELSE s

\* Interfaces with a process of their own share it with no earlier one; the others do.
LEMMA MatesApart ==
  ASSUME NEW phcs \in PhcLists, NEW n \in 1..Len(phcs)
  PROVE  /\ Leads(phcs, n) => \A l \in 1..n - 1 : Mates(phcs, l) \cap Mates(phcs, n) = {}
         /\ ~Leads(phcs, n) => \E l \in 1..n - 1 : Mates(phcs, l) = Mates(phcs, n)
         /\ Leads(phcs, n) /\ phcs[n] \in Nat => \A l \in 1..n - 1 : phcs[n] # phcs[l]
         /\ \A l \in 1..Len(phcs) : l \in Mates(phcs, l) /\ Mates(phcs, l) \subseteq 1..Len(phcs)
  <1>0. /\ Len(phcs) \in Nat /\ DOMAIN phcs = 1..Len(phcs)
        /\ \A i \in 1..Len(phcs) : phcs[i] \in Int /\ (phcs[i] \in Nat \/ phcs[i] = SW)
        /\ \A i \in 1..Len(phcs) : phcs[i] >= 0 <=> phcs[i] \in Nat
        /\ SW \notin Nat
    BY PhcFields
  <1>1. \A l \in 1..n - 1 : l \in 1..Len(phcs) /\ l # n
    BY <1>0
  <1>2. ASSUME Leads(phcs, n), NEW l \in 1..n - 1, NEW j \in Mates(phcs, l), j \in Mates(phcs, n)
        PROVE  FALSE
    <2>1. phcs[n] = SW \/ phcs[l] # phcs[n]
      BY <1>2 DEF Leads
    <2>2. l \in 1..Len(phcs) /\ l # n
      BY <1>1
    <2>3. CASE phcs[n] \in Nat
      <3>1. phcs[j] = phcs[n]
        BY <1>0, <1>2, <2>3 DEF Mates
      <3>2. phcs[j] = phcs[l]
        BY <1>0, <1>2, <2>2 DEF Mates
      <3> QED  BY <1>0, <2>1, <2>3, <3>1, <3>2
    <2>4. CASE phcs[n] = SW
      <3>1. j = n
        BY <1>0, <1>2, <2>4 DEF Mates
      <3>2. phcs[l] \in Nat => phcs[j] = phcs[l]
        BY <1>0, <1>2, <2>2 DEF Mates
      <3>3. phcs[l] \notin Nat => j = l
        BY <1>0, <1>2, <2>2 DEF Mates
      <3> QED  BY <1>0, <2>2, <2>4, <3>1, <3>2, <3>3
    <2> QED  BY <1>0, <2>3, <2>4
  <1>3. ASSUME ~Leads(phcs, n) PROVE \E l \in 1..n - 1 : Mates(phcs, l) = Mates(phcs, n)
    <2>1. phcs[n] # SW /\ \E l \in 1..n - 1 : phcs[l] = phcs[n]
      BY <1>3 DEF Leads
    <2>2. PICK l \in 1..n - 1 : phcs[l] = phcs[n]
      BY <2>1
    <2>3. Mates(phcs, l) = Mates(phcs, n)
      BY <1>0, <2>1, <2>2 DEF Mates
    <2> QED  BY <2>3
  <1>4. ASSUME Leads(phcs, n), phcs[n] \in Nat, NEW l \in 1..n - 1 PROVE phcs[n] # phcs[l]
    BY <1>0, <1>4 DEF Leads
  <1>5. ASSUME NEW l \in 1..Len(phcs)
        PROVE  l \in Mates(phcs, l) /\ Mates(phcs, l) \subseteq 1..Len(phcs)
    BY <1>0 DEF Mates
  <1> QED  BY <1>2, <1>3, <1>4, <1>5

\* One turn of the loop over the interfaces.
LEMMA TurnHolds ==
  ASSUME NEW s \in Scripts, NEW src \in Nat, NEW phcs \in PhcLists, New(s, src, phcs),
         NEW n \in 1..Len(phcs), NEW t, Turned(s, src, phcs, n - 1, t)
  PROVE  Turned(s, src, phcs, n, Turn(t, src, phcs, n))
  <1>0. /\ t \in Scripts /\ Sound(t) /\ t.ok = s.ok
        /\ t.used \subseteq s.used \cup {phcs[j] : j \in 1..n - 1}
        /\ \A x : Covered(t, x) <=>
             Covered(s, x) \/ \E l \in 1..n - 1 : \E j \in Mates(phcs, l) : x = <<src, j>>
    BY DEF Turned
  <1>1. Len(phcs) \in Nat /\ s.used \in SUBSET Nat /\ SW \notin Nat /\ (phcs[n] \in Nat \/ phcs[n] = SW)
    BY PhcFields, ScriptFields
  <1>2. 1..n = (1..n - 1) \cup {n}
    BY <1>1
  <1>3. {phcs[j] : j \in 1..n} = {phcs[j] : j \in 1..n - 1} \cup {phcs[n]}
    BY <1>2
  <1>4. CASE Leads(phcs, n)
    <2> DEFINE u == AddCommands(t, src, phcs, n)
    <2>1. phcs[n] \notin t.used
      <3>1. phcs[n] \notin s.used
        BY DEF New
      <3>2. t.used \subseteq Nat
        BY <1>0, ScriptFields
      <3> QED  BY <1>0, <1>1, <1>4, <3>1, <3>2, MatesApart
    <2>2. ASSUME NEW j \in Mates(phcs, n) PROVE ~Covered(t, <<src, j>>)
      <3>1. j \in 1..Len(phcs) /\ ~Covered(s, <<src, j>>)
        BY MatesApart DEF New
      <3>2. ASSUME NEW l \in 1..n - 1, NEW k \in Mates(phcs, l), <<src, j>> = <<src, k>> PROVE FALSE
        BY <1>4, <3>2, MatesApart
      <3> QED  BY <1>0, <3>1, <3>2
    <2>3. AddSoundly(t, src, phcs, n, u)
      BY <1>0, <2>1, <2>2, AddSound
    <2> HIDE DEF u
    <2>4. /\ u \in Scripts /\ Sound(u) /\ u.ok = t.ok /\ u.used \subseteq t.used \cup {phcs[n]}
          /\ \A x : Covered(u, x) <=> Covered(t, x) \/ \E j \in Mates(phcs, n) : x = <<src, j>>
      BY <2>3 DEF AddSoundly
    <2>5. u.used \subseteq s.used \cup {phcs[j] : j \in 1..n}
      BY <1>0, <1>3, <2>4
    <2>6. ASSUME NEW x
          PROVE  Covered(u, x) <=>
                   Covered(s, x) \/ \E l \in 1..n : \E j \in Mates(phcs, l) : x = <<src, j>>
      BY <1>0, <1>2, <2>4
    <2>7. Turned(s, src, phcs, n, u)
      BY <1>0, <2>4, <2>5, <2>6 DEF Turned
    <2> QED  BY <1>4, <2>7 DEF Turn, u
  <1>5. CASE ~Leads(phcs, n)
    <2>1. PICK m \in 1..n - 1 : Mates(phcs, m) = Mates(phcs, n)
      BY <1>5, MatesApart
    <2>2. ASSUME NEW x
          PROVE  Covered(t, x) <=>
                   Covered(s, x) \/ \E l \in 1..n : \E j \in Mates(phcs, l) : x = <<src, j>>
      BY <1>0, <1>2, <2>1
    <2>3. t.used \subseteq s.used \cup {phcs[j] : j \in 1..n}
      BY <1>0, <1>3
    <2> QED  BY <1>0, <1>5, <2>2, <2>3 DEF Turn, Turned
  <1> QED  BY <1>4, <1>5

\* A turn makes a script of a script.
LEMMA TurnTyped ==
  ASSUME NEW s \in Scripts, NEW src \in Nat, NEW phcs \in PhcLists, NEW i \in 1..Len(phcs)
  PROVE  Turn(s, src, phcs, i) \in Scripts
  <1>1. AddsTo(s, src, phcs, i, AddCommands(s, src, phcs, i))
    BY AddFacts
  <1> QED  BY <1>1 DEF Turn, AddsTo

\* The loop over the interfaces does what its body says, turn by turn.
LEMMA InterfaceTurns ==
  ASSUME NEW s \in Scripts, NEW src \in Nat, NEW phcs \in PhcLists,
         NEW f, f = Added(s, src, phcs)
  PROVE  /\ f[0] = s
         /\ \A i \in 1..Len(phcs) : f[i] = Turn(f[i - 1], src, phcs, i)
  <1> DEFINE n == Len(phcs)
             Is(h) == h = [i \in 0..n |-> IF i = 0 THEN s ELSE Turn(h[i - 1], src, phcs, i)]
             g == [i \in 1..n |-> [t \in Scripts |-> Turn(t, src, phcs, i)]]
  <1>0. n \in Nat
    BY PhcFields
  <1>1. f = CHOOSE h : Is(h)
    BY DEF Added, Turn
  <1>2. g \in [1..n -> [Scripts -> Scripts]]
    BY TurnTyped
  <1>3. PICK h \in [0..n -> Scripts] : Runs(h, n, s, g)
    <2> HIDE DEF g, n
    <2> QED  BY <1>0, <1>2, LoopRuns
  <1>4. Is(h)
    <2> HIDE DEF n
    <2>1. \A i \in 1..n : h[i - 1] \in Scripts
      BY <1>0
    <2>2. \A i \in 1..n : h[i] = Turn(h[i - 1], src, phcs, i)
      BY <1>3, <2>1 DEF Runs
    <2> QED  BY <1>0, <1>3, <2>2 DEF Runs
  <1>5. Is(f)
    <2> HIDE DEF Is
    <2> QED  BY <1>1, <1>4
  <1> HIDE DEF n
  <1>6. f[0] = s /\ \A i \in 1..n : f[i] = Turn(f[i - 1], src, phcs, i)
    BY <1>0, <1>5
  <1> QED  BY <1>6 DEF n

\* All interfaces of a new source: the script stays sound and each has a process.
LEMMA InterfacesAdded ==
  ASSUME NEW s \in Scripts, Sound(s), NEW src \in Nat, NEW phcs \in PhcLists, New(s, src, phcs)
  PROVE  Turned(s, src, phcs, Len(phcs), Added(s, src, phcs)[Len(phcs)])
  <1> DEFINE f == Added(s, src, phcs)
             n == Len(phcs)
             P == [i \in 0..n |-> Turned(s, src, phcs, i, f[i])]
  <1>0. n \in Nat
    BY PhcFields
  <1>1. f[0] = s /\ \A i \in 1..n : f[i] = Turn(f[i - 1], src, phcs, i)
    BY InterfaceTurns
  <1> HIDE DEF f
  <1>2. P[0]
    <2>1. Turned(s, src, phcs, 0, s)
      BY DEF Turned
    <2> QED  BY <1>0, <1>1, <2>1
  <1>3. ASSUME NEW i \in 1..n, P[i - 1] PROVE P[i]
    <2>1. i - 1 \in 0..n /\ i \in 0..n
      BY <1>0
    <2>2. Turned(s, src, phcs, i - 1, f[i - 1])
      BY <1>3, <2>1
    <2>3. Turned(s, src, phcs, i, Turn(f[i - 1], src, phcs, i))
      BY <2>2, TurnHolds
    <2> QED  BY <1>1, <2>1, <2>3
  <1>4. \A i \in 0..n : P[i]
    <2> HIDE DEF P, n
    <2> QED  BY <1>0, <1>2, <1>3, LoopKeeps
  <1>5. n \in 0..n
    BY <1>0
  <1>6. Turned(s, src, phcs, n, f[n])
    BY <1>4, <1>5
  <1> QED  BY <1>6 DEF f

ConfigRecords == [sources : Seq(SourceRecords), first_shm : Nat, restart : BOOLEAN]

\* What the script has become after k sources.
Grown(c, k, s) ==
  /\ s \in Scripts /\ Sound(s)
  /\ \A m, n \in Nat : Covered(s, <<m, n>>) => m \in 1..k
  /\ s.ok => \A m \in 1..k : c.sources[m].type = "ptp" =>
       \A n \in DOMAIN c.sources[m].ifs : Covered(s, <<m, n>>)

\* The fields of a configuration.
LEMMA ConfigFields ==
  ASSUME NEW c \in ConfigRecords
  PROVE  /\ c.sources \in Seq(SourceRecords) /\ c.first_shm \in Nat
         /\ Len(c.sources) \in Nat /\ DOMAIN c.sources = 1..Len(c.sources)
         /\ \A k \in 1..Len(c.sources) : /\ c.sources[k].type \in {"ntp", "ptp"}
                                         /\ c.sources[k].ifs \in Seq(Interfaces)
  <1>1. c.sources \in Seq(SourceRecords) /\ c.first_shm \in Nat
    BY DEF ConfigRecords
  <1>2. Len(c.sources) \in Nat /\ DOMAIN c.sources = 1..Len(c.sources)
    BY <1>1
  <1>3. ASSUME NEW k \in 1..Len(c.sources)
        PROVE c.sources[k].type \in {"ntp", "ptp"} /\ c.sources[k].ifs \in Seq(Interfaces)
    <2>1. c.sources[k] \in SourceRecords
      BY <1>1
    <2> QED  BY <2>1 DEF SourceRecords
  <1> QED  BY <1>1, <1>2, <1>3

\* The PHCs a source will use are those nobody uses.
LEMMA PhcsTyped ==
  ASSUME NEW s \in Scripts, NEW ifs \in Seq(Interfaces), ~\E i \in DOMAIN ifs : ifs[i] = BAD
  PROVE  /\ Phcs(s, ifs) \in PhcLists /\ Len(Phcs(s, ifs)) = Len(ifs)
         /\ \A i \in 1..Len(ifs) : Phcs(s, ifs)[i] \notin s.used
  <1>1. Len(ifs) \in Nat /\ DOMAIN ifs = 1..Len(ifs)
    OBVIOUS
  <1>2. ASSUME NEW i \in 1..Len(ifs)
        PROVE  Phcs(s, ifs)[i] \in Nat \cup {SW} /\ Phcs(s, ifs)[i] \notin s.used
    <2>1. s.used \in SUBSET Nat
      BY ScriptFields
    <2>2. ifs[i] \in Interfaces
      BY <1>1
    <2>3. Usable(s, ifs[i]) => ifs[i] \in Nat /\ ifs[i] \notin s.used
      BY <2>2 DEF Usable, Interfaces, SW, BAD
    <2>4. SW \notin Nat
      BY DEF SW
    <2>5. Phcs(s, ifs)[i] = IF Usable(s, ifs[i]) THEN ifs[i] ELSE SW
      BY <1>1 DEF Phcs
    <2> QED  BY <2>1, <2>3, <2>4, <2>5
  <1>3. Phcs(s, ifs) = [i \in 1..Len(ifs) |-> Phcs(s, ifs)[i]]
    BY <1>1 DEF Phcs
  <1>4. Phcs(s, ifs) \in [1..Len(ifs) -> Nat \cup {SW}]
    BY <1>2, <1>3
  <1>5. Phcs(s, ifs) \in PhcLists
    BY <1>1, <1>4 DEF PhcLists
  <1>6. Len(Phcs(s, ifs)) = Len(ifs)
    BY <1>1, <1>4
  <1> QED  BY <1>2, <1>5, <1>6

\* One turn of the loop over the sources.
LEMMA SourceHolds ==
  ASSUME NEW c \in ConfigRecords, NEW k \in 1..Len(c.sources), NEW s, Grown(c, k - 1, s)
  PROVE  Grown(c, k, AddSource(c, s, k))
  <1> DEFINE t == AddSource(c, s, k)
             ifs == c.sources[k].ifs
             phcs == Phcs(s, ifs)
  <1>0. /\ s \in Scripts /\ Sound(s)
        /\ \A m, n \in Nat : Covered(s, <<m, n>>) => m \in 1..k - 1
        /\ s.ok => \A m \in 1..k - 1 : c.sources[m].type = "ptp" =>
             \A n \in DOMAIN c.sources[m].ifs : Covered(s, <<m, n>>)
    BY DEF Grown
  <1>1. /\ Len(c.sources) \in Nat /\ c.sources[k].type \in {"ntp", "ptp"}
        /\ ifs \in Seq(Interfaces)
    BY ConfigFields
  <1>2. k \in Nat /\ 1..k = (1..k - 1) \cup {k} /\ k \notin 1..k - 1
    BY <1>1
  <1>3. CASE c.sources[k].type = "ntp"
    <2>1. t = s
      BY <1>3 DEF AddSource
    <2> HIDE DEF t
    <2> QED  BY <1>0, <1>2, <1>3, <2>1 DEF Grown, t
  <1>4. CASE c.sources[k].type = "ptp" /\ \E i \in DOMAIN ifs : ifs[i] = BAD
    <2>1. t = [s EXCEPT !.ok = FALSE]
      BY <1>4 DEF AddSource, add_ptp_source
    <2> HIDE DEF t
    <2>2. /\ t \in Scripts /\ t.ok = FALSE
          /\ t.cmds = s.cmds /\ t.refclocks = s.refclocks /\ t.used = s.used /\ t.shm = s.shm
      BY <1>0, <2>1 DEF Scripts
    <2>3. Sound(t)
      BY <1>0, <2>2 DEF Sound, Known
    <2>4. \A x : Covered(t, x) <=> Covered(s, x)
      BY <2>2 DEF Covered
    <2>5. Grown(c, k, t)
      BY <1>0, <1>2, <2>2, <2>3, <2>4 DEF Grown
    <2> QED  BY <2>5 DEF t
  <1>5. CASE c.sources[k].type = "ptp" /\ ~\E i \in DOMAIN ifs : ifs[i] = BAD
    <2>1. /\ phcs \in PhcLists /\ Len(phcs) = Len(ifs) /\ \A i \in 1..Len(ifs) : phcs[i] \notin s.used
      <3> HIDE DEF ifs
      <3> QED  BY <1>0, <1>1, <1>5, PhcsTyped
    <2>2. Len(ifs) \in Nat /\ DOMAIN ifs = 1..Len(ifs)
      BY <1>1
    <2>3. t = Added(s, k, phcs)[Len(phcs)]
      BY <1>5, <2>1 DEF AddSource, add_ptp_source
    <2> HIDE DEF t, phcs, ifs
    <2>4. New(s, k, phcs)
      BY <1>0, <1>2, <2>1, <2>2 DEF New
    <2>5. Turned(s, k, phcs, Len(phcs), t)
      BY <1>0, <1>2, <2>1, <2>3, <2>4, InterfacesAdded
    <2>6. /\ t \in Scripts /\ Sound(t) /\ t.ok = s.ok
          /\ \A x : Covered(t, x) <=>
               Covered(s, x) \/ \E l \in 1..Len(phcs) : \E j \in Mates(phcs, l) : x = <<k, j>>
      BY <2>5 DEF Turned
    <2>7. ASSUME NEW m \in Nat, NEW n \in Nat, Covered(t, <<m, n>>) PROVE m \in 1..k
      BY <1>0, <1>2, <2>6, <2>7
    <2>8. ASSUME NEW n \in DOMAIN ifs PROVE Covered(t, <<k, n>>)
      <3>1. n \in Mates(phcs, n)
        BY <2>1, <2>2, MatesApart
      <3> QED  BY <2>1, <2>2, <2>6, <3>1
    <2>9. ASSUME t.ok, NEW m \in 1..k, c.sources[m].type = "ptp", NEW n \in DOMAIN c.sources[m].ifs
          PROVE  Covered(t, <<m, n>>)
      <3>1. CASE m = k
        BY <2>8, <3>1 DEF ifs
      <3>2. CASE m \in 1..k - 1
        BY <1>0, <2>6, <2>9, <3>2
      <3> QED  BY <1>2, <3>1, <3>2
    <2>10. Grown(c, k, t)
      BY <2>6, <2>7, <2>9 DEF Grown
    <2> QED  BY <2>10 DEF t
  <1> QED  BY <1>1, <1>3, <1>4, <1>5

\* A script without sources.
LEMMA EmptyHolds ==
  ASSUME NEW c \in ConfigRecords
  PROVE  Grown(c, 0, EmptyScript(c))
  <1> DEFINE s == EmptyScript(c)
             ntp == Command("ntp", 0, {}, NULL, NULL)
  <1>1. ntp \in CommandRecords /\ ntp.prog = "ntp" /\ ntp.ifs = {} /\ ntp.shm = NULL
    BY DEF CommandRecords, Command
  <1> HIDE DEF ntp
  <1>2. s = [cmds |-> <<ntp>>, refclocks |-> <<>>, shm |-> c.first_shm,
             group |-> 1, used |-> {}, ok |-> TRUE]
    BY DEF EmptyScript, ntp
  <1> HIDE DEF s
  <1>3. <<ntp>> \in Seq(CommandRecords) /\ <<>> \in Seq(Nat) /\ c.first_shm \in Nat
    BY <1>1, ConfigFields
  <1>4. s \in Scripts
    BY <1>2, <1>3 DEF Scripts
  <1>5. s.cmds = <<ntp>> /\ s.refclocks = <<>>
    BY <1>2
  <1>6. DOMAIN s.cmds = {1} /\ s.cmds[1] = ntp /\ DOMAIN s.refclocks = {}
    BY <1>5
  <1>7. Sound(s)
    BY <1>1, <1>6 DEF Sound, Known, Hard
  <1>8. \A x : ~Covered(s, x)
    BY <1>1, <1>6 DEF Covered
  <1>9. Grown(c, 0, s)
    BY <1>4, <1>7, <1>8 DEF Grown
  <1> QED  BY <1>9 DEF s

\* A turn of the loop over the sources makes a script of a script.
LEMMA SourceTyped ==
  ASSUME NEW c \in ConfigRecords, NEW s \in Scripts, NEW k \in 1..Len(c.sources)
  PROVE  AddSource(c, s, k) \in Scripts
  <1> DEFINE ifs == c.sources[k].ifs
             phcs == Phcs(s, ifs)
             n == Len(phcs)
             f == Added(s, k, phcs)
             P == [i \in 0..n |-> f[i] \in Scripts]
  <1>1. c.sources[k].type \in {"ntp", "ptp"} /\ ifs \in Seq(Interfaces) /\ k \in Nat
    BY ConfigFields
  <1>2. CASE c.sources[k].type = "ntp"
    BY <1>2 DEF AddSource
  <1>3. CASE c.sources[k].type = "ptp" /\ \E i \in DOMAIN ifs : ifs[i] = BAD
    BY <1>3 DEF AddSource, add_ptp_source, Scripts
  <1>4. CASE c.sources[k].type = "ptp" /\ ~\E i \in DOMAIN ifs : ifs[i] = BAD
    <2>1. phcs \in PhcLists /\ Len(phcs) = Len(ifs)
      <3> HIDE DEF ifs
      <3> QED  BY <1>1, <1>4, PhcsTyped
    <2>2. AddSource(c, s, k) = f[n]
      BY <1>4, <2>1 DEF AddSource, add_ptp_source
    <2> HIDE DEF phcs
    <2>3. f[0] = s /\ \A i \in 1..n : f[i] = Turn(f[i - 1], k, phcs, i)
      BY <1>1, <2>1, InterfaceTurns
    <2>4. n \in Nat
      BY <2>1, PhcFields
    <2> HIDE DEF f
    <2>5. P[0]
      <3>1. 0 \in 0..n /\ f[0] \in Scripts
        BY <2>3, <2>4
      <3> QED  BY <3>1
    <2>6. ASSUME NEW i \in 1..n, P[i - 1] PROVE P[i]
      <3>1. i - 1 \in 0..n /\ i \in 0..n
        BY <2>4
      <3>2. f[i - 1] \in Scripts
        BY <2>6, <3>1
      <3>3. Turn(f[i - 1], k, phcs, i) \in Scripts
        BY <1>1, <2>1, <3>2, TurnTyped
      <3> QED  BY <2>3, <3>1, <3>3
    <2>7. \A i \in 0..n : P[i]
      <3> HIDE DEF P, n
      <3> QED  BY <2>4, <2>5, <2>6, LoopKeeps
    <2>8. n \in 0..n
      BY <2>4
    <2> QED  BY <2>2, <2>7, <2>8
  <1> QED  BY <1>1, <1>2, <1>3, <1>4

\* The loop over the sources does what its body says, turn by turn.
LEMMA SourceTurns ==
  ASSUME NEW c \in ConfigRecords, NEW f, f = Built(c)
  PROVE  /\ f[0] = EmptyScript(c)
         /\ \A k \in 1..Len(c.sources) : f[k] = AddSource(c, f[k - 1], k)
  <1> DEFINE n == Len(c.sources)
             base == EmptyScript(c)
             Is(h) == h = [k \in 0..n |-> IF k = 0 THEN base ELSE AddSource(c, h[k - 1], k)]
             g == [k \in 1..n |-> [t \in Scripts |-> AddSource(c, t, k)]]
  <1>0. n \in Nat
    BY ConfigFields
  <1>1. f = CHOOSE h : Is(h)
    BY DEF Built
  <1>2. g \in [1..n -> [Scripts -> Scripts]]
    BY SourceTyped
  <1>3. base \in Scripts
    BY EmptyHolds DEF Grown
  <1>4. PICK h \in [0..n -> Scripts] : Runs(h, n, base, g)
    <2> HIDE DEF g, n, base
    <2> QED  BY <1>0, <1>2, <1>3, LoopRuns
  <1> HIDE DEF base
  <1>5. Is(h)
    <2> HIDE DEF n
    <2>1. \A k \in 1..n : h[k - 1] \in Scripts
      BY <1>0
    <2>2. \A k \in 1..n : h[k] = AddSource(c, h[k - 1], k)
      BY <1>4, <2>1 DEF Runs
    <2> QED  BY <1>0, <1>4, <2>2 DEF Runs
  <1>6. Is(f)
    <2> HIDE DEF Is
    <2> QED  BY <1>1, <1>5
  <1> HIDE DEF n
  <1>7. f[0] = base /\ \A k \in 1..n : f[k] = AddSource(c, f[k - 1], k)
    BY <1>0, <1>6
  <1> QED  BY <1>7 DEF n, base

\* The script that script_create returns.
LEMMA Created ==
  ASSUME NEW c \in ConfigRecords, script_create(c) # NULL
  PROVE  Grown(c, Len(c.sources), script_create(c)) /\ script_create(c).ok
  <1> DEFINE f == Built(c)
             n == Len(c.sources)
             P == [k \in 0..n |-> Grown(c, k, f[k])]
  <1>0. n \in Nat
    BY ConfigFields
  <1>1. f[0] = EmptyScript(c) /\ \A k \in 1..n : f[k] = AddSource(c, f[k - 1], k)
    BY SourceTurns
  <1>2. script_create(c) = f[n] /\ f[n].ok
    BY DEF script_create
  <1> HIDE DEF f
  <1>3. P[0]
    BY <1>0, <1>1, EmptyHolds
  <1>4. ASSUME NEW k \in 1..n, P[k - 1] PROVE P[k]
    <2>1. k - 1 \in 0..n /\ k \in 0..n
      BY <1>0
    <2>2. Grown(c, k - 1, f[k - 1])
      BY <1>4, <2>1
    <2>3. Grown(c, k, AddSource(c, f[k - 1], k))
      BY <2>2, SourceHolds
    <2> QED  BY <1>1, <2>1, <2>3
  <1>5. \A k \in 0..n : P[k]
    <2> HIDE DEF P, n
    <2> QED  BY <1>0, <1>3, <1>4, LoopKeeps
  <1>6. n \in 0..n
    BY <1>0
  <1>7. Grown(c, n, f[n])
    BY <1>5, <1>6
  <1> QED  BY <1>2, <1>7

\* The script is a finite list of commands.
ScriptOK == script # NULL => script.cmds \in Seq(CommandRecords)

\* The script is the one made of the configuration, for ever.
Made == conf \in Configs /\ script = script_create(conf)

\* A script that was made is sound, in the words of ScriptSound.
LEMMA MadeSound == Made => ScriptSound /\ ScriptOK
  <1> SUFFICES ASSUME Made, script # NULL PROVE ScriptSound /\ ScriptOK
    BY DEF ScriptSound, ScriptOK
  <1>1. conf \in ConfigRecords /\ script = script_create(conf) /\ NULL \notin Nat
    BY TimemasterAssumption DEF Made, ConfigRecords
  <1>2. Grown(conf, Len(conf.sources), script) /\ script.ok
    BY <1>1, Created
  <1>3. script \in Scripts /\ Sound(script)
    BY <1>2 DEF Grown
  <1>4. Commands = DOMAIN script.cmds /\ script.refclocks \in Seq(Nat)
    BY <1>3, ScriptFields DEF Commands
  <1>5. ASSUME NEW i \in Commands, NEW j \in Commands, i # j
        PROVE  Apart(script.cmds[i], script.cmds[j])
    BY <1>3, <1>4, <1>5 DEF Sound
  <1>6. ASSUME NEW i \in Commands, NEW j \in Commands, i # j, Uses(i), Uses(j)
        PROVE  script.cmds[i].phc # script.cmds[j].phc
    BY <1>5, <1>6 DEF Apart, Uses, Hard
  <1>7. ASSUME NEW k \in DOMAIN conf.sources, conf.sources[k].type = "ptp",
               NEW n \in DOMAIN conf.sources[k].ifs
        PROVE  Cardinality({i \in Commands : <<k, n>> \in script.cmds[i].ifs}) = 1
    <2>1. k \in 1..Len(conf.sources)
      BY <1>1, ConfigFields
    <2>2. Covered(script, <<k, n>>)
      BY <1>2, <1>7, <2>1 DEF Grown
    <2>3. PICK i \in Commands : <<k, n>> \in script.cmds[i].ifs
      BY <1>4, <2>2 DEF Covered
    <2>4. ASSUME NEW j \in Commands, <<k, n>> \in script.cmds[j].ifs PROVE j = i
      BY <1>5, <2>3, <2>4 DEF Apart
    <2>5. {j \in Commands : <<k, n>> \in script.cmds[j].ifs} = {i}
      BY <2>3, <2>4
    <2> QED  BY <2>5, FS_Singleton
  <1>8. ASSUME NEW n \in DOMAIN script.refclocks
        PROVE  Cardinality({i \in Commands : script.cmds[i].shm = script.refclocks[n]}) = 1
    <2>1. PICK i \in Commands : script.cmds[i].shm = script.refclocks[n]
      BY <1>3, <1>4 DEF Sound
    <2>2. script.refclocks[n] # NULL
      BY <1>1, <1>4
    <2>3. ASSUME NEW j \in Commands, script.cmds[j].shm = script.refclocks[n] PROVE j = i
      BY <1>5, <2>1, <2>2, <2>3 DEF Apart
    <2>4. {j \in Commands : script.cmds[j].shm = script.refclocks[n]} = {i}
      BY <2>1, <2>3
    <2> QED  BY <2>4, FS_Singleton
  <1>9. ScriptOK
    BY <1>3, ScriptFields DEF ScriptOK
  <1> QED  BY <1>6, <1>7, <1>8, <1>9 DEF ScriptSound

\* No PHC is disciplined by two ptp4l processes, every usable interface of every
\* source has exactly one, and every SHM segment one writer, whatever the sources
\* and however they share interfaces and PHCs (add_ptp_source, script_create).
THEOREM ScriptsAreSound == Spec => []ScriptSound
  <1>1. Init => Made
    BY DEF Init, Made
  <1>2. Made /\ [Next]_vars => Made'
    BY DEF Made, Next, Main, vars, bounds, create_config_files, Start, AllStarted, TakeTerm, TakeChld,
           ReapQuitting, ReapGiveUp, ReapRestart, Die, Obey, UserSignal, Age
  <1>3. Made => ScriptSound
    BY MadeSound
  <1> QED  BY <1>1, <1>2, <1>3, PTL DEF Spec

-----------------------------------------------------------------------------
(* script_run.                                                             *)

States == {"none", "running", "told", "zombie"}

\* NoLostChild, and what it rests on: nothing was started before the files were
\* written, and a program without a script starts nothing.
IInv ==
  /\ ScriptOK
  /\ NoLostChild
  /\ script = NULL => pc \in {"create", "exited"}
  /\ pc = "create" => \A i \in Commands : proc[i] = "none"

\* The commands are numbered from 1.
LEMMA CommandNumbers ==
  ASSUME ScriptOK
  PROVE  /\ script # NULL => num_commands \in Nat /\ Commands = 1..num_commands
         /\ Cardinality(Commands) \in Nat
         /\ script # NULL => Cardinality(Commands) = num_commands
  <1>1. CASE script = NULL
    BY <1>1, FS_EmptySet DEF Commands
  <1>2. CASE script # NULL
    <2>1. num_commands \in Nat /\ Commands = 1..num_commands
      BY <1>2 DEF ScriptOK, Commands, num_commands
    <2>2. Cardinality(1..num_commands) = IF 1 > num_commands THEN 0 ELSE num_commands - 1 + 1
      BY <2>1, FS_Interval
    <2> QED  BY <1>2, <2>1, <2>2
  <1> QED  BY <1>1, <1>2

\* The invariant holds when timemaster starts.
LEMMA InitInv == Init => IInv
  <1> SUFFICES ASSUME Init PROVE IInv
    OBVIOUS
  <1>1. ScriptOK
    BY MadeSound DEF Init, Made
  <1>2. Cardinality(Commands) \in Nat
    BY <1>1, CommandNumbers
  <1>3. next \in 1..(Cardinality(Commands) + 1)
    BY <1>2 DEF Init
  <1>4. /\ proc \in [Commands -> {"none", "running", "told", "zombie"}]
        /\ \A i \in Commands : proc[i] = "none"
    BY DEF Init
  <1> QED  BY <1>1, <1>3, <1>4 DEF Init, IInv, NoLostChild, TypeOK

\* What reaping leaves: the processes that have not ended.
LEMMA ReapedFacts ==
  ASSUME proc \in [Commands -> States]
  PROVE  /\ Reaped(proc) \in [Commands -> States]
         /\ \A i \in Commands : /\ Reaped(proc)[i] # "zombie"
                                /\ Reaped(proc)[i] = "none" => proc[i] \in {"none", "zombie"}
                                /\ Reaped(proc)[i] = "running" => proc[i] = "running"
  BY DEF Reaped, States

\* Every step keeps the invariant.
LEMMA NextInv == IInv /\ [Next]_vars => IInv'
  <1> SUFFICES ASSUME IInv, [Next]_vars PROVE IInv'
    OBVIOUS
  <1>0. /\ TypeOK /\ ScriptOK /\ proc \in [Commands -> States]
        /\ Cardinality(Commands) \in Nat
        /\ script # NULL => num_commands \in Nat /\ Commands = 1..num_commands
                            /\ Cardinality(Commands) = num_commands
        /\ (\E i \in Commands : proc[i] = "zombie") => "CHLD" \in pending \/ pc = "reap"
        /\ pc = "exited" => \A i \in Commands : proc[i] = "none"
    BY CommandNumbers DEF IInv, NoLostChild, TypeOK, States
  <1>1. script' = script => Commands' = Commands /\ ScriptOK'
    BY <1>0 DEF Commands, ScriptOK
  <1>2. CASE UNCHANGED vars
    BY <1>0, <1>1, <1>2 DEF vars, IInv, NoLostChild, TypeOK
  <1>3. CASE create_config_files
    BY <1>0, <1>1, <1>3 DEF create_config_files, IInv, NoLostChild, TypeOK
  <1>4. CASE Start
    <2>1. script # NULL /\ next \in Commands /\ next + 1 \in 1..(Cardinality(Commands) + 1)
      BY <1>0, <1>4 DEF Start, IInv, TypeOK
    <2> QED  BY <1>0, <1>1, <1>4, <2>1 DEF Start, IInv, NoLostChild, TypeOK
  <1>5. CASE AllStarted
    BY <1>0, <1>1, <1>5 DEF AllStarted, IInv, NoLostChild, TypeOK, bounds
  <1>6. CASE TakeTerm
    <2>1. /\ proc' \in [Commands -> States]
          /\ \A i \in Commands : proc'[i] = "zombie" => proc[i] = "zombie"
      BY <1>0, <1>6 DEF TakeTerm, Kill, States
    <2> QED  BY <1>0, <1>1, <1>6, <2>1 DEF TakeTerm, IInv, NoLostChild, TypeOK, bounds, States
  <1>7. CASE TakeChld
    BY <1>0, <1>1, <1>7 DEF TakeChld, IInv, NoLostChild, TypeOK, bounds
  <1>8. CASE ReapQuitting
    <2>1. proc' \in [Commands -> States] /\ \A i \in Commands : proc'[i] # "zombie"
      BY <1>0, <1>8, ReapedFacts DEF ReapQuitting
    <2> QED  BY <1>0, <1>1, <1>8, <2>1
                DEF ReapQuitting, AllGone, IInv, NoLostChild, TypeOK, bounds, States
  <1>9. CASE ReapGiveUp
    <2>1. proc' \in [Commands -> States] /\ \A i \in Commands : proc'[i] # "zombie"
      BY <1>0, <1>9, ReapedFacts DEF ReapGiveUp
    <2> QED  BY <1>0, <1>1, <1>9, <2>1
                DEF ReapGiveUp, IInv, NoLostChild, TypeOK, bounds, States
  <1>10. CASE ReapRestart
    <2>1. proc' \in [Commands -> States] /\ \A i \in Commands : proc'[i] # "zombie"
      BY <1>0, <1>10, ReapedFacts DEF ReapRestart, States
    <2>2. pending' \subseteq {"CHLD", "TERM"}
      BY <1>0, <1>10 DEF ReapRestart, TypeOK
    <2> QED  BY <1>0, <1>1, <1>10, <2>1, <2>2
                DEF ReapRestart, IInv, NoLostChild, TypeOK, States
  <1>11. ASSUME NEW i \in Commands, Die(i) \/ Obey(i) PROVE IInv'
    BY <1>0, <1>1, <1>11 DEF Die, Obey, Ends, IInv, NoLostChild, TypeOK, bounds, States
  <1>12. CASE UserSignal
    BY <1>0, <1>1, <1>12 DEF UserSignal, IInv, NoLostChild, TypeOK
  <1>13. CASE Age
    BY <1>0, <1>1, <1>13 DEF Age, IInv, NoLostChild, TypeOK, bounds
  <1> QED  BY <1>2, <1>3, <1>4, <1>5, <1>6, <1>7, <1>8, <1>9, <1>10, <1>11, <1>12, <1>13
              DEF Next, Main

\* The invariant, in every state.
THEOREM Invariant == Spec => []IInv
  BY InitInv, NextInv, PTL DEF Spec

\* No process that has ended goes unnoticed, and none is left behind when
\* timemaster exits (script_run).
THEOREM ChildrenKept == Spec => []NoLostChild
  <1>1. IInv => NoLostChild
    BY DEF IInv
  <1> QED  BY <1>1, Invariant, PTL

\* A process is started again only when nothing of its group is left (script_run).
THEOREM GenerationsApart == Spec => GroupsTogether
  <1> DEFINE P == pc = "reap" =>
       \A i \in Commands : proc[i] \in {"none", "zombie"} /\ proc'[i] = "running" =>
         \A j \in Members(script.cmds[i].group) : proc[j] \in {"none", "zombie"}
  <1>1. ASSUME IInv, Next PROVE P
    <2>0. proc \in [Commands -> States]
      BY <1>1 DEF IInv, NoLostChild, TypeOK, States
    <2> SUFFICES ASSUME pc = "reap", NEW i \in Commands, proc[i] \in {"none", "zombie"},
                        proc'[i] = "running", NEW j \in Members(script.cmds[i].group)
                 PROVE  proc[j] \in {"none", "zombie"}
      OBVIOUS
    <2>1. ~(ReapQuitting \/ ReapGiveUp)
      BY <2>0, ReapedFacts DEF ReapQuitting, ReapGiveUp
    <2>2. CASE ReapRestart
      <3>1. i \in Restartable(Reaped(proc))
        BY <2>0, <2>2, ReapedFacts DEF ReapRestart
      <3>2. Reaped(proc)[j] = "none" /\ j \in Commands
        BY <3>1 DEF Restartable, Gone, Members
      <3> QED  BY <2>0, <3>2, ReapedFacts
    <2>3. ~(\E k \in Commands : Die(k) \/ Obey(k))
      BY <2>0 DEF Die, Obey, Ends
    <2>4. ~(UserSignal \/ Age)
      BY DEF UserSignal, Age
    <2>5. ~(create_config_files \/ Start \/ AllStarted \/ TakeTerm \/ TakeChld)
      BY DEF create_config_files, Start, AllStarted, TakeTerm, TakeChld
    <2> QED  BY <1>1, <2>1, <2>2, <2>3, <2>4, <2>5 DEF Next, Main
  <1>2. IInv /\ [Next]_vars => [P]_vars
    BY <1>1
  <1> QED  BY <1>2, Invariant, PTL DEF Spec, GroupsTogether
=============================================================================
