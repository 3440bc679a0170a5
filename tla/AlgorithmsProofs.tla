-------------------------- MODULE AlgorithmsProofs --------------------------
(***************************************************************************)
(* What the data set comparison promises for every pair and triple of data *)
(* sets: swapping the arguments swaps the answer, and the relation "better *)
(* than" is transitive; and what the selection loop makes of that: it      *)
(* finds the best of every list, in whatever order the foreign masters     *)
(* were discovered.                                                        *)
(***************************************************************************)
EXTENDS Algorithms, WellFoundedInduction, TLAPS

\* The fields of a port identity are numbers, and they determine it.
LEMMA PidFields ==
  ASSUME NEW x \in PortIdentity, NEW y \in PortIdentity
  PROVE  /\ x.id \in Nat /\ x.lo \in Nat /\ x.hi \in Nat
         /\ x.id = y.id /\ x.lo = y.lo /\ x.hi = y.hi => x = y
  BY DEF PortIdentity

\* The byte comparison of port identities is a strict total order.
LEMMA PidLessTrichotomy ==
  ASSUME NEW x \in PortIdentity, NEW y \in PortIdentity
  PROVE  /\ ~(PidLess(x, y) /\ PidLess(y, x))
         /\ PidLess(x, y) \/ PidLess(y, x) \/ x = y
         /\ ~PidLess(x, x)
  BY PidFields DEF PidLess

\* The byte comparison of port identities is transitive.
LEMMA PidLessTransitive ==
  ASSUME NEW x \in PortIdentity, NEW y \in PortIdentity, NEW z \in PortIdentity,
         PidLess(x, y), PidLess(y, z)
  PROVE  PidLess(x, z)
  BY PidFields DEF PidLess

\* The topology comparison dscmp2 answers with opposite signs and the same
\* strength when its arguments are swapped.
THEOREM Dscmp2Antisymmetric ==
  ASSUME NEW a \in Dataset, NEW b \in Dataset
  PROVE  dscmp2(a, b) = 0 - dscmp2(b, a)
  <1>1. /\ a.sender \in PortIdentity /\ a.receiver \in PortIdentity
        /\ b.sender \in PortIdentity /\ b.receiver \in PortIdentity
        /\ a.stepsRemoved \in Nat /\ b.stepsRemoved \in Nat
    BY DEF Dataset
  <1>2. /\ portNumber(a.receiver) \in Nat
        /\ portNumber(b.receiver) \in Nat
    BY <1>1, PidFields DEF portNumber
  <1>3. /\ ~(PidLess(a.sender, b.sender) /\ PidLess(b.sender, a.sender))
        /\ ~(PidLess(a.sender, a.receiver) /\ PidLess(a.receiver, a.sender))
        /\ ~(PidLess(b.sender, b.receiver) /\ PidLess(b.receiver, b.sender))
        /\ ~PidLess(a.sender, a.sender)
        /\ ~PidLess(b.sender, b.sender)
    BY <1>1, PidLessTrichotomy
  <1> QED
    BY <1>1, <1>2, <1>3
       DEF dscmp2, A_BETTER, B_BETTER, A_BETTER_TOPO, B_BETTER_TOPO

\* With sender and receiver different, dscmp2 prefers exactly the data set
\* with fewer steps, then the smaller sender, then the smaller receiving port.
LEMMA Dscmp2Order ==
  ASSUME NEW a \in Foreign, NEW b \in Foreign
  PROVE  dscmp2(a, b) > 0 <=>
           \/ a.stepsRemoved < b.stepsRemoved
           \/ a.stepsRemoved = b.stepsRemoved /\ PidLess(a.sender, b.sender)
           \/ /\ a.stepsRemoved = b.stepsRemoved
              /\ a.sender = b.sender
              /\ portNumber(a.receiver) < portNumber(b.receiver)
  <1>1. /\ a.sender \in PortIdentity /\ a.receiver \in PortIdentity
        /\ b.sender \in PortIdentity /\ b.receiver \in PortIdentity
        /\ a.stepsRemoved \in Nat /\ b.stepsRemoved \in Nat
        /\ a.sender # a.receiver /\ b.sender # b.receiver
    BY DEF Dataset, Foreign
  <1>2. /\ portNumber(a.receiver) \in Nat
        /\ portNumber(b.receiver) \in Nat
    BY <1>1, PidFields DEF portNumber
  <1>3. /\ ~(PidLess(a.sender, b.sender) /\ PidLess(b.sender, a.sender))
        /\ ~(PidLess(a.sender, a.receiver) /\ PidLess(a.receiver, a.sender))
        /\ ~(PidLess(b.sender, b.receiver) /\ PidLess(b.receiver, b.sender))
        /\ PidLess(a.sender, a.receiver) \/ PidLess(a.receiver, a.sender)
        /\ PidLess(b.sender, b.receiver) \/ PidLess(b.receiver, b.sender)
        /\ ~PidLess(a.sender, a.sender)
        /\ ~PidLess(b.sender, b.sender)
    BY <1>1, PidLessTrichotomy
  <1> QED
    BY <1>1, <1>2, <1>3
       DEF dscmp2, A_BETTER, B_BETTER, A_BETTER_TOPO, B_BETTER_TOPO

\* The topology comparison is transitive on foreign data sets.
THEOREM Dscmp2Transitive ==
  ASSUME NEW a \in Foreign, NEW b \in Foreign, NEW c \in Foreign,
         dscmp2(a, b) > 0, dscmp2(b, c) > 0
  PROVE  dscmp2(a, c) > 0
  <1>1. /\ a.sender \in PortIdentity /\ a.receiver \in PortIdentity
        /\ b.sender \in PortIdentity /\ b.receiver \in PortIdentity
        /\ c.sender \in PortIdentity /\ c.receiver \in PortIdentity
        /\ a.stepsRemoved \in Nat /\ b.stepsRemoved \in Nat
        /\ c.stepsRemoved \in Nat
    BY DEF Dataset, Foreign
  <1>2. /\ portNumber(a.receiver) \in Nat
        /\ portNumber(b.receiver) \in Nat
        /\ portNumber(c.receiver) \in Nat
    BY <1>1, PidFields DEF portNumber
  <1>3. PidLess(a.sender, b.sender) /\ PidLess(b.sender, c.sender)
          => PidLess(a.sender, c.sender)
    BY <1>1, PidLessTransitive
  <1> QED
    BY <1>1, <1>2, <1>3, Dscmp2Order

\* The numeric attributes of a data set.
LEMMA DatasetFields ==
  ASSUME NEW a \in Dataset
  PROVE  /\ a.priority1 \in Nat /\ a.clockClass \in Nat
         /\ a.clockAccuracy \in Nat /\ a.variance \in Nat
         /\ a.priority2 \in Nat /\ a.identity \in Nat
         /\ a.localPriority \in Nat /\ a # NULL
  BY NullAssumption DEF Dataset

\* What dscmp2 may return.
LEMMA Dscmp2Values ==
  ASSUME NEW a \in Dataset, NEW b \in Dataset
  PROVE  dscmp2(a, b) \in -2..2
  BY DEF dscmp2, A_BETTER, B_BETTER, A_BETTER_TOPO, B_BETTER_TOPO

\* The default comparison dscmp is antisymmetric: two clocks that compare the
\* same pair of data sets never both think themselves better.
THEOREM DscmpAntisymmetric ==
  ASSUME NEW a \in Dataset \cup {NULL}, NEW b \in Dataset \cup {NULL}
  PROVE  dscmp(a, b) = 0 - dscmp(b, a)
  <1>1. CASE a \in Dataset /\ b \in Dataset
    <2>1. dscmp2(a, b) = 0 - dscmp2(b, a) /\ dscmp2(a, b) \in -2..2
      BY <1>1, Dscmp2Antisymmetric, Dscmp2Values
    <2> QED
      BY <1>1, <2>1, DatasetFields
         DEF dscmp, QualityLess, SameQuality, A_BETTER, B_BETTER
  <1>2. CASE a = NULL \/ b = NULL
    BY <1>2, NullAssumption DEF dscmp, A_BETTER, B_BETTER
  <1> QED
    BY <1>1, <1>2

\* The telecom profile comparison is antisymmetric.
THEOREM TelecomAntisymmetric ==
  ASSUME NEW a \in Dataset \cup {NULL}, NEW b \in Dataset \cup {NULL}
  PROVE  telecom_dscmp(a, b) = 0 - telecom_dscmp(b, a)
  <1>1. CASE a \in Dataset /\ b \in Dataset
    <2>1. dscmp2(a, b) = 0 - dscmp2(b, a) /\ dscmp2(a, b) \in -2..2
      BY <1>1, Dscmp2Antisymmetric, Dscmp2Values
    <2> QED
      BY <1>1, <2>1, DatasetFields
         DEF telecom_dscmp, QualityLess, SameQuality, A_BETTER, B_BETTER
  <1>2. CASE a = NULL \/ b = NULL
    BY <1>2, NullAssumption DEF telecom_dscmp, A_BETTER, B_BETTER
  <1> QED
    BY <1>1, <1>2

\* dscmp is transitive as long as each grandmaster is announced with the same
\* attributes on every path; it looks at the identities first, so without
\* that condition three data sets can beat each other in a circle.
THEOREM DscmpTransitive ==
  ASSUME NEW a \in Foreign, NEW b \in Foreign, NEW c \in Foreign,
         Consistent(a, b), Consistent(b, c), Consistent(a, c),
         dscmp(a, b) > 0, dscmp(b, c) > 0
  PROVE  dscmp(a, c) > 0
  <1>0. a \in Dataset /\ b \in Dataset /\ c \in Dataset
    BY DEF Foreign
  <1>1. dscmp2(a, b) > 0 /\ dscmp2(b, c) > 0 => dscmp2(a, c) > 0
    BY Dscmp2Transitive
  <1>2. dscmp2(a, a) = 0 /\ dscmp2(a, b) = 0 - dscmp2(b, a)
        /\ dscmp2(a, b) \in -2..2 /\ dscmp2(b, c) \in -2..2
    BY <1>0, Dscmp2Antisymmetric, Dscmp2Values
  <1> QED
    BY <1>0, <1>1, <1>2, DatasetFields
       DEF dscmp, QualityLess, SameQuality, Consistent, A_BETTER, B_BETTER

\* The telecom comparison is transitive whatever the grandmasters announce: it
\* looks at the attributes before the identities.
THEOREM TelecomTransitive ==
  ASSUME NEW a \in Foreign, NEW b \in Foreign, NEW c \in Foreign,
         telecom_dscmp(a, b) > 0, telecom_dscmp(b, c) > 0
  PROVE  telecom_dscmp(a, c) > 0
  <1>0. a \in Dataset /\ b \in Dataset /\ c \in Dataset
    BY DEF Foreign
  <1>1. dscmp2(a, b) > 0 /\ dscmp2(b, c) > 0 => dscmp2(a, c) > 0
    BY Dscmp2Transitive
  <1>2. dscmp2(a, a) = 0 /\ dscmp2(a, b) = 0 - dscmp2(b, a)
        /\ dscmp2(a, b) \in -2..2 /\ dscmp2(b, c) \in -2..2
    BY <1>0, Dscmp2Antisymmetric, Dscmp2Values
  <1> QED
    BY <1>0, <1>1, <1>2, DatasetFields
       DEF telecom_dscmp, QualityLess, SameQuality, A_BETTER, B_BETTER

\* Two data sets of different foreign masters of one clock never compare equal:
\* dscmp2 ends with the port number of the receiver, and that decides.
LEMMA Dscmp2Decides ==
  ASSUME NEW a \in Foreign, NEW b \in Foreign, a.receiver.id = b.receiver.id,
         <<a.sender, a.receiver>> # <<b.sender, b.receiver>>
  PROVE  dscmp2(a, b) > 0 \/ dscmp2(b, a) > 0
  <1>1. /\ a.sender \in PortIdentity /\ a.receiver \in PortIdentity
        /\ b.sender \in PortIdentity /\ b.receiver \in PortIdentity
        /\ a.stepsRemoved \in Nat /\ b.stepsRemoved \in Nat
    BY DEF Dataset, Foreign
  <1>2. /\ portNumber(a.receiver) \in Nat
        /\ portNumber(b.receiver) \in Nat
    BY <1>1, PidFields DEF portNumber
  <1>3. PidLess(a.sender, b.sender) \/ PidLess(b.sender, a.sender) \/ a.sender = b.sender
    BY <1>1, PidLessTrichotomy
  <1>4. a.receiver # b.receiver => portNumber(a.receiver) # portNumber(b.receiver)
    <2>1. /\ a.receiver.lo \in 0..255 /\ b.receiver.lo \in 0..255
          /\ a.receiver.hi \in 0..255 /\ b.receiver.hi \in 0..255
      BY <1>1 DEF PortIdentity
    <2>2. portNumber(a.receiver) = portNumber(b.receiver) =>
            a.receiver.lo = b.receiver.lo /\ a.receiver.hi = b.receiver.hi
      <3> DEFINE p == a.receiver.hi  q == a.receiver.lo
                 u == b.receiver.hi  v == b.receiver.lo
      <3>1. /\ portNumber(a.receiver) = 256 * p + q /\ portNumber(b.receiver) = 256 * u + v
            /\ p \in 0..255 /\ q \in 0..255 /\ u \in 0..255 /\ v \in 0..255
        BY <2>1 DEF portNumber
      <3> HIDE DEF p, q, u, v
      <3>2. 256 * p + q = 256 * u + v => q = v /\ p = u
        BY <3>1
      <3> QED  BY <3>1, <3>2 DEF p, q, u, v
    <2> QED  BY <1>1, <2>2, PidFields
  <1> QED
    BY <1>1, <1>2, <1>3, <1>4, Dscmp2Order

\* The same for the comparison the clock was configured with.
LEMMA Decides ==
  ASSUME NEW telecom \in BOOLEAN, NEW a \in Foreign, NEW b \in Foreign,
         a.receiver.id = b.receiver.id,
         <<a.sender, a.receiver>> # <<b.sender, b.receiver>>
  PROVE  clock_dscmp(telecom, a, b) > 0 \/ clock_dscmp(telecom, b, a) > 0
  <1>0. a \in Dataset /\ b \in Dataset /\ a # b
    BY DEF Foreign
  <1>1. dscmp2(a, b) > 0 \/ dscmp2(b, a) > 0
    BY Dscmp2Decides
  <1>2. dscmp(a, b) > 0 \/ dscmp(b, a) > 0
    BY <1>0, <1>1, DatasetFields
       DEF dscmp, QualityLess, SameQuality, A_BETTER, B_BETTER
  <1>3. telecom_dscmp(a, b) > 0 \/ telecom_dscmp(b, a) > 0
    BY <1>0, <1>1, DatasetFields
       DEF telecom_dscmp, QualityLess, SameQuality, A_BETTER, B_BETTER
  <1> QED
    BY <1>2, <1>3 DEF clock_dscmp

\* Both comparisons are transitive on the candidates.
LEMMA BetterTransitive ==
  ASSUME NEW telecom \in BOOLEAN, NEW a \in Candidates, NEW b \in Candidates, NEW c \in Candidates,
         clock_dscmp(telecom, a, b) > 0, clock_dscmp(telecom, b, c) > 0
  PROVE  clock_dscmp(telecom, a, c) > 0
  <1>1. /\ a \in Foreign /\ b \in Foreign /\ c \in Foreign
        /\ Consistent(a, b) /\ Consistent(b, c) /\ Consistent(a, c)
    BY CandidatesAssumption
  <1> QED
    BY <1>1, DscmpTransitive, TelecomTransitive DEF clock_dscmp
-----------------------------------------------------------------------------
\* A set of numbers that is not empty has a smallest one.
LEMMA Smallest ==
  ASSUME NEW T \in SUBSET Nat, T # {}
  PROVE  \E m \in T : \A k \in T : m <= k
  <1>1. PICK x \in T : \A y \in T : ~(<<y, x>> \in OpToRel(<, Nat))
    BY NatLessThanWellFounded, WFMin
  <1>2. \A y \in T : ~(y < x)
    BY <1>1 DEF OpToRel
  <1>3. \A y \in T : x <= y
    <2> SUFFICES ASSUME NEW y \in T PROVE x <= y
      OBVIOUS
    <2>1. x \in Nat /\ y \in Nat /\ ~(y < x)
      BY <1>2
    <2> QED  BY <2>1
  <1> QED  BY <1>3

\* f is a run of the loop over 1..n whose turns are the functions g: the states
\* after each turn.
Runs(f, n, base, g) == f[0] = base /\ \A i \in 1..n : f[i] = g[i][f[i - 1]]

\* A loop over 1..n with a state in W has a run.
LEMMA LoopRuns ==
  ASSUME NEW n \in Nat, NEW W, NEW base \in W, NEW g \in [1..n -> [W -> W]]
  PROVE  \E f \in [0..n -> W] : Runs(f, n, base, g)
  <1> DEFINE T == {k \in 0..n : ~(\E f \in [0..k -> W] : Runs(f, k, base, g))}
  <1>1. SUFFICES ASSUME T # {} PROVE FALSE
    BY n \in 0..n
  <1>2. PICK m \in T : \A k \in T : m <= k
    <2> T \in SUBSET Nat
      OBVIOUS
    <2> HIDE DEF T
    <2> QED  BY <1>1, Smallest
  <1>3. CASE m = 0
    <2>1. [i \in 0..0 |-> base] \in [0..0 -> W] /\ Runs([i \in 0..0 |-> base], 0, base, g)
      BY DEF Runs
    <2> QED  BY <1>2, <1>3, <2>1
  <1>4. CASE m # 0
    <2>1. m \in 1..n /\ m - 1 \in 0..n /\ m - 1 \notin T
      BY <1>2, <1>4
    <2>2. PICK f \in [0..m - 1 -> W] : Runs(f, m - 1, base, g)
      BY <2>1
    <2> DEFINE h == [i \in 0..m |-> IF i = m THEN g[m][f[m - 1]] ELSE f[i]]
    <2>3. f[m - 1] \in W /\ g[m][f[m - 1]] \in W
      BY <2>1
    <2>4. h \in [0..m -> W]
      BY <2>1, <2>3
    <2>5. Runs(h, m, base, g)
      <3>1. h[0] = base
        BY <2>1, <2>2 DEF Runs
      <3>2. ASSUME NEW i \in 1..m PROVE h[i] = g[i][h[i - 1]]
        <4>1. CASE i = m
          <5>1. h[m] = g[m][f[m - 1]] /\ h[m - 1] = f[m - 1]
            BY <2>1
          <5> QED  BY <4>1, <5>1
        <4>2. CASE i # m
          <5>1. i \in 1..m - 1 /\ h[i] = f[i] /\ h[i - 1] = f[i - 1]
            BY <2>1, <4>2
          <5> QED  BY <5>1, <2>2 DEF Runs
        <4> QED  BY <4>1, <4>2
      <3> HIDE DEF h
      <3> QED  BY <3>1, <3>2 DEF Runs
    <2> HIDE DEF h
    <2> QED  BY <1>2, <2>4, <2>5
  <1> QED  BY <1>3, <1>4

\* The selection loop does what its body says, turn by turn.
LEMMA LoopTurns ==
  ASSUME NEW telecom, NEW ds, Len(ds) \in Nat,
         NEW b, b = BestUpTo(telecom, ds)
  PROVE  /\ b \in [0..Len(ds) -> 0..Len(ds)] /\ b[0] = 0
         /\ \A i \in 1..Len(ds) :
              b[i] = IF ds[i] # NULL /\ (b[i - 1] = 0 \/ clock_dscmp(telecom, ds[i], ds[b[i - 1]]) > 0)
                     THEN i ELSE b[i - 1]
  <1> DEFINE n == Len(ds)
             Turn(i, at) == IF ds[i] # NULL /\ (at = 0 \/ clock_dscmp(telecom, ds[i], ds[at]) > 0)
                            THEN i ELSE at
             g == [i \in 1..n |-> [at \in 0..n |-> Turn(i, at)]]
             Is(f) == f = [i \in 0..n |-> IF i = 0 THEN 0 ELSE Turn(i, f[i - 1])]
  <1>1. \A i \in 1..n, at \in 0..n : Turn(i, at) \in 0..n
    OBVIOUS
  <1>2. BestUpTo(telecom, ds) = CHOOSE f : Is(f)
    BY DEF BestUpTo
  <1> HIDE DEF Turn
  <1>3. g \in [1..n -> [0..n -> 0..n]]
    BY <1>1
  <1>4. PICK f \in [0..n -> 0..n] : Runs(f, n, 0, g)
    <2> HIDE DEF g, n
    <2>1. n \in Nat /\ 0 \in 0..n
      BY DEF n
    <2> QED  BY <1>3, <2>1, LoopRuns
  <1>5. Is(f)
    <2>1. \A i \in 1..n : f[i - 1] \in 0..n
      OBVIOUS
    <2>2. \A i \in 1..n : f[i] = Turn(i, f[i - 1])
      BY <1>4, <2>1 DEF Runs
    <2> QED  BY <1>4, <2>2 DEF Runs
  <1>6. Is(b)
    <2> HIDE DEF Is
    <2> QED  BY <1>2, <1>5
  <1> HIDE DEF n
  <1>7. n \in Nat /\ b[0] = 0 /\ \A i \in 1..n : b[i] = Turn(i, b[i - 1])
    BY <1>6 DEF n
  <1>8. b \in [0..n -> 0..n]
    <2> DEFINE T == {k \in 0..n : ~(b[k] \in 0..n)}
    <2>1. SUFFICES ASSUME T # {} PROVE FALSE
      BY <1>6
    <2>2. PICK m \in T : \A k \in T : m <= k
      <3> T \in SUBSET Nat
        BY <1>7
      <3> HIDE DEF T
      <3> QED  BY <2>1, Smallest
    <2>3. m # 0
      BY <1>7, <2>2
    <2>4. m \in 1..n /\ m - 1 \in 0..n /\ ~(m <= m - 1)
      BY <1>7, <2>3
    <2>5. b[m - 1] \in 0..n
      BY <2>2, <2>4
    <2>6. b[m] \in 0..n
      BY <1>1, <1>7, <2>4, <2>5
    <2> QED  BY <2>2, <2>6
  <1> QED  BY <1>7, <1>8 DEF n, Turn

\* After every turn the loop holds an entry that is better than every other one
\* it has looked at.
LEMMA LoopHoldsBest ==
  ASSUME NEW telecom \in BOOLEAN, NEW ds \in Seq(Candidates),
         \A i, j \in 1..Len(ds) : i # j => <<ds[i].sender, ds[i].receiver>> # <<ds[j].sender, ds[j].receiver>>,
         NEW b, b = BestUpTo(telecom, ds), NEW k \in 0..Len(ds)
  PROVE  /\ k # 0 => b[k] \in 1..k
         /\ \A i \in 1..k : i = b[k] \/ clock_dscmp(telecom, ds[b[k]], ds[i]) > 0
  <1> DEFINE n == Len(ds)
             Holds(j) == /\ j # 0 => b[j] \in 1..j
                         /\ \A i \in 1..j : i = b[j] \/ clock_dscmp(telecom, ds[b[j]], ds[i]) > 0
             T == {j \in 0..n : ~Holds(j)}
  <1>0. n \in Nat /\ \A i \in 1..n : ds[i] \in Candidates
    OBVIOUS
  <1>1. /\ b \in [0..n -> 0..n] /\ b[0] = 0
        /\ \A i \in 1..n :
              b[i] = IF ds[i] # NULL /\ (b[i - 1] = 0 \/ clock_dscmp(telecom, ds[i], ds[b[i - 1]]) > 0)
                     THEN i ELSE b[i - 1]
    BY <1>0, LoopTurns
  <1>2. \A i, j \in 1..n : i # j => \/ clock_dscmp(telecom, ds[i], ds[j]) > 0
                                   \/ clock_dscmp(telecom, ds[j], ds[i]) > 0
    BY <1>0, Decides, CandidatesAssumption
  <1>3. \A i, j, l \in 1..n : clock_dscmp(telecom, ds[i], ds[j]) > 0 /\ clock_dscmp(telecom, ds[j], ds[l]) > 0
                              => clock_dscmp(telecom, ds[i], ds[l]) > 0
    BY <1>0, BetterTransitive
  <1>4. \A i \in 1..n : ds[i] # NULL
    BY <1>0, CandidatesAssumption, NullAssumption DEF Foreign
  <1> HIDE DEF n
  <1>5. SUFFICES ASSUME T # {} PROVE FALSE
    BY DEF n
  <1>6. PICK m \in T : \A j \in T : m <= j
    <2> T \in SUBSET Nat
      BY <1>0
    <2> HIDE DEF T
    <2> QED  BY <1>5, Smallest
  <1>7. m # 0
    BY <1>6
  <1>8. m \in 1..n /\ m - 1 \in 0..n /\ Holds(m - 1)
    BY <1>0, <1>6, <1>7
  <1>9. Holds(m)
    <2> DEFINE w == b[m - 1]
    <2>1. CASE m = 1
      <3>1. b[m] = m
        BY <1>1, <1>4, <1>8, <2>1
      <3> QED  BY <2>1, <3>1
    <2>2. CASE m # 1
      <3>1. w \in 1..m - 1 /\ w \in 1..n /\ w # m /\ w # 0
        BY <1>0, <1>8, <2>2
      <3>2. \A i \in 1..m - 1 : i = w \/ clock_dscmp(telecom, ds[w], ds[i]) > 0
        BY <1>8
      <3>3. CASE clock_dscmp(telecom, ds[m], ds[w]) > 0
        <4>1. b[m] = m
          BY <1>1, <1>4, <1>8, <3>3
        <4>2. ASSUME NEW i \in 1..m - 1 PROVE clock_dscmp(telecom, ds[m], ds[i]) > 0
          <5>1. i \in 1..n
            BY <1>0, <1>8
          <5> QED  BY <1>3, <1>8, <3>1, <3>2, <3>3, <5>1
        <4>3. \A i \in 1..m : i = m \/ i \in 1..m - 1
          BY <1>0, <1>8
        <4> QED  BY <1>8, <4>1, <4>2, <4>3
      <3>4. CASE ~(clock_dscmp(telecom, ds[m], ds[w]) > 0)
        <4>1. b[m] = w
          BY <1>1, <1>8, <3>1, <3>4
        <4>2. clock_dscmp(telecom, ds[w], ds[m]) > 0
          BY <1>2, <1>8, <3>1, <3>4
        <4>3. \A i \in 1..m : i = m \/ i \in 1..m - 1
          BY <1>0, <1>8
        <4>4. w \in 1..m
          BY <1>0, <1>8, <3>1
        <4> HIDE DEF w
        <4> QED  BY <3>2, <4>1, <4>2, <4>3, <4>4
      <3> QED  BY <3>3, <3>4
    <2> QED  BY <2>1, <2>2
  <1> QED  BY <1>6, <1>9
-----------------------------------------------------------------------------
\* The list holds candidates, each foreign master once.
ListOK ==
  /\ list \in Seq(Candidates)
  /\ \A i, j \in 1..Len(list) :
       i # j => <<list[i].sender, list[i].receiver>> # <<list[j].sender, list[j].receiver>>

\* A foreign master is only put on the list when it is not there.
LEMMA ListKept == AlgorithmsSpec => []ListOK
  <1>1. AlgorithmsInit => ListOK
    BY DEF AlgorithmsInit, ListOK
  <1>2. ListOK /\ [AlgorithmsNext]_algorithmsVars => ListOK'
    <2> SUFFICES ASSUME ListOK, [AlgorithmsNext]_algorithmsVars PROVE ListOK'
      OBVIOUS
    <2>1. CASE Disable
      BY <2>1 DEF Disable, ListOK
    <2>2. ASSUME NEW d \in Candidates, Discover(d) PROVE ListOK'
      <3>1. /\ list \in Seq(Candidates) /\ list' = <<d>> \o list
            /\ \A i \in 1..Len(list) : <<list[i].sender, list[i].receiver>> # <<d.sender, d.receiver>>
            /\ \A i, j \in 1..Len(list) :
                  i # j => <<list[i].sender, list[i].receiver>> # <<list[j].sender, list[j].receiver>>
        BY <2>2 DEF Discover, ListOK
      <3>2. /\ list' \in Seq(Candidates) /\ Len(list') = Len(list) + 1 /\ Len(list) \in Nat
            /\ list'[1] = d /\ \A i \in 2..Len(list) + 1 : list'[i] = list[i - 1]
        BY <3>1
      <3>3. ASSUME NEW i \in 1..Len(list'), NEW j \in 1..Len(list'), i # j
            PROVE  <<list'[i].sender, list'[i].receiver>> # <<list'[j].sender, list'[j].receiver>>
        <4>1. CASE i = 1
          <5>1. j \in 2..Len(list) + 1 /\ j - 1 \in 1..Len(list)
            BY <3>2, <3>3, <4>1
          <5> QED  BY <3>1, <3>2, <4>1, <5>1
        <4>2. CASE j = 1
          <5>1. i \in 2..Len(list) + 1 /\ i - 1 \in 1..Len(list)
            BY <3>2, <3>3, <4>2
          <5> QED  BY <3>1, <3>2, <4>2, <5>1
        <4>3. CASE i # 1 /\ j # 1
          <5>1. /\ j \in 2..Len(list) + 1 /\ j - 1 \in 1..Len(list)
                /\ i \in 2..Len(list) + 1 /\ i - 1 \in 1..Len(list) /\ i - 1 # j - 1
            BY <3>2, <3>3, <4>3
          <5> QED  BY <3>1, <3>2, <5>1
        <4> QED  BY <4>1, <4>2, <4>3
      <3> QED  BY <3>2, <3>3 DEF ListOK
    <2>3. CASE Filter \/ Summary \/ Compute \/ Forget \/ UNCHANGED algorithmsVars
      BY <2>3 DEF Filter, Summary, Compute, Forget, algorithmsVars, ListOK
    <2> QED  BY <2>1, <2>2, <2>3 DEF AlgorithmsNext
  <1> QED  BY <1>1, <1>2, PTL DEF AlgorithmsSpec

\* The single pass of port_compute_best and handle_state_decision_event keeps
\* the best foreign master of every list that can be built, however long it is
\* and in whatever order it was discovered, with either comparison.
THEOREM SelectionFindsBest == AlgorithmsSpec => []LoopFindsBest
  <1>1. ListOK => LoopFindsBest
    <2> SUFFICES ASSUME ListOK, NEW telecom \in BOOLEAN,
                        NEW winner, winner = BestUpTo(telecom, list)[Len(list)],
                        NEW i \in 1..Len(list)
                 PROVE  i = winner \/ clock_dscmp(telecom, list[winner], list[i]) > 0
      BY DEF LoopFindsBest
    <2>1. Len(list) \in 0..Len(list)
      BY DEF ListOK
    <2>2. \A k \in 1..Len(list) : \/ k = winner
                                  \/ clock_dscmp(telecom, list[winner], list[k]) > 0
      BY <2>1, LoopHoldsBest DEF ListOK
    <2> QED  BY <2>2
  <1> QED  BY <1>1, ListKept, PTL
-----------------------------------------------------------------------------
(* The frequency of the system clock.                                      *)

\* A product grows with its factors.
LEMMA Grows ==
  ASSUME NEW a \in Int, NEW b \in Int, NEW u \in Nat, a <= b
  PROVE  a * u <= b * u
  OBVIOUS

\* What a quotient is.
LEMMA Quotient ==
  ASSUME NEW x \in Nat, NEW u \in Nat \ {0}
  PROVE  /\ x \div u \in Nat
         /\ (x \div u) * u <= x /\ x < (x \div u) * u + u
  OBVIOUS

\* A quotient no larger than t.
LEMMA QuotientBound ==
  ASSUME NEW x \in Nat, NEW u \in Nat \ {0}, NEW t \in Nat, x < t * u + u
  PROVE  x \div u <= t
  <1> DEFINE q == x \div u
  <1>1. q \in Nat /\ q * u <= x
    BY Quotient
  <1> HIDE DEF q
  <1>2. SUFFICES ASSUME t + 1 <= q PROVE FALSE
    BY <1>1 DEF q
  <1>3. (t + 1) * u <= q * u
    BY <1>1, <1>2, Grows
  <1>4. (t + 1) * u = t * u + u
    OBVIOUS
  <1>5. t * u \in Int /\ q * u \in Int
    BY <1>1
  <1> QED  BY <1>1, <1>3, <1>4, <1>5

\* A frequency in the kernel's unit reads back as what was set, rounded toward zero.
LEMMA ReadBack ==
  ASSUME NEW a \in Nat, NEW s \in Nat, s = (a \div 125) * 8192 + ((a % 125) * 8192) \div 125
  PROVE  /\ (s \div 8192) * 125 + ((s % 8192) * 125) \div 8192 \in {a - 1, a}
         /\ a <= 500000 => s <= 32768000
  <1> DEFINE u == a \div 125
             v == a % 125
             w == (v * 8192) \div 125
  <1>1. u \in Nat /\ v \in 0..124 /\ a = 125 * u + v
    OBVIOUS
  <1> HIDE DEF u, v
  <1>2. w \in 0..8191 /\ 125 * w <= 8192 * v /\ 8192 * v < 125 * w + 125
    BY <1>1
  <1> HIDE DEF w
  <1>3. s = u * 8192 + w
    BY DEF u, v, w
  <1>4. s \div 8192 = u /\ s % 8192 = w
    BY <1>1, <1>2, <1>3
  <1>5. (w * 125) \div 8192 \in {v - 1, v}
    BY <1>1, <1>2
  <1>6. a <= 500000 => s <= 32768000
    BY <1>1, <1>2, <1>3
  <1> QED  BY <1>1, <1>4, <1>5, <1>6

\* The kernel's unit, for a frequency of either sign.
LEMMA ScaledFacts ==
  ASSUME NEW p \in Int
  PROVE  LET tx == Scaled65536(p)
             a == Abs(tx)
             f == (a \div 8192) * 125 + ((a % 8192) * 125) \div 8192
         IN /\ tx \in Int
            /\ Abs((IF tx < 0 THEN -f ELSE f) - p) <= 1
            /\ Abs(p) <= 500000 => Abs(tx) <= 32768000
            /\ (IF tx < 0 THEN -f ELSE f) \in Int
  <1> DEFINE b == Abs(p)
             s == (b \div 125) * 8192 + ((b % 125) * 8192) \div 125
             f == (s \div 8192) * 125 + ((s % 8192) * 125) \div 8192
  <1>1. b \in Nat /\ (p < 0 => b = -p) /\ (p >= 0 => b = p)
    BY DEF Abs
  <1>2. Scaled65536(p) = IF p < 0 THEN -s ELSE s
    BY DEF Scaled65536
  <1> HIDE DEF b
  <1>3. s \in Nat
    BY <1>1
  <1>4. f \in {b - 1, b} /\ (b <= 500000 => s <= 32768000)
    <2> DEFINE r == s
    <2>1. r \in Nat /\ r = (b \div 125) * 8192 + ((b % 125) * 8192) \div 125
      BY <1>3
    <2> HIDE DEF r
    <2>2. /\ (r \div 8192) * 125 + ((r % 8192) * 125) \div 8192 \in {b - 1, b}
          /\ b <= 500000 => r <= 32768000
      BY <1>1, <2>1, ReadBack
    <2> QED  BY <2>2 DEF r
  <1>5. s = 0 => f = 0
    OBVIOUS
  <1> HIDE DEF f, s
  <1> DEFINE tx == IF p < 0 THEN -s ELSE s
  <1>6. Abs(tx) = s /\ tx \in Int /\ (tx < 0 => p < 0) /\ (p < 0 => tx < 0 \/ s = 0)
    BY <1>3 DEF Abs
  <1>7. Abs((IF tx < 0 THEN -f ELSE f) - p) <= 1 /\ (IF tx < 0 THEN -f ELSE f) \in Int
    BY <1>1, <1>3, <1>4, <1>5, <1>6 DEF Abs
  <1>8. Abs(p) <= 500000 => Abs(tx) <= 32768000
    BY <1>4, <1>6 DEF b
  <1> HIDE DEF tx
  <1>9. Scaled65536(p) = tx
    BY <1>2 DEF tx
  <1> QED  BY <1>6, <1>7, <1>8, <1>9 DEF f

\* k ticks of u are what a frequency is rounded to: half a tick is left at most; a
\* frequency of t ticks needs no more than t, and one of less than half a tick none.
Rounded(freq, hz, u, k) ==
  /\ k \in Int /\ u * k \in Int
  /\ Abs(freq - u * k) <= 500 * hz
  /\ \A t \in Nat : Abs(freq) <= t * u => -t <= k /\ k <= t
  /\ 2 * Abs(freq) < u => k = 0

\* Ticks rounds.
LEMMA TicksFacts ==
  ASSUME NEW hz \in Nat \ {0}, NEW freq \in Int
  PROVE  Rounded(freq, hz, 1000 * hz, Ticks(freq, hz))
  <1> DEFINE a == Abs(freq)
             u == 1000 * hz
             k == Ticks(freq, hz)
             q == (a + 500 * hz) \div u
  <1>1. a \in Nat /\ (freq < 0 => a = -freq) /\ (freq >= 0 => a = freq)
    BY DEF Abs
  <1>2. u \in Nat \ {0} /\ 500 * hz \in Nat /\ 500 * hz + 500 * hz = u /\ u \div 2 = 500 * hz
    OBVIOUS
  <1>3. k = IF freq < 0 THEN -q ELSE q
    BY <1>1, <1>2 DEF Ticks
  <1> HIDE DEF a, u, k
  <1>4. a + 500 * hz \in Nat
    BY <1>1, <1>2
  <1>5. q \in Nat /\ q * u <= a + 500 * hz /\ a + 500 * hz < q * u + u
    <2> DEFINE x == a + 500 * hz
    <2>1. x \in Nat /\ u \in Nat \ {0}
      BY <1>2, <1>4
    <2> HIDE DEF x
    <2>2. x \div u \in Nat /\ (x \div u) * u <= x /\ x < (x \div u) * u + u
      BY <2>1, Quotient
    <2> QED  BY <2>2 DEF x
  <1>6. ASSUME NEW t \in Nat, a <= t * u PROVE q <= t
    <2>1. t * u \in Nat
      BY <1>2
    <2>2. a + 500 * hz < t * u + u
      BY <1>1, <1>2, <1>6, <2>1
    <2> QED  BY <1>2, <1>4, <2>2, QuotientBound
  <1>7. 2 * a < u => q = 0
    <2> SUFFICES ASSUME 2 * a < u PROVE q <= 0
      BY <1>5
    <2>1. a + 500 * hz < 0 * u + u
      BY <1>1, <1>2
    <2> QED  BY <1>2, <1>4, <2>1, QuotientBound
  <1> HIDE DEF q
  <1>8. q * u \in Nat
    BY <1>2, <1>5
  <1>9. k \in Int /\ (freq < 0 => u * k = -(q * u)) /\ (freq >= 0 => u * k = q * u)
    <2>1. u * q = q * u /\ u * (-q) = -(q * u)
      BY <1>2, <1>5
    <2> QED  BY <1>3, <1>5, <2>1
  <1>10. u * k \in Int
    BY <1>8, <1>9
  <1>11. Abs(freq - u * k) <= 500 * hz
    <2> DEFINE x == u * k
               y == q * u
               h == 500 * hz
    <2>1. /\ x \in Int /\ y \in Nat /\ h \in Nat /\ h + h = u
          /\ (freq < 0 => x = -y) /\ (freq >= 0 => x = y)
          /\ y <= a + h /\ a + h < y + u
      BY <1>2, <1>5, <1>8, <1>9, <1>10
    <2> HIDE DEF x, y, h
    <2>2. Abs(freq - x) <= h
      BY <1>1, <1>2, <2>1 DEF Abs
    <2> QED  BY <2>2 DEF x, h
  <1>12. ASSUME NEW t \in Nat, a <= t * u PROVE -t <= k /\ k <= t
    BY <1>3, <1>5, <1>6, <1>12
  <1>13. 2 * a < u => k = 0
    <2>0. q \in Nat
      BY <1>5
    <2>1. -q = 0 - q /\ (q = 0 => 0 - q = 0)
      BY <2>0
    <2>2. q = 0 => k = 0
      BY <1>3, <2>1, Zenon
    <2> QED  BY <1>7, <2>2
  <1>14. Rounded(freq, hz, u, k)
    BY <1>9, <1>10, <1>11, <1>12, <1>13 DEF a, Rounded
  <1> QED  BY <1>14 DEF u, k

\* A fraction of the largest frequency is no larger.
LEMMA Fraction ==
  ASSUME NEW max \in Nat, NEW part \in -500..500
  PROVE  (max \div 500) * part \in Int /\ Abs((max \div 500) * part) <= max
  <1> DEFINE q == max \div 500
  <1>1. q \in Nat /\ 500 * q <= max
    OBVIOUS
  <1> HIDE DEF q
  <1>2. q * part \in Int /\ part * q <= 500 * q /\ (-500) * q <= part * q /\ q * part = part * q
    <2>1. part * q <= 500 * q /\ (-500) * q <= part * q
      BY <1>1, Grows
    <2> QED  BY <1>1, <2>1
  <1>3. Abs(q * part) <= max
    <2> DEFINE x == q * part
    <2>1. x \in Int /\ x <= 500 * q /\ -(500 * q) <= x
      BY <1>1, <1>2
    <2> HIDE DEF x
    <2>2. Abs(x) <= max
      BY <1>1, <2>1 DEF Abs
    <2> QED  BY <2>2 DEF x
  <1> QED  BY <1>2, <1>3 DEF q

\* What the kernel is given for a frequency within the limit.
LEMMA Fits ==
  ASSUME NEW f \in Frequencies
  PROVE  LET freq == (sysclk_max_freq(f.hz) \div 500) * f.part
             tx == clockadj_set_freq(freq, f.hz)
         IN /\ TickAllowed(tx.tick, f.hz)
            /\ Abs(tx.freq) <= Scaled65536(Tolerance)
            /\ Abs(clockadj_get_freq(tx, f.hz) - freq) <= 1
  <1> DEFINE hz == f.hz
             part == f.part
             max == sysclk_max_freq(hz)
             freq == (max \div 500) * part
             tx == clockadj_set_freq(freq, hz)
             u == 1000 * hz
             tick == clockadj_init(hz)
             t == tick \div 10
             k == Ticks(freq, hz)
  <1>1. hz \in Nat \ {0} /\ part \in -500..500
    BY FrequencyAssumption
  <1>2. TickAllowed(tick - t, hz) /\ TickAllowed(tick + t, hz)
    <2>1. \A d \in {-1, 1} : TickAllowed(tick + d * t, hz)
      BY FrequencyAssumption
    <2>2. tick \in Nat /\ t \in Nat
      <3>1. 1000000 + hz \div 2 \in Nat
        BY <1>1
      <3>2. tick \in Nat
        BY <1>1, <3>1, Quotient DEF clockadj_init
      <3> QED  BY <3>2
    <2> HIDE DEF tick, t
    <2>3. tick + (-1) * t = tick - t /\ tick + 1 * t = tick + t
      BY <2>2
    <2> QED  BY <2>1, <2>3
  <1> HIDE DEF hz, part
  <1>3. 1000000 + hz \div 2 \in Nat
    BY <1>1
  <1>4. tick \in Nat
    BY <1>1, <1>3, Quotient DEF clockadj_init
  <1> HIDE DEF tick
  <1>5. t \in Nat
    BY <1>4
  <1> HIDE DEF t
  <1>6. u \in Nat \ {0}
    BY <1>1
  <1>7. max = IF hz <= 1000 THEN t * u ELSE 500000
    <2>1. 2 * Tolerance >= 1000 * hz <=> hz <= 1000
      BY <1>1 DEF Tolerance
    <2>2. t * 1000 * hz = t * u
      BY <1>1, <1>5
    <2> QED  BY <2>1, <2>2 DEF sysclk_max_freq, Tolerance, t, tick
  <1> HIDE DEF max
  <1>8. max \in Nat
    BY <1>5, <1>6, <1>7
  <1>9. freq \in Int /\ Abs(freq) <= max
    BY <1>1, <1>8, Fraction
  <1> HIDE DEF freq
  <1>10. /\ k \in Int /\ u * k \in Int
         /\ Abs(freq - u * k) <= 500 * hz
         /\ \A n \in Nat : Abs(freq) <= n * u => -n <= k /\ k <= n
         /\ 2 * Abs(freq) < u => k = 0
    <2>1. Rounded(freq, hz, u, k)
      BY <1>1, <1>9, TicksFacts
    <2> HIDE DEF u, k
    <2> QED  BY <2>1 DEF Rounded
  <1>11. Abs(freq) \in Nat
    BY <1>9 DEF Abs
  <1>12. -t <= k /\ k <= t /\ Abs(freq - u * k) <= 500000
    <2> DEFINE rest == Abs(freq - u * k)
    <2>0. rest \in Int /\ rest <= 500 * hz
      BY <1>9, <1>10 DEF Abs
    <2>1. CASE hz <= 1000
      <3>1. Abs(freq) <= t * u
        BY <1>7, <1>9, <2>1
      <3>2. -t <= k /\ k <= t
        BY <1>5, <1>10, <3>1
      <3> HIDE DEF rest
      <3>3. rest <= 500000
        BY <1>1, <2>0, <2>1
      <3> QED  BY <3>2, <3>3 DEF rest
    <2>2. CASE hz > 1000
      <3>1. max = 500000
        BY <1>1, <1>7, <2>2
      <3>2. 2 * Abs(freq) < u
        BY <1>1, <1>9, <1>11, <2>2, <3>1
      <3>3. k = 0
        BY <1>10, <3>2
      <3>4. u * k = 0
        BY <1>6, <3>3
      <3>5. freq - u * k = freq
        BY <1>9, <3>4
      <3> QED  BY <1>5, <1>9, <3>1, <3>3, <3>5
    <2> QED  BY <1>1, <2>1, <2>2
  <1> DEFINE p == freq - u * k
             s == Scaled65536(p)
  <1>13. tx = [tick |-> k + tick, freq |-> s]
    BY DEF clockadj_set_freq, tick
  <1> HIDE DEF tx
  <1>14. tx.tick = k + tick /\ tx.freq = s
    BY <1>13
  <1> HIDE DEF k
  <1>15. TickAllowed(tx.tick, hz)
    <2>1. /\ tick - t \in 900000 \div hz .. 1100000 \div hz
          /\ tick + t \in 900000 \div hz .. 1100000 \div hz
      BY <1>2 DEF TickAllowed
    <2>2. 900000 \div hz \in Int /\ 1100000 \div hz \in Int
      BY <1>1
    <2>3. k + tick \in 900000 \div hz .. 1100000 \div hz
      BY <1>4, <1>5, <1>10, <1>12, <2>1, <2>2
    <2> QED  BY <1>14, <2>3 DEF TickAllowed
  <1>16. p \in Int
    BY <1>9, <1>10
  <1>17. Abs(p) <= 500000
    BY <1>12
  <1> DEFINE a == Abs(s)
             g == (a \div 8192) * 125 + ((a % 8192) * 125) \div 8192
             back == IF s < 0 THEN -g ELSE g
  <1> HIDE DEF p
  <1>18. s \in Int /\ Abs(back - p) <= 1 /\ Abs(s) <= 32768000 /\ back \in Int
    BY <1>16, <1>17, ScaledFacts
  <1>19. Scaled65536(Tolerance) = 32768000
    BY DEF Scaled65536, Tolerance, Abs
  <1>20. clockadj_get_freq(tx, hz) = back + u * ((k + tick) - tick)
    BY <1>14 DEF clockadj_get_freq, tick
  <1>21. (k + tick) - tick = k
    BY <1>4, <1>10
  <1> HIDE DEF s, back
  <1> DEFINE x == u * k
             y == clockadj_get_freq(tx, hz)
  <1>22. x \in Int /\ p = freq - x
    BY <1>10 DEF p
  <1>23. Abs(clockadj_get_freq(tx, hz) - freq) <= 1
    <2>1. y = back + x
      BY <1>20, <1>21
    <2> HIDE DEF x, y, u
    <2>2. y - freq = back - p
      BY <1>9, <1>18, <1>22, <2>1
    <2>3. Abs(y - freq) <= 1
      BY <1>18, <2>2
    <2> QED  BY <2>3 DEF y
  <1>24. Abs(tx.freq) <= Scaled65536(Tolerance)
    BY <1>14, <1>18, <1>19
  <1> QED  BY <1>15, <1>23, <1>24 DEF tx, freq, max, part, hz

\* The input of the frequency arithmetic.
InputOK == subject = "frequency" => input \in Frequencies \cup {NoInput}

\* Every frequency a servo may choose for the system clock, up to the limit it is
\* given, is one the kernel accepts, and reads back as what was set
\* (clockadj_set_freq, clockadj_get_freq, sysclk_max_freq).
THEOREM FrequenciesFit == AlgorithmsSpec => []FrequencyFits
  <1>1. AlgorithmsInit => InputOK
    BY DEF AlgorithmsInit, InputOK
  <1>2. InputOK /\ [AlgorithmsNext]_algorithmsVars => InputOK'
    BY DEF InputOK, AlgorithmsNext, Disable, Discover, Filter, Summary, Compute, Forget, algorithmsVars
  <1>3. InputOK => FrequencyFits
    <2> SUFFICES ASSUME InputOK, subject = "frequency", input # NoInput PROVE FrequencyFits
      BY DEF FrequencyFits
    <2>1. input \in Frequencies
      BY DEF InputOK
    <2> QED  BY <2>1, Fits DEF FrequencyFits
  <1> QED  BY <1>1, <1>2, <1>3, PTL DEF AlgorithmsSpec
=============================================================================
