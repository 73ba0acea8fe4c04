---------------------------- MODULE Mdev_proofs ----------------------------
(***************************************************************************)
(* What is proved of the mdevs, their turns and nodes, for any devices,    *)
(* rules and events, and for timeouts and kills at any time.               *)
(***************************************************************************)
EXTENDS Mdev, SequenceTheorems, FiniteSetTheorems, WellFoundedInduction, TLAPS

(* Numbers and their digits.                                               *)
LEMMA Powers ==
  /\ Power(0) = 1
  /\ Power(1) = 10
  /\ Power(2) = 100
  /\ Power(3) = 1000
  /\ Power(4) = 10000
  /\ Power(5) = 100000
  /\ Power(6) = 1000000
  /\ Power(7) = 10000000
  /\ Power(8) = 100000000
  /\ Power(9) = 1000000000
  /\ Power(10) = 10000000000
BY DEF Power

LEMMA PowersPositive ==
  ASSUME NEW a \in 0..10
  PROVE  Power(a) \in Nat \ {0}
<1>1. a \in {0, 1, 2, 3, 4, 5, 6, 7, 8, 9, 10}
  OBVIOUS
<1> QED BY <1>1, Powers

LEMMA PowersGrow ==
  ASSUME NEW a \in 0..10, NEW b \in 0..10, a <= b
  PROVE  Power(a) <= Power(b)
<1>1. a \in {0, 1, 2, 3, 4, 5, 6, 7, 8, 9, 10} /\ b \in {0, 1, 2, 3, 4, 5, 6, 7, 8, 9, 10}
  OBVIOUS
<1> QED BY <1>1, Powers

LEMMA PowersAdd ==
  ASSUME NEW a \in 0..10, NEW b \in 0..10, a + b \in 0..10
  PROVE  Power(a + b) = Power(a) * Power(b)
<1>1. a \in {0, 1, 2, 3, 4, 5, 6, 7, 8, 9, 10} /\ b \in {0, 1, 2, 3, 4, 5, 6, 7, 8, 9, 10}
  OBVIOUS
<1> QED BY <1>1, Powers

\* A number with digits put after it.
LEMMA Shifted ==
  ASSUME NEW n \in Nat, NEW x \in Nat, NEW y \in Nat, NEW r \in Nat, n < x, r < y
  PROVE  n * y + r < x * y
OBVIOUS

LEMMA ShiftedLow ==
  ASSUME NEW n \in Nat, NEW x \in Nat, NEW y \in Nat, NEW r \in Nat, x <= n
  PROVE  x * y <= n * y + r
OBVIOUS

\* No number is 0: the file with 0 is Seed.
LEMMA Positive ==
  ASSUME NEW n \in Number
  PROVE  n \in Nat \ {0}
<1>1. PICK k \in 1..10 : HasDigits(n, k)
  BY DEF Number
<1>2. Power(k - 1) \in Nat \ {0}
  BY PowersPositive
<1> QED BY <1>1, <1>2 DEF Number, HasDigits

\* Digits(n) is what it is named for.
LEMMA DigitsOf ==
  ASSUME NEW n \in Number
  PROVE  Digits(n) \in 1..10 /\ HasDigits(n, Digits(n))
BY DEF Number, Digits

\* A larger number has no fewer digits.
LEMMA DigitsGrow ==
  ASSUME NEW m \in Number, NEW n \in Number, m <= n
  PROVE  Digits(m) <= Digits(n)
<1> DEFINE a == Digits(m)
           b == Digits(n)
<1>1. a \in 1..10 /\ b \in 1..10 /\ HasDigits(m, a) /\ HasDigits(n, b)
  BY DigitsOf
<1>2. m \in Nat /\ n \in Nat
  BY DEF Number
<1> HIDE DEF a, b
<1>3. SUFFICES ASSUME b < a PROVE FALSE
  BY <1>1 DEF a, b
<1>4. b \in 0..10 /\ a - 1 \in 0..10 /\ b <= a - 1
  BY <1>1, <1>3
<1>5. Power(b) <= Power(a - 1)
  BY <1>4, PowersGrow
<1>7. Power(b) \in Nat /\ Power(a - 1) \in Nat
  BY <1>4, PowersPositive
<1>6. n < Power(b) /\ Power(a - 1) <= m
  BY <1>1 DEF HasDigits
<1> QED BY <1>2, <1>5, <1>7, <1>6

\* What is written over a number is one again, and is the number written if
\* that is not smaller than what was there.
LEMMA OverwriteNumber ==
  ASSUME NEW n \in Number, seqfile \in {Seed} \cup Number
  PROVE  Overwrite(n) \in Number /\ (seqfile <= n => Overwrite(n) = n)
<1>1. CASE seqfile = Seed
  BY <1>1 DEF Overwrite
<1>2. CASE seqfile \in Number
  <2> DEFINE a == Digits(n)
             b == Digits(seqfile)
             c == b - a
  <2>1. a \in 1..10 /\ b \in 1..10 /\ HasDigits(n, a) /\ HasDigits(seqfile, b)
    BY <1>2, DigitsOf
  <2>2. seqfile <= n => b <= a
    BY <1>2, DigitsGrow
  <2>3. CASE b <= a
    BY <2>1, <2>3 DEF Overwrite
  <2>4. CASE a < b
    <3>1. seqfile # Seed
      BY <1>2, Positive DEF Seed
    <3>2. Overwrite(n) = (n * Power(c)) + (seqfile % Power(c))
      BY <3>1, <2>1, <2>4 DEF Overwrite
    <3> HIDE DEF a, b
    <3>3. c \in 0..10 /\ a \in 0..10 /\ a - 1 \in 0..10 /\ (a - 1) + c \in 0..10 /\ a + c \in 0..10
      BY <2>1, <2>4
    <3>4. a + c = b /\ (a - 1) + c = b - 1
      BY <2>1
    <3> HIDE DEF c
    <3>5. Power(c) \in Nat \ {0} /\ Power(a) \in Nat /\ Power(a - 1) \in Nat
      BY <3>3, PowersPositive
    <3>6. Power(a + c) = Power(a) * Power(c) /\ Power((a - 1) + c) = Power(a - 1) * Power(c)
      BY <3>3, PowersAdd
    <3>7. n \in Nat /\ seqfile \in Nat
      BY <1>2 DEF Number
    <3> DEFINE r == seqfile % Power(c)
               v == (n * Power(c)) + r
    <3>8. r \in Nat /\ r < Power(c)
      BY <3>5, <3>7
    <3> HIDE DEF r
    <3>9. v \in Nat
      BY <3>5, <3>7, <3>8
    <3>10. v < Power(a) * Power(c)
      BY <3>5, <3>7, <3>8, <2>1, Shifted DEF HasDigits
    <3>11. Power(a - 1) * Power(c) <= v
      BY <3>5, <3>7, <3>8, <2>1, ShiftedLow DEF HasDigits
    <3>12. HasDigits(v, b)
      BY <3>4, <3>6, <3>10, <3>11 DEF HasDigits
    <3>13. v \in Number
      BY <3>9, <3>12, <2>1 DEF Number
    <3> QED BY <3>2, <3>13, <2>2, <2>4, <2>1, <3>7 DEF r
  <2> QED BY <2>1, <2>3, <2>4
<1> QED BY <1>1, <1>2

-----------------------------------------------------------------------------
\* Where an mdev may be, and what is known of it.
Locs == {"none", "read", "seed", "wait", "open", "rules", "exit", "signal", "done"}
Process ==
  [pc : Locs, op : {"add", "remove", "change"}, dev : Devs \cup {NoDev}, timeout : 1..Tries,
   fd : BOOLEAN, major : {-2, -1} \cup Nums, rule : 1..Len(AllRules)]
Scanner ==
  [todo : SUBSET Devs, dev : Devs \cup {NoDev}, major : {-2, -1, None} \cup Nums,
   rule : 1..Len(AllRules)]

\* An mdev that runs has a device; without /dev/mdev.seq none waits for its turn
\* or will write the file.
Known ==
  /\ conf \in Confs
  /\ \A n \in Alive : mdev[n].dev \in Devs
  /\ seqfile = Absent => \A n \in Seqs : mdev[n].pc \notin {"seed", "wait"} /\ ~mdev[n].fd

\* An mdev writes its SEQNUM or the one after it.
LEMMA SeqsNumbers ==
  ASSUME NEW n \in Seqs
  PROVE  n \in Nat \ {0} /\ n \in Number /\ n + 1 \in Number
  <1>1. n \in FirstSeq..(FirstSeq + MaxEvents) /\ n + 1 \in FirstSeq..(FirstSeq + MaxEvents)
    BY MdevAssumption DEF Seqs
  <1> QED  BY <1>1, MdevAssumption, Positive

\* TypeOK, in terms of Process and Scanner.
LEMMA TypeParts ==
  ASSUME TypeOK
  PROVE  /\ mdev \in [Seqs -> Process]
         /\ scan \in Scanner
  BY DEF TypeOK, Process, Scanner, Locs

\* The rules, and the implicit one at the end.
LEMMA RulesType ==
  ASSUME conf \in Confs
  PROVE  /\ conf \in Seq(Rule) /\ Len(AllRules) = Len(conf) + 1 /\ Len(conf) \in Nat
         /\ AllRules[Len(AllRules)] = Default
         /\ \A k \in 1..Len(AllRules) : AllRules[k] \in Rule
  <1>1. conf \in Seq(Rule)
    BY MdevAssumption
  <1>2. Default \in Rule
    BY DEF Default, Rule
  <1> QED  BY <1>1, <1>2 DEF AllRules

\* A set of naturals has a least element.
LEMMA Least ==
  ASSUME NEW T \in SUBSET Nat, T # {}
  PROVE  \E x \in T : \A y \in T : x <= y
  <1> DEFINE R == {ss \in Nat \X Nat : ss[1] < ss[2]}
  <1>1. IsWellFoundedOn(R, Nat)
    BY NatLessThanWellFounded DEF OpToRel
  <1> HIDE DEF R
  <1>2. PICK x \in T : \A y \in T : ~(<<y, x>> \in R)
    BY <1>1, WFMin
  <1>3. ASSUME NEW y \in T  PROVE  x <= y
    <2>1. x \in Nat /\ y \in Nat
      OBVIOUS
    <2>2. ~(y < x)
      BY <1>2, <2>1 DEF R
    <2> QED  BY <2>1, <2>2
  <1> QED  BY <1>3

\* next_rule() finds a rule for every device: the implicit one matches.
LEMMA NextMatchFound ==
  ASSUME conf \in Confs, NEW k \in 1..Len(AllRules), NEW d \in Devs, NEW major
  PROVE  LET j == NextMatch(k, d, major)
         IN /\ j \in k..Len(AllRules) /\ j \in 1..Len(AllRules)
            /\ AllRules[j] \in Rule
            /\ AllRules[j].keep => j + 1 \in 1..Len(AllRules)
            /\ Matches(AllRules[j], d, major)
            /\ \A i \in k..(j - 1) : ~Matches(AllRules[i], d, major)
  <1> DEFINE len == Len(AllRules)
             T == {j \in k..len : Matches(AllRules[j], d, major)}
             Good(j) == /\ Matches(AllRules[j], d, major)
                        /\ \A i \in k..(j - 1) : ~Matches(AllRules[i], d, major)
  <1>1. len \in Nat /\ k \in 1..len
    BY RulesType
  <1>12. AllRules[len] = Default
    BY RulesType
  <1>13. Default.maj = {} /\ Default.devs = Devs /\ Default.keep = FALSE
    BY DEF Default
  <1>2. Matches(AllRules[len], d, major)
    BY <1>12, <1>13 DEF Matches
  <1> HIDE DEF len
  <1>3. T \in SUBSET Nat /\ len \in T
    BY <1>1, <1>2
  <1>4. PICK j \in T : \A i \in T : j <= i
    BY <1>3, Least
  <1>5. j \in k..len /\ Good(j)
    <2>1. ASSUME NEW i \in k..(j - 1)  PROVE  ~Matches(AllRules[i], d, major)
      <3>1. i \in k..len /\ ~(j <= i)
        BY <1>1, <1>4
      <3> QED  BY <1>4, <3>1
    <2> QED  BY <2>1, <1>4
  <1> DEFINE c == NextMatch(k, d, major)
  <1>6. c = CHOOSE x \in k..len : Good(x)
    BY DEF NextMatch, len
  <1> HIDE DEF c, Good
  <1>7. c \in k..len /\ Good(c)
    BY <1>5, <1>6
  <1>14. /\ Matches(AllRules[c], d, major)
         /\ \A i \in k..(c - 1) : ~Matches(AllRules[i], d, major)
    BY <1>7 DEF Good
  <1>8. c \in 1..len
    BY <1>1, <1>7
  <1>9. AllRules[c] \in Rule
    BY <1>8, RulesType DEF len
  <1>10. AllRules[len].keep = FALSE
    BY <1>12, <1>13
  <1>11. AllRules[c].keep => c + 1 \in 1..len
    BY <1>1, <1>8, <1>10
  <1> QED  BY <1>7, <1>8, <1>9, <1>11, <1>14 DEF len, c

-----------------------------------------------------------------------------
(* Type correctness.                                                       *)
\* What a step of the mdev for event n may make of the processes.
LEMMA Stepped ==
  ASSUME mdev \in [Seqs -> Process], NEW n \in Seqs, NEW u \in Process, Step(n, u)
  PROVE  /\ conf' = conf /\ AllRules' = AllRules
         /\ mdev' \in [Seqs -> Process] /\ mdev'[n] = u
         /\ \A m \in Seqs : m # n => mdev'[m] = mdev[m]
  BY DEF Step, AllRules

\* GoesOn is such a step.
LEMMA GoneOn ==
  ASSUME mdev \in [Seqs -> Process], NEW n \in Seqs, NEW fd \in BOOLEAN, GoesOn(n, fd)
  PROVE  \E u \in Process : Step(n, u) /\ u.pc = "open" /\ u.fd = fd /\ u.dev = mdev[n].dev
  <1> DEFINE u == [mdev[n] EXCEPT !.pc = "open", !.fd = fd, !.timeout = Tries]
  <1>1. mdev[n] \in Process
    OBVIOUS
  <1>5. Tries \in 1..Tries
    BY MdevAssumption
  <1>2. u \in Process
    BY <1>1, <1>5 DEF Process, Locs
  <1>3. Step(n, u)
    BY DEF GoesOn, Step
  <1>4. u.pc = "open" /\ u.fd = fd /\ u.dev = mdev[n].dev
    BY <1>1 DEF Process
  <1> QED  BY <1>2, <1>3, <1>4

\* The mdevs that do not run.
LEMMA DoneType ==
  ASSUME conf \in Confs, NEW n
  PROVE  /\ NotStarted \in Process /\ NotStarted.pc = "none"
         /\ Done(n) \in Process /\ Done(n).pc = "done" /\ ~Done(n).fd
  <1>1. 1 \in 1..Len(AllRules)
    BY RulesType
  <1>2. Tries \in 1..Tries
    BY MdevAssumption
  <1>3. NotStarted \in Process
    BY <1>1, <1>2 DEF NotStarted, Process, Locs, NoDev
  <1> QED  BY <1>3 DEF Done, NotStarted, Process, Locs

\* The parts of TypeOK and Known that concern the processes.
LEMMA ProcessesStep ==
  ASSUME TypeOK, Known, NEW n \in Seqs, NEW u \in Process, Step(n, u),
         u.pc \notin {"none", "done"} => u.dev \in Devs,
         seqfile' = Absent => seqfile = Absent /\ u.pc \notin {"seed", "wait"} /\ ~u.fd,
         chld' \subseteq Seqs,
         \A m \in chld' : m # n => m \in Waiting,
         n \in chld' => u.pc \in {"read", "seed", "wait"}
  PROVE  /\ conf' = conf /\ AllRules' = AllRules
         /\ mdev' \in [Seqs -> Process]
         /\ chld' \subseteq Waiting'
         /\ Known'
  <1>1. mdev \in [Seqs -> Process]
    BY TypeParts
  <1>2. /\ conf' = conf /\ AllRules' = AllRules
        /\ mdev' \in [Seqs -> Process] /\ mdev'[n] = u
        /\ \A m \in Seqs : m # n => mdev'[m] = mdev[m]
    BY <1>1, Stepped
  <1>3. chld' \subseteq Waiting'
    BY <1>2 DEF Waiting
  <1>4. \A m \in Alive' : mdev'[m].dev \in Devs
    BY <1>2 DEF Alive, Known
  <1>5. seqfile' = Absent => \A m \in Seqs : mdev'[m].pc \notin {"seed", "wait"} /\ ~mdev'[m].fd
    <2> SUFFICES ASSUME seqfile' = Absent, NEW m \in Seqs
                 PROVE  mdev'[m].pc \notin {"seed", "wait"} /\ ~mdev'[m].fd
      OBVIOUS
    <2>1. CASE m = n
      BY <1>2, <2>1
    <2>2. CASE m # n
      BY <1>2, <2>2 DEF Known
    <2> QED  BY <2>1, <2>2
  <1> QED  BY <1>2, <1>3, <1>4, <1>5 DEF Known

\* The rest of TypeOK.
Rest ==
  /\ sys \in [Devs -> {None} \cup Nums]
  /\ seqnum \in FirstSeq..(FirstSeq + MaxEvents)
  /\ seqfile \in {Absent, Seed} \cup Number
  /\ nodes \in [Names -> {Link, None} \cup Nums]
  /\ ordered \in BOOLEAN
  /\ trust \in [Devs -> {"fresh", "sure", "unsure"}]

LEMMA TypeJoined ==
  TypeOK <=> Rest /\ mdev \in [Seqs -> Process] /\ scan \in Scanner /\ chld \subseteq Waiting
  BY DEF TypeOK, Rest, Process, Scanner, Locs

\* Kept by what leaves its variables alone.
LEMMA RestSame ==
  ASSUME Rest, sys' = sys, seqnum' = seqnum, seqfile' = seqfile, nodes' = nodes,
         ordered' = ordered, trust' = trust
  PROVE  Rest'
  BY Zenon DEF Rest

LEMMA DistrustType ==
  ASSUME trust \in [Devs -> {"fresh", "sure", "unsure"}], NEW D, Distrust(D)
  PROVE  trust' \in [Devs -> {"fresh", "sure", "unsure"}]
  BY DEF Distrust

LEMMA ScannerSame ==
  ASSUME scan \in Scanner, scan' = scan, AllRules' = AllRules
  PROVE  (scan \in Scanner)'
  BY DEF Scanner

LEMMA ProcessSame ==
  ASSUME mdev' \in [Seqs -> Process], AllRules' = AllRules
  PROVE  (mdev \in [Seqs -> Process])'
  BY DEF Process

\* A step of one mdev that leaves the scan alone.
LEMMA TypeStep ==
  ASSUME TypeOK, Known, Rest', NEW n \in Seqs, NEW u \in Process, Step(n, u), scan' = scan,
         u.pc \notin {"none", "done"} => u.dev \in Devs,
         seqfile' = Absent => seqfile = Absent /\ u.pc \notin {"seed", "wait"} /\ ~u.fd,
         chld' \subseteq Seqs,
         \A m \in chld' : m # n => m \in Waiting,
         n \in chld' => u.pc \in {"read", "seed", "wait"}
  PROVE  TypeOK' /\ Known'
  <1>1. /\ AllRules' = AllRules
        /\ mdev' \in [Seqs -> Process]
        /\ chld' \subseteq Waiting'
        /\ Known'
    BY ProcessesStep
  <1>2. (mdev \in [Seqs -> Process])'
    BY <1>1, ProcessSame
  <1>3. (scan \in Scanner)'
    BY <1>1, TypeParts, ScannerSame
  <1> QED  BY <1>1, <1>2, <1>3 DEF TypeOK, Rest, Process, Scanner, Locs

\* The kernel starts an mdev.
LEMMA EventType ==
  ASSUME TypeOK, Known, NEW op \in {"add", "remove", "change"}, NEW d \in Devs, Event(op, d),
         sys' \in [Devs -> {None} \cup Nums]
  PROVE  TypeOK' /\ Known'
  <1> DEFINE u == [NotStarted EXCEPT !.pc = "read", !.op = op, !.dev = d]
  <1>1. u \in Process /\ u.pc = "read" /\ u.dev = d /\ ~u.fd
    <2>1. NotStarted \in Process
      BY DoneType DEF Known
    <2> QED  BY <2>1 DEF Process, Locs, NotStarted
  <1>2. Step(seqnum, u) /\ seqnum \in Seqs
    BY DEF Event
  <1>3. Rest'
    <2>1. Rest
      BY TypeJoined
    <2>2. ordered' \in BOOLEAN
      <3>1. ordered' = StaysOrdered
        BY DEF Event
      <3>2. StaysOrdered \in BOOLEAN
        <4>1. CASE Alive = {}
          BY <4>1 DEF StaysOrdered
        <4>2. CASE Alive # {}
          BY <4>2 DEF StaysOrdered
        <4> QED  BY <4>1, <4>2
      <3> QED  BY <3>1, <3>2
    <2>3. seqnum' \in FirstSeq..(FirstSeq + MaxEvents)
      BY <1>2, <2>1, MdevAssumption DEF Event, Seqs, Rest
    <2>4. trust' \in [Devs -> {"fresh", "sure", "unsure"}]
      BY <2>1, DistrustType DEF Event, Rest
    <2>5. seqfile' = seqfile /\ nodes' = nodes
      BY DEF Event
    <2> QED  BY <2>1, <2>2, <2>3, <2>4, <2>5 DEF Rest
  <1>4. scan' = scan /\ chld' = chld /\ seqfile' = seqfile
    BY DEF Event
  <1>5. chld \subseteq Waiting /\ Waiting \subseteq Seqs
    BY DEF TypeOK, Waiting
  <1> HIDE DEF u
  <1> QED  BY <1>1, <1>2, <1>3, <1>4, <1>5, TypeStep

\* wait_for_seqfile() returns.
LEMMA GoesOnType ==
  ASSUME TypeOK, Known, Rest', NEW n \in Alive, NEW fd \in BOOLEAN, GoesOn(n, fd), scan' = scan,
         seqfile' = Absent => seqfile = Absent /\ ~fd
  PROVE  TypeOK' /\ Known'
  <1>1. n \in Seqs /\ mdev[n].dev \in Devs
    BY DEF Alive, Known
  <1>2. PICK u \in Process : Step(n, u) /\ u.pc = "open" /\ u.fd = fd /\ u.dev = mdev[n].dev
    BY <1>1, TypeParts, GoneOn
  <1>3. chld' = chld \ {n}
    BY DEF GoesOn
  <1>4. chld \subseteq Waiting /\ Waiting \subseteq Seqs
    BY DEF TypeOK, Waiting
  <1> QED  BY <1>1, <1>2, <1>3, <1>4, TypeStep

\* What /dev becomes.
LEMMA NodesType ==
  ASSUME nodes \in [Names -> {Link, None} \cup Nums], NEW r, NEW d
  PROVE  /\ RemoveNode(r, d) \in [Names -> {Link, None} \cup Nums]
         /\ \A major \in {None} \cup Nums : MakeNode(r, d, major) \in [Names -> {Link, None} \cup Nums]
  BY DEF RemoveNode, MakeNode

LEMMA InitType == Init => TypeOK /\ Known
  <1> SUFFICES ASSUME Init  PROVE  TypeOK /\ Known
    OBVIOUS
  <1>1. conf \in Confs
    BY DEF Init
  <1>2. NotStarted \in Process /\ NotStarted.pc = "none" /\ ~NotStarted.fd
    BY <1>1, DoneType DEF NotStarted
  <1>3. mdev = [n \in Seqs |-> NotStarted] /\ mdev \in [Seqs -> Process]
    BY <1>2 DEF Init
  <1>4. scan \in Scanner
    <2>1. 1 \in 1..Len(AllRules)
      BY <1>1, RulesType
    <2> QED  BY <2>1 DEF Init, Idle, Scanner, NoDev
  <1>5. Rest
    <2>1. sys \in [Devs -> {None} \cup Nums] /\ seqfile \in {Absent, Seed} \cup Number
      BY MdevAssumption DEF Init
    <2>2. seqnum \in FirstSeq..(FirstSeq + MaxEvents)
      BY MdevAssumption DEF Init
    <2>3. nodes \in [Names -> {Link, None} \cup Nums] /\ ordered \in BOOLEAN
      BY DEF Init
    <2>4. trust \in [Devs -> {"fresh", "sure", "unsure"}]
      BY DEF Init
    <2> QED  BY <2>1, <2>2, <2>3, <2>4 DEF Rest
  <1>6. chld \subseteq Waiting
    BY DEF Init
  <1>7. Known
    BY <1>1, <1>2, <1>3 DEF Known, Alive
  <1> QED  BY <1>3, <1>4, <1>5, <1>6, <1>7, TypeJoined

\* What happens in wait_for_seqfile().
LEMMA WaitType ==
  ASSUME TypeOK, Known, NEW n \in Seqs,
         \/ NoSeqfile(n) \/ SeesSeed(n) \/ WritesSeed(n) \/ SeesTurn(n) \/ SeesLater(n)
         \/ SeesEarlier(n) \/ Woken(n) \/ TimesOut(n)
  PROVE  TypeOK' /\ Known'
  <1>1. Rest /\ mdev \in [Seqs -> Process] /\ mdev[n] \in Process
    BY TypeJoined
  <1>2. chld \subseteq Waiting /\ Waiting \subseteq Seqs
    BY DEF TypeOK, Waiting
  <1>3. mdev[n].pc \in {"read", "seed", "wait"} /\ n \in Alive
    BY DEF NoSeqfile, SeesSeed, WritesSeed, SeesTurn, SeesLater, SeesEarlier, Woken, TimesOut, Alive
  <1>4. mdev[n].dev \in Devs
    BY <1>3 DEF Known
  <1>5. n \in Nat \ {0} /\ n \in Number
    BY SeqsNumbers
  <1>6. CASE NoSeqfile(n)
    <2>1. Rest'
      BY <1>1, <1>6, RestSame DEF NoSeqfile, kernel
    <2> QED  BY <1>6, <2>1, <1>3, GoesOnType DEF NoSeqfile
  <1>7. CASE SeesTurn(n) \/ SeesLater(n)
    <2>1. Rest'
      BY <1>1, <1>7, RestSame DEF SeesTurn, SeesLater, kernel
    <2>2. seqfile' # Absent
      <3>1. (seqfile = n \/ seqfile > n) /\ seqfile' = seqfile
        BY <1>7 DEF SeesTurn, SeesLater
      <3>2. Absent # n /\ ~(Absent > n)
        BY <1>5 DEF Absent
      <3> QED  BY <3>1, <3>2
    <2> QED  BY <1>7, <2>1, <2>2, <1>3, GoesOnType DEF SeesTurn, SeesLater
  <1>8. CASE WritesSeed(n)
    <2>1. seqfile # Absent
      BY <1>8 DEF WritesSeed, Known
    <2>2. seqfile' \in Number /\ seqfile' # Absent
      BY <1>1, <1>5, <1>8, <2>1, OverwriteNumber, Positive DEF WritesSeed, Rest, Absent
    <2>3. Rest'
      BY <1>1, <1>8, <2>2 DEF WritesSeed, kernel, Rest
    <2> QED  BY <1>8, <2>2, <2>3, <1>3, GoesOnType DEF WritesSeed
  <1>9. CASE SeesSeed(n) \/ SeesEarlier(n)
    <2>1. PICK l \in {"seed", "wait"} : Step(n, [mdev[n] EXCEPT !.pc = l])
      BY <1>9 DEF SeesSeed, SeesEarlier
    <2> DEFINE u == [mdev[n] EXCEPT !.pc = l]
    <2>2. u \in Process /\ u.pc = l /\ u.dev = mdev[n].dev
      BY <1>1 DEF Process, Locs
    <2>3. Rest' /\ scan' = scan /\ chld' = chld
      BY <1>1, <1>9, RestSame DEF SeesSeed, SeesEarlier, kernel
    <2>4. seqfile' # Absent
      BY <1>5, <1>9 DEF SeesSeed, SeesEarlier, Absent, Seed
    <2>5. Step(n, u)
      BY <2>1
    <2> HIDE DEF u
    <2> QED  BY <1>2, <1>4, <2>2, <2>3, <2>4, <2>5, TypeStep
  <1>10. CASE Woken(n)
    <2> DEFINE u == [mdev[n] EXCEPT !.pc = "read"]
    <2>1. u \in Process /\ u.pc = "read" /\ u.dev = mdev[n].dev
      BY <1>1 DEF Process, Locs
    <2>2. Step(n, u) /\ chld' = chld \ {n}
      BY <1>10 DEF Woken
    <2>3. Rest' /\ scan' = scan
      BY <1>1, <1>10, RestSame DEF Woken, kernel
    <2>4. seqfile' # Absent
      BY <1>10 DEF Woken, Known
    <2> HIDE DEF u
    <2> QED  BY <1>2, <1>4, <2>1, <2>2, <2>3, <2>4, TypeStep
  <1>11. CASE TimesOut(n)
    <2>1. seqfile' # Absent /\ scan' = scan /\ mdev[n].timeout \in 1..Tries
      BY <1>1, <1>11 DEF TimesOut, Known, Process
    <2>2. CASE /\ mdev[n].timeout > 1
               /\ Step(n, [mdev[n] EXCEPT !.pc = "read", !.timeout = @ - 1])
               /\ UNCHANGED <<chld, ordered, trust>>
      <3> DEFINE u == [mdev[n] EXCEPT !.pc = "read", !.timeout = @ - 1]
      <3>1. mdev[n].timeout - 1 \in 1..Tries
        BY <2>1, <2>2, MdevAssumption
      <3>2. u \in Process /\ u.pc = "read" /\ u.dev = mdev[n].dev
        BY <1>1, <3>1 DEF Process, Locs
      <3>3. Rest'
        BY <1>1, <1>11, <2>2, RestSame DEF TimesOut, kernel
      <3>4. Step(n, u) /\ chld' = chld
        BY <2>2
      <3> HIDE DEF u
      <3> QED  BY <1>2, <1>4, <2>1, <3>2, <3>3, <3>4, TypeStep
    <2>3. CASE /\ GoesOn(n, TRUE)
               /\ ordered' = FALSE
               /\ Distrust({d \in Devs : Users(d) > 1})
      <3>1. trust' \in [Devs -> {"fresh", "sure", "unsure"}]
        BY <1>1, <2>3, DistrustType DEF Rest
      <3>2. Rest'
        BY <1>1, <1>11, <2>3, <3>1 DEF TimesOut, kernel, Rest
      <3> QED  BY <2>1, <2>3, <3>2, <1>3, GoesOnType
    <2> QED  BY <1>11, <2>2, <2>3 DEF TimesOut
  <1> QED  BY <1>6, <1>7, <1>8, <1>9, <1>10, <1>11

\* What happens in make_device() and at the end.
LEMMA WorkType ==
  ASSUME TypeOK, Known, NEW n \in Seqs,
         OpensDev(n) \/ AppliesRule(n) \/ Exits(n) \/ SignalsMdevs(n) \/ Killed(n)
  PROVE  TypeOK' /\ Known'
  <1>1. Rest /\ mdev \in [Seqs -> Process] /\ mdev[n] \in Process
    BY TypeJoined
  <1>2. chld \subseteq Waiting /\ Waiting \subseteq Seqs
    BY DEF TypeOK, Waiting
  <1>3. n \in Alive /\ mdev[n].dev \in Devs
    BY DEF OpensDev, AppliesRule, Exits, SignalsMdevs, Killed, Alive, Known
  <1>4. seqfile = Absent => ~mdev[n].fd
    BY DEF Known
  <1>5. Done(n) \in Process /\ Done(n).pc = "done" /\ ~Done(n).fd
    BY DoneType DEF Known
  <1>6. mdev[n].pc \notin {"read", "seed", "wait"} => n \notin chld
    BY <1>2 DEF Waiting
  <1>7. CASE OpensDev(n)
    <2>1. sys[mdev[n].dev] # None => sys[mdev[n].dev] \in Nums
      BY <1>1, <1>3 DEF Rest
    <2> DEFINE d == mdev[n].dev
               u == CASE mdev[n].op # "add" -> [mdev[n] EXCEPT !.pc = "rules"]
                      [] mdev[n].op = "add" /\ sys[d] = None -> [mdev[n] EXCEPT !.pc = "exit"]
                      [] OTHER -> [mdev[n] EXCEPT !.pc = "rules", !.major = sys[d]]
    <2>2. \/ u = [mdev[n] EXCEPT !.pc = "rules"]
          \/ u = [mdev[n] EXCEPT !.pc = "exit"]
          \/ u = [mdev[n] EXCEPT !.pc = "rules", !.major = sys[d]] /\ sys[d] \in Nums
      BY <2>1
    <2>3. Step(n, u)
      BY <1>7 DEF OpensDev
    <2> HIDE DEF u
    <2>4. u \in Process /\ u.pc \in {"rules", "exit"} /\ u.dev = mdev[n].dev /\ u.fd = mdev[n].fd
      BY <1>1, <2>2 DEF Process, Locs
    <2>5. Rest' /\ scan' = scan /\ chld' = chld /\ seqfile' = seqfile
      BY <1>1, <1>7, RestSame DEF OpensDev, kernel
    <2>6. n \notin chld
      BY <1>6, <1>7 DEF OpensDev
    <2> QED  BY <1>2, <1>3, <1>4, <2>3, <2>4, <2>5, <2>6, TypeStep
  <1>8. CASE AppliesRule(n)
    <2> DEFINE d == mdev[n].dev
               k == NextMatch(mdev[n].rule, d, mdev[n].major)
               r == AllRules[k]
               major == Major(r, mdev[n].major)
               u == IF r.keep THEN [mdev[n] EXCEPT !.rule = k + 1, !.major = major]
                              ELSE [mdev[n] EXCEPT !.pc = "exit"]
    <2>1. r.keep => k + 1 \in 1..Len(AllRules)
      BY <1>1, <1>3, NextMatchFound DEF Known, Process
    <2>2. /\ nodes' = CASE mdev[n].op = "add" /\ major >= 0 -> MakeNode(r, d, major)
                      [] mdev[n].op = "remove" /\ major >= -1 -> RemoveNode(r, d)
                      [] OTHER -> nodes
          /\ Step(n, u)
          /\ mdev[n].pc = "rules"
      BY <1>8 DEF AppliesRule
    <2>3. major \in {-2, -1} \cup Nums
      BY <1>1 DEF Major, Process
    <2>4. \/ u = [mdev[n] EXCEPT !.rule = k + 1, !.major = major] /\ k + 1 \in 1..Len(AllRules)
          \/ u = [mdev[n] EXCEPT !.pc = "exit"]
      BY <2>1
    <2> HIDE DEF u, major, r, k
    <2>5. u \in Process /\ u.pc \in {"rules", "exit"} /\ u.dev = mdev[n].dev /\ u.fd = mdev[n].fd
      BY <1>1, <2>2, <2>3, <2>4 DEF Process, Locs
    <2>6. major >= 0 => major \in {None} \cup Nums
      BY <2>3
    <2>7. nodes' \in [Names -> {Link, None} \cup Nums]
      BY <1>1, <2>2, <2>6, NodesType DEF Rest
    <2>8. Rest' /\ scan' = scan /\ chld' = chld /\ seqfile' = seqfile
      <3>1. /\ sys' = sys /\ seqnum' = seqnum /\ scan' = scan /\ chld' = chld
            /\ seqfile' = seqfile /\ ordered' = ordered /\ trust' = trust
        BY <1>8 DEF AppliesRule, kernel
      <3> QED  BY <1>1, <2>7, <3>1, Zenon DEF Rest
    <2>9. n \notin chld
      BY <1>6, <2>2
    <2> QED  BY <1>2, <1>3, <1>4, <2>2, <2>5, <2>8, <2>9, TypeStep
  <1>9. CASE Exits(n)
    <2>1. scan' = scan /\ chld' = chld /\ n \notin chld
      BY <1>6, <1>9 DEF Exits
    <2>2. CASE mdev[n].fd
      <3> DEFINE u == [mdev[n] EXCEPT !.pc = "signal"]
      <3>1. u \in Process /\ u.pc = "signal" /\ u.dev = mdev[n].dev
        BY <1>1 DEF Process, Locs
      <3>2. Step(n, u) /\ seqfile' = Overwrite(n + 1)
        BY <1>9, <2>2 DEF Exits
      <3>3. seqfile \in {Seed} \cup Number
        BY <1>1, <1>4, <2>2 DEF Rest
      <3>4. seqfile' \in Number /\ seqfile' # Absent
        BY <3>2, <3>3, SeqsNumbers, OverwriteNumber, Positive DEF Absent
      <3>5. Rest'
        <4>1. /\ sys' = sys /\ seqnum' = seqnum /\ nodes' = nodes
              /\ ordered' = ordered /\ trust' = trust
          BY <1>9 DEF Exits, kernel
        <4> QED  BY <1>1, <3>4, <4>1, Zenon DEF Rest
      <3> HIDE DEF u
      <3> QED  BY <1>2, <1>3, <2>1, <3>1, <3>2, <3>4, <3>5, TypeStep
    <2>3. CASE ~mdev[n].fd
      <3>1. seqfile' = seqfile /\ Step(n, Done(n))
        BY <1>9, <2>3 DEF Exits
      <3>2. Rest'
        BY <1>1, <1>9, <3>1, RestSame DEF Exits, kernel
      <3> QED  BY <1>2, <1>5, <2>1, <3>1, <3>2, TypeStep
    <2> QED  BY <2>2, <2>3
  <1>10. CASE SignalsMdevs(n)
    <2>1. Rest' /\ scan' = scan /\ seqfile' = seqfile
      BY <1>1, <1>10, RestSame DEF SignalsMdevs, kernel
    <2>2. chld' = Waiting /\ Step(n, Done(n)) /\ n \notin Waiting
      BY <1>10 DEF SignalsMdevs, Waiting
    <2> QED  BY <1>2, <1>5, <2>1, <2>2, TypeStep
  <1>11. CASE Killed(n)
    <2>1. chld' = chld \ {n} /\ Step(n, Done(n)) /\ scan' = scan /\ seqfile' = seqfile
      BY <1>11 DEF Killed
    <2>2. Rest'
      <3>1. trust' \in [Devs -> {"fresh", "sure", "unsure"}]
        BY <1>1, <1>11, DistrustType DEF Killed, Rest
      <3>2. /\ sys' = sys /\ seqnum' = seqnum /\ nodes' = nodes
            /\ ordered' = ordered /\ seqfile' = seqfile
        BY <1>11 DEF Killed, kernel
      <3> QED  BY <1>1, <3>1, <3>2, Zenon DEF Rest
    <2> QED  BY <1>2, <1>5, <2>1, <2>2, TypeStep
  <1> QED  BY <1>7, <1>8, <1>9, <1>10, <1>11

\* A step of mdev -s.
LEMMA ProcessesSame ==
  ASSUME TypeOK, Known, mdev' = mdev, conf' = conf, seqfile' = seqfile, chld' = chld, Rest',
         scan' \in Scanner
  PROVE  TypeOK' /\ Known'
  <1>1. AllRules' = AllRules
    BY DEF AllRules
  <1>2. mdev' \in [Seqs -> Process]
    BY TypeParts
  <1>3. (scan \in Scanner)' /\ (mdev \in [Seqs -> Process])'
    BY <1>1, <1>2 DEF Scanner, Process
  <1>4. (chld \subseteq Waiting)'
    BY DEF TypeOK, Waiting
  <1>5. Known'
    BY DEF Known, Alive
  <1> QED  BY <1>3, <1>4, <1>5 DEF TypeOK, Rest, Process, Scanner, Locs

LEMMA ScanType ==
  ASSUME TypeOK, Known, ScanAppliesRule \/ \E d \in Devs : ScanOpens(d)
  PROVE  TypeOK' /\ Known'
  <1>1. Rest /\ scan \in Scanner
    BY TypeJoined
  <1>2. CASE \E d \in Devs : ScanOpens(d)
    <2>1. PICK d \in Devs : ScanOpens(d)
      BY <1>2
    <2>2. 1 \in 1..Len(AllRules) /\ sys[d] \in {None} \cup Nums
      BY <1>1, RulesType DEF Known, Rest
    <2>3. scan' \in Scanner
      BY <1>1, <2>1, <2>2 DEF ScanOpens, Scanner, Idle
    <2>4. trust' \in [Devs -> {"fresh", "sure", "unsure"}]
      BY <1>1, <2>1, DistrustType DEF ScanOpens, Rest
    <2>5. /\ sys' = sys /\ seqnum' = seqnum /\ mdev' = mdev /\ conf' = conf
          /\ seqfile' = seqfile /\ chld' = chld /\ nodes' = nodes /\ ordered' = ordered
      BY <2>1 DEF ScanOpens, kernel
    <2>6. Rest'
      BY <1>1, <2>4, <2>5, Zenon DEF Rest
    <2> QED  BY <2>3, <2>5, <2>6, ProcessesSame
  <1>3. CASE ScanAppliesRule
    <2> DEFINE d == scan.dev
               k == NextMatch(scan.rule, d, scan.major)
               r == AllRules[k]
               major == Major(r, scan.major)
    <2>1. scan.rule \in 1..Len(AllRules) /\ d \in Devs
      BY <1>1, <1>3 DEF Scanner, ScanAppliesRule
    <2>2. r.keep => k + 1 \in 1..Len(AllRules)
      BY <2>1, NextMatchFound DEF Known
    <2>3. major \in {-2, -1, None} \cup Nums
      BY <1>1 DEF Major, Scanner
    <2>4. /\ nodes' = IF major >= 0 THEN MakeNode(r, d, major) ELSE nodes
          /\ IF r.keep
             THEN scan' = [scan EXCEPT !.rule = k + 1, !.major = major] /\ UNCHANGED trust
             ELSE scan' = [Idle EXCEPT !.todo = scan.todo] /\ ScanLeaves(d)
      BY <1>3 DEF ScanAppliesRule
    <2>5. /\ sys' = sys /\ seqnum' = seqnum /\ mdev' = mdev /\ conf' = conf
          /\ seqfile' = seqfile /\ chld' = chld /\ ordered' = ordered
      BY <1>3 DEF ScanAppliesRule, kernel
    <2> HIDE DEF major, r, k
    <2>6. major >= 0 => major \in {None} \cup Nums
      BY <2>3, MdevAssumption DEF None
    <2>7. nodes' \in [Names -> {Link, None} \cup Nums]
      BY <1>1, <2>4, <2>6, NodesType DEF Rest
    <2>8. 1 \in 1..Len(AllRules)
      BY RulesType DEF Known
    <2>9. scan' \in Scanner
      BY <1>1, <2>2, <2>3, <2>4, <2>8 DEF Scanner, Idle, NoDev
    <2>10. trust' \in [Devs -> {"fresh", "sure", "unsure"}]
      BY <1>1, <2>1, <2>4 DEF Rest, ScanLeaves
    <2>11. Rest'
      BY <1>1, <2>5, <2>7, <2>10, Zenon DEF Rest
    <2> QED  BY <2>5, <2>9, <2>11, ProcessesSame
  <1> QED  BY <1>2, <1>3

LEMMA NextType == TypeOK /\ Known /\ [Next]_vars => TypeOK' /\ Known'
  <1> SUFFICES ASSUME TypeOK, Known, [Next]_vars  PROVE  TypeOK' /\ Known'
    OBVIOUS
  <1>1. ASSUME NEW d \in Devs, \/ Unplug(d) \/ Change(d) \/ \E num \in Nums : Plug(d, num)
        PROVE  TypeOK' /\ Known'
    <2>1. sys' \in [Devs -> {None} \cup Nums]
      BY <1>1 DEF Unplug, Change, Plug, TypeOK
    <2>2. \E op \in {"add", "remove", "change"} : Event(op, d)
      BY <1>1 DEF Unplug, Change, Plug
    <2> QED  BY <2>1, <2>2, EventType
  <1>2. ASSUME NEW n \in Seqs, Mdev(n) \/ Killed(n)  PROVE  TypeOK' /\ Known'
    BY <1>2, WaitType, WorkType DEF Mdev
  <1>3. CASE UNCHANGED vars
    <2>1. Rest' /\ scan' \in Scanner
      BY <1>3, TypeJoined, RestSame DEF vars, kernel
    <2> QED  BY <1>3, <2>1, ProcessesSame DEF vars, kernel
  <1> QED  BY <1>1, <1>2, <1>3, ScanType DEF Next

\* The variables keep their types: in particular next_rule() always finds a
\* rule, the countdown of the timeout ends at 1, no signal is pending for a
\* process that ignores it, and the file keeps a number that an unsigned holds
\* in as many digits, whoever writes over it.
THEOREM TypeCorrect == Spec => []TypeOK
  <1> QED  BY InitType, NextType, PTL DEF Spec

-----------------------------------------------------------------------------
(* The turns that the mdevs take.                                          *)
\* The mdevs of the events to come are not started.
Unstarted == \A n \in Seqs : n >= seqnum => mdev[n].pc = "none"

\* As long as they take turns: the file is at most at the first one that has
\* not written it, nor ahead of the next event; several at once only run if it
\* holds a number; who is about to write the first number runs alone.
Turns ==
  ordered =>
    /\ \A n \in Alive : mdev[n].pc # "signal" => seqfile <= n
    /\ Alive # {} => seqfile <= seqnum
    /\ \A m, n \in Alive : m # n => seqfile > 0
    /\ \A m, n \in Alive : mdev[m].pc = "seed" => m = n /\ seqfile = Seed

Order == Unstarted /\ Turns /\ Serialized

\* A step of one mdev that does not write the file.  To start its work it sees
\* its own number, or one behind it, or no number.
LEMMA OrderStep ==
  ASSUME TypeOK, Order, NEW n \in Alive, NEW l \in Locs \ {"none"},
         mdev'[n].pc = l, \A m \in Seqs : m # n => mdev'[m].pc = mdev[m].pc,
         seqnum' = seqnum, seqfile' = seqfile, ordered' => ordered,
         mdev[n].pc = "signal" => l = "done",
         ordered /\ l = "seed" => seqfile = Seed,
         ordered /\ l \in {"open", "rules", "exit"} => Working(n) \/ seqfile >= n \/ seqfile <= 0
  PROVE  Order'
  <1>1. n \in Seqs /\ Seqs \subseteq Nat \ {0} /\ seqnum \in Nat /\ seqfile \in Int
    <2>1. seqfile \in Int
      BY Positive DEF TypeOK, Absent, Seed
    <2> QED  BY <2>1, SeqsNumbers, MdevAssumption DEF Alive, TypeOK
  <1>2. Alive' = IF l = "done" THEN Alive \ {n} ELSE Alive
    BY <1>1 DEF Alive, Locs
  <1>3. Alive \subseteq Seqs
    BY DEF Alive
  <1>4. Unstarted'
    BY <1>1 DEF Order, Unstarted, Alive
  <1>5. Turns'
    <2> SUFFICES ASSUME ordered'  PROVE  Turns!2'
      BY DEF Turns
    <2>1. Turns!2 /\ ordered
      BY DEF Order, Turns
    <2>2. \A m \in Alive' : mdev'[m].pc # "signal" => seqfile <= m
      BY <1>1, <1>2, <1>3, <2>1
    <2>3. Alive' # {} => seqfile <= seqnum
      BY <1>2, <2>1
    <2>4. \A m, k \in Alive' : m # k => seqfile > 0
      BY <1>2, <2>1
    <2>5. \A m, k \in Alive' : mdev'[m].pc = "seed" => m = k /\ seqfile = Seed
      BY <1>1, <1>2, <1>3, <2>1 DEF Seed
    <2> QED  BY <2>2, <2>3, <2>4, <2>5
  <1>6. Serialized'
    <2> SUFFICES ASSUME ordered', NEW m \in Alive', NEW k \in Alive', m < k, mdev'[m].pc # "signal"
                 PROVE  ~Working(k)'
      BY DEF Serialized
    <2>1. /\ m \in Alive /\ k \in Alive /\ ordered /\ m \in Nat /\ k \in Nat
          /\ mdev[m].pc # "signal" /\ ~Working(k) /\ seqfile <= m /\ seqfile > 0
      BY <1>1, <1>2, <1>3 DEF Order, Turns, Serialized
    <2>2. CASE k # n
      BY <1>3, <2>1, <2>2 DEF Working
    <2>3. CASE k = n
      BY <1>1, <2>1, <2>3 DEF Working
    <2> QED  BY <2>2, <2>3
  <1> QED  BY <1>4, <1>5, <1>6 DEF Order

\* A step of one mdev that writes the number that comes up next: its own while
\* it runs alone, or the one after it at its end.
LEMMA OrderWrite ==
  ASSUME TypeOK, Known, Order, NEW n \in Seqs, WritesSeed(n) \/ (Exits(n) /\ mdev[n].fd)
  PROVE  Order'
  <1>1. n \in Alive /\ seqfile # Absent
    BY DEF WritesSeed, Exits, Alive, Known
  <1>2. Seqs \subseteq Nat \ {0} /\ seqnum \in Nat /\ seqfile \in {Seed} \cup Number /\ seqfile \in Int
    <2>1. seqfile \in {Seed} \cup Number
      BY <1>1 DEF TypeOK
    <2>2. seqfile \in Int
      BY <2>1, Positive DEF Seed
    <2> QED  BY <2>1, <2>2, SeqsNumbers, MdevAssumption DEF TypeOK
  <1>3. n < seqnum
    BY <1>1, <1>2 DEF Order, Unstarted, Alive
  <1>4. PICK l \in {"open", "signal"} :
          /\ mdev'[n].pc = l /\ \A m \in Seqs : m # n => mdev'[m].pc = mdev[m].pc
          /\ seqfile' = Overwrite(IF l = "open" THEN n ELSE n + 1)
          /\ mdev[n].pc = IF l = "open" THEN "seed" ELSE "exit"
    <2>1. CASE WritesSeed(n)
      BY <2>1, TypeParts DEF WritesSeed, GoesOn, Process
    <2>2. CASE Exits(n) /\ mdev[n].fd
      BY <2>2, TypeParts DEF Exits, Step, Process
    <2> QED  BY <2>1, <2>2
  <1>5. seqnum' = seqnum /\ ordered' = ordered
    BY DEF WritesSeed, Exits, kernel
  <1>6. Alive' = Alive /\ Alive \subseteq Seqs
    BY <1>1, <1>4 DEF Alive
  <1>7. Unstarted'
    BY <1>1, <1>4, <1>5, <1>6 DEF Order, Unstarted, Alive
  <1> SUFFICES ASSUME ordered  PROVE  Turns' /\ Serialized'
    BY <1>5, <1>7 DEF Order, Turns, Serialized
  <1>8. seqfile <= n /\ Turns!2
    BY <1>1, <1>4 DEF Order, Turns
  <1>9. seqfile' = IF l = "open" THEN n ELSE n + 1
    <2>1. n \in Number /\ n + 1 \in Number /\ seqfile <= n + 1
      BY <1>2, <1>8, SeqsNumbers
    <2> QED  BY <1>2, <1>4, <1>8, <2>1, OverwriteNumber
  <1>10. CASE l = "open"
    <2>1. Alive = {n}
      BY <1>1, <1>4, <1>8, <1>10
    <2>2. Turns!2'
      BY <1>2, <1>3, <1>4, <1>5, <1>6, <1>9, <1>10, <2>1
    <2>3. Serialized'
      BY <1>2, <1>6, <2>1 DEF Serialized
    <2> QED  BY <2>2, <2>3 DEF Turns
  <1>11. CASE l = "signal"
    <2>1. \A m \in Alive : m # n /\ mdev[m].pc # "signal" => n < m
      BY <1>1, <1>2, <1>4, <1>6, <1>11 DEF Order, Serialized, Working
    <2>2. \A m \in Alive' : mdev'[m].pc # "signal" => seqfile' <= m
      BY <1>2, <1>4, <1>6, <1>9, <1>11, <2>1
    <2>3. seqfile' <= seqnum' /\ seqfile' > 0
      BY <1>2, <1>3, <1>5, <1>9, <1>11
    <2>4. \A m \in Alive' : mdev'[m].pc # "seed"
      BY <1>1, <1>4, <1>6, <1>8, <1>11
    <2>5. Serialized'
      <3> SUFFICES ASSUME NEW m \in Alive', NEW k \in Alive', m < k, mdev'[m].pc # "signal"
                   PROVE  ~Working(k)'
        BY DEF Serialized
      <3>1. m # n /\ m \in Alive /\ k \in Alive /\ mdev[m].pc # "signal" /\ ~Working(k)
        BY <1>4, <1>6, <1>11 DEF Order, Serialized
      <3> QED  BY <1>4, <1>6, <1>11, <3>1 DEF Working
    <2> QED  BY <2>2, <2>3, <2>4, <2>5 DEF Turns
  <1> QED  BY <1>10, <1>11

\* The kernel starts an mdev.
LEMMA OrderEvent ==
  ASSUME TypeOK, Order, NEW op, NEW d, Event(op, d)
  PROVE  Order'
  <1>1. Seqs \subseteq Nat \ {0} /\ seqnum \in Seqs /\ seqfile \in Int
    BY SeqsNumbers, Positive DEF Event, TypeOK, Absent, Seed
  <1>2. /\ mdev'[seqnum].pc = "read" /\ \A m \in Seqs : m # seqnum => mdev'[m].pc = mdev[m].pc
        /\ seqnum' = seqnum + 1 /\ seqfile' = seqfile
    BY <1>1, TypeParts DEF Event, Step, NotStarted
  <1>3. Alive' = Alive \cup {seqnum} /\ Alive \subseteq Seqs
    BY <1>1, <1>2 DEF Alive
  <1>4. \A m \in Alive : m < seqnum
    BY <1>1, <1>3 DEF Order, Unstarted, Alive
  <1>5. Unstarted'
    <2> SUFFICES ASSUME NEW m \in Seqs, m >= seqnum + 1  PROVE  mdev'[m].pc = "none"
      BY <1>2 DEF Unstarted
    <2>1. m # seqnum /\ m >= seqnum
      BY <1>1
    <2> QED  BY <1>2, <2>1 DEF Order, Unstarted
  <1> SUFFICES ASSUME ordered'  PROVE  Turns' /\ Serialized'
    BY <1>5 DEF Order, Turns, Serialized
  <1>6. CASE Alive = {}
    <2>1. seqfile <= seqnum
      BY <1>6 DEF Event, StaysOrdered
    <2>2. Turns!2'
      BY <1>1, <1>2, <1>3, <1>6, <2>1
    <2>3. Serialized'
      BY <1>1, <1>3, <1>6 DEF Serialized
    <2> QED  BY <2>2, <2>3 DEF Turns
  <1>7. CASE Alive # {}
    <2>1. ordered /\ seqfile > 0
      BY <1>7 DEF Event, StaysOrdered
    <2>2. Turns!2
      BY <2>1 DEF Order, Turns
    <2>3. \A m \in Alive' : mdev'[m].pc # "signal" => seqfile' <= m
      BY <1>1, <1>2, <1>3, <1>7, <2>2
    <2>4. seqfile' <= seqnum' /\ seqfile' > 0
      BY <1>1, <1>2, <1>7, <2>1, <2>2
    <2>5. \A m \in Alive' : mdev'[m].pc # "seed"
      BY <1>1, <1>2, <1>3, <2>1, <2>2 DEF Seed
    <2>6. Serialized'
      <3> SUFFICES ASSUME NEW m \in Alive', NEW k \in Alive', m < k, mdev'[m].pc # "signal"
                   PROVE  ~Working(k)'
        BY DEF Serialized
      <3>1. m # seqnum /\ m \in Alive
        BY <1>1, <1>3, <1>4
      <3>2. CASE k = seqnum
        BY <1>2, <3>2 DEF Working
      <3>3. CASE k # seqnum
        BY <1>2, <1>3, <2>1, <3>1, <3>3 DEF Order, Serialized, Working
      <3> QED  BY <3>2, <3>3
    <2> QED  BY <2>3, <2>4, <2>5, <2>6 DEF Turns
  <1> QED  BY <1>6, <1>7

\* A step that no mdev and no event takes part in.
LEMMA OrderSame ==
  ASSUME Order, mdev' = mdev, seqnum' = seqnum, seqfile' = seqfile, ordered' = ordered
  PROVE  Order'
  BY DEF Order, Unstarted, Turns, Serialized, Alive, Working

\* The other steps of an mdev.
LEMMA OrderRest ==
  ASSUME TypeOK, Known, Order, NEW n \in Seqs, Mdev(n) \/ Killed(n),
         ~WritesSeed(n), ~(Exits(n) /\ mdev[n].fd)
  PROVE  Order'
  <1>1. mdev \in [Seqs -> Process] /\ mdev[n] \in Process
    BY TypeParts
  <1>2. seqnum' = seqnum /\ seqfile' = seqfile
    BY DEF Mdev, NoSeqfile, SeesSeed, SeesTurn, SeesLater, SeesEarlier, Woken, TimesOut,
           OpensDev, AppliesRule, Exits, SignalsMdevs, Killed, kernel
  <1>3. n \in Alive
    BY DEF Mdev, NoSeqfile, SeesSeed, SeesTurn, SeesLater, SeesEarlier, Woken, TimesOut,
           OpensDev, AppliesRule, Exits, SignalsMdevs, Killed, Alive
  <1>4. CASE NoSeqfile(n) \/ SeesTurn(n) \/ SeesLater(n)
    <2>1. /\ mdev'[n].pc = "open" /\ \A m \in Seqs : m # n => mdev'[m].pc = mdev[m].pc
          /\ mdev[n].pc = "read" /\ ordered' = ordered
      BY <1>1, <1>4 DEF NoSeqfile, SeesTurn, SeesLater, GoesOn, Process
    <2>2. seqfile >= n \/ seqfile <= 0
      <3>1. seqfile = n \/ seqfile > n \/ seqfile = Absent
        BY <1>4 DEF NoSeqfile, SeesTurn, SeesLater
      <3>2. n \in Int /\ seqfile \in Int
        BY SeqsNumbers, Positive DEF TypeOK, Absent, Seed
      <3> QED  BY <3>1, <3>2 DEF Absent
    <2> QED  BY <1>2, <1>3, <2>1, <2>2, OrderStep DEF Locs
  <1>5. CASE SeesSeed(n) \/ SeesEarlier(n) \/ Woken(n)
    <2>1. \E l \in {"seed", "wait", "read"} :
            /\ mdev'[n].pc = l /\ \A m \in Seqs : m # n => mdev'[m].pc = mdev[m].pc
            /\ mdev[n].pc # "signal" /\ ordered' = ordered /\ (l = "seed" => seqfile = Seed)
      BY <1>1, <1>5 DEF SeesSeed, SeesEarlier, Woken, Step, Process
    <2> QED  BY <1>2, <1>3, <2>1, OrderStep DEF Locs
  <1>6. CASE TimesOut(n)
    <2>1. \E l \in {"open", "read"} :
            /\ mdev'[n].pc = l /\ \A m \in Seqs : m # n => mdev'[m].pc = mdev[m].pc
            /\ mdev[n].pc # "signal" /\ (ordered' => ordered)
            /\ (l = "open" => ~ordered')
      <3>1. CASE ordered' = ordered /\ Step(n, [mdev[n] EXCEPT !.pc = "read", !.timeout = @ - 1])
        <4>1. mdev'[n].pc = "read" /\ \A m \in Seqs : m # n => mdev'[m].pc = mdev[m].pc
          BY <1>1, <3>1 DEF Step, Process
        <4>2. mdev[n].pc # "signal"
          BY <1>6 DEF TimesOut
        <4> QED  BY <3>1, <4>1, <4>2
      <3>2. CASE ordered' = FALSE /\ GoesOn(n, TRUE)
        <4>1. mdev'[n].pc = "open" /\ \A m \in Seqs : m # n => mdev'[m].pc = mdev[m].pc
          BY <1>1, <3>2 DEF GoesOn, Process
        <4>2. mdev[n].pc # "signal"
          BY <1>6 DEF TimesOut
        <4> QED  BY <3>2, <4>1, <4>2
      <3> QED  BY <1>6, <3>1, <3>2 DEF TimesOut
    <2>2. CASE ordered'
      BY <1>2, <1>3, <2>1, <2>2, OrderStep DEF Locs
    <2>3. CASE ~ordered'
      <3>1. Unstarted'
        BY <1>2, <1>3, <2>1 DEF Order, Unstarted, Alive
      <3> QED  BY <2>3, <3>1 DEF Order, Turns, Serialized
    <2> QED  BY <2>2, <2>3
  <1>7. CASE OpensDev(n) \/ AppliesRule(n)
    <2>1. \E l \in {"rules", "exit"} :
            /\ mdev'[n].pc = l /\ \A m \in Seqs : m # n => mdev'[m].pc = mdev[m].pc
            /\ mdev[n].pc \in {"open", "rules"} /\ ordered' = ordered
      <3>1. CASE OpensDev(n)
        BY <1>1, <3>1 DEF OpensDev, Step, Process
      <3>2. CASE AppliesRule(n)
        <4>1. PICK u : Step(n, u) /\ u.pc \in {"rules", "exit"}
          <5> DEFINE k == NextMatch(mdev[n].rule, mdev[n].dev, mdev[n].major)
                     r == AllRules[k]
                     major == Major(r, mdev[n].major)
                     u == IF r.keep THEN [mdev[n] EXCEPT !.rule = k + 1, !.major = major]
                                    ELSE [mdev[n] EXCEPT !.pc = "exit"]
          <5>1. Step(n, u) /\ mdev[n].pc = "rules"
            BY <3>2 DEF AppliesRule
          <5> HIDE DEF k, r, major
          <5>2. u.pc \in {"rules", "exit"}
            BY <1>1, <5>1 DEF Process
          <5> QED  BY <5>1, <5>2
        <4> QED  BY <1>1, <3>2, <4>1 DEF AppliesRule, Step
      <3> QED  BY <1>7, <3>1, <3>2
    <2> QED  BY <1>2, <1>3, <2>1, OrderStep DEF Locs, Working
  <1>8. CASE Exits(n) \/ SignalsMdevs(n) \/ Killed(n)
    <2>1. mdev'[n].pc = "done" /\ \A m \in Seqs : m # n => mdev'[m].pc = mdev[m].pc
      BY <1>1, <1>8 DEF Exits, SignalsMdevs, Killed, Step, Done, NotStarted
    <2>2. ordered' = ordered
      BY <1>8 DEF Exits, SignalsMdevs, Killed
    <2> QED  BY <1>2, <1>3, <2>1, <2>2, OrderStep DEF Locs
  <1> QED  BY <1>4, <1>5, <1>6, <1>7, <1>8 DEF Mdev

LEMMA InitOrder == Init => Order
  <1> SUFFICES ASSUME Init  PROVE  Order
    OBVIOUS
  <1>1. \A n \in Seqs : mdev[n].pc = "none"
    BY DEF Init, NotStarted
  <1>2. Alive = {}
    BY <1>1 DEF Alive
  <1> QED  BY <1>1, <1>2 DEF Order, Unstarted, Turns, Serialized

LEMMA NextOrder == TypeOK /\ Known /\ Order /\ [Next]_vars => Order'
  <1> SUFFICES ASSUME TypeOK, Known, Order, [Next]_vars  PROVE  Order'
    OBVIOUS
  <1>1. ASSUME NEW d \in Devs, \/ Unplug(d) \/ Change(d) \/ \E num \in Nums : Plug(d, num)
        PROVE  Order'
    BY <1>1, OrderEvent DEF Unplug, Change, Plug
  <1>2. ASSUME NEW n \in Seqs, Mdev(n) \/ Killed(n)  PROVE  Order'
    BY <1>2, OrderWrite, OrderRest
  <1>3. CASE ScanAppliesRule \/ (\E d \in Devs : ScanOpens(d)) \/ UNCHANGED vars
    BY <1>3, OrderSame DEF ScanAppliesRule, ScanOpens, vars, kernel
  <1> QED  BY <1>1, <1>2, <1>3 DEF Next

\* wait_for_seqfile(): the events are worked on one after the other, in the
\* order of their numbers, from any time when all mdevs are done until one runs
\* into its timeout or a second one is started although the file has no number.
THEOREM EventsSerialized == Spec => []Serialized
  <1> QED  BY InitType, NextType, InitOrder, NextOrder, PTL DEF Spec, Order

-----------------------------------------------------------------------------
(* What the rules make and remove.                                         *)
End == Len(AllRules) + 1

\* The rules before k let d go on with this number.
Clear(d, major, k) == \A i \in 1..Len(AllRules) : i < k => GoesPast(AllRules[i], d, major)

\* What they make of it.
Upto(d, major, k) == UNION {NodesOf(AllRules[j], d) : j \in {i \in Applied(d, major) : i < k}}

LEMMA UptoIn ==
  ASSUME NEW d, NEW major, NEW k, NEW x
  PROVE  x \in Upto(d, major, k) <=> \E j \in Applied(d, major) : j < k /\ x \in NodesOf(AllRules[j], d)
  BY DEF Upto

LEMMA ForIn ==
  ASSUME NEW d, NEW major, NEW x
  PROVE  x \in NodesFor(d, major) <=> \E j \in Applied(d, major) : x \in NodesOf(AllRules[j], d)
  BY DEF NodesFor

LEMMA UptoEnds ==
  ASSUME conf \in Confs, NEW d, NEW major
  PROVE  /\ Upto(d, major, 1) = {} /\ Upto(d, major, End) = NodesFor(d, major)
         /\ \A k : Upto(d, major, k) \subseteq NodesFor(d, major)
  <1>1. Len(AllRules) \in Nat
    BY RulesType
  <1>2. \A j \in Applied(d, major) : j \in 1..Len(AllRules) /\ j < End /\ ~(j < 1)
    BY <1>1 DEF Applied, End
  <1> QED  BY <1>2 DEF Upto, NodesFor

\* next_rule() and the tests after it find the next rule that matches; it is
\* applied if it is not "!", and if it is, or has no "-", nothing else is.
LEMMA NextApplied ==
  ASSUME conf \in Confs, NEW d \in Devs, NEW major, NEW k \in 1..Len(AllRules),
         Clear(d, major, k), NEW j, j = NextMatch(k, d, major)
  PROVE  /\ j \in 1..Len(AllRules) /\ AllRules[j] \in Rule
         /\ AllRules[j].keep => j + 1 \in 1..Len(AllRules)
         /\ AllRules[j].ren # "!" => j \in Applied(d, major)
         /\ AllRules[j].keep /\ AllRules[j].ren # "!" => Clear(d, major, j + 1)
         /\ AllRules[j].ren # "!" =>
              Upto(d, major, j + 1) = Upto(d, major, k) \cup NodesOf(AllRules[j], d)
         /\ AllRules[j].ren = "!" => NodesFor(d, major) = Upto(d, major, k)
         /\ ~AllRules[j].keep => NodesFor(d, major) = Upto(d, major, j + 1)
  <1> DEFINE Good(x) == /\ Matches(AllRules[x], d, major)
                        /\ \A i \in k..(x - 1) : ~Matches(AllRules[i], d, major)
  <1>1. /\ j \in k..Len(AllRules) /\ j \in 1..Len(AllRules) /\ AllRules[j] \in Rule
        /\ AllRules[j].keep => j + 1 \in 1..Len(AllRules)
    BY NextMatchFound
  <1>2. Len(AllRules) \in Nat /\ k \in Nat /\ j \in Nat
    BY <1>1, RulesType
  <1>3. Good(j)
    BY NextMatchFound
  <1>4. \A i \in 1..(j - 1) : GoesPast(AllRules[i], d, major)
    <2> SUFFICES ASSUME NEW i \in 1..(j - 1)  PROVE  GoesPast(AllRules[i], d, major)
      OBVIOUS
    <2>1. i \in 1..Len(AllRules) /\ (i < k \/ i \in k..(j - 1))
      BY <1>1, <1>2
    <2> QED  BY <1>3, <2>1 DEF Clear, GoesPast
  <1>5. \A i \in Applied(d, major) : i \in Nat /\ (i < j => i < k)
    <2> SUFFICES ASSUME NEW i \in Applied(d, major), i < j, ~(i < k)  PROVE  FALSE
      BY DEF Applied
    <2>1. i \in k..(j - 1) /\ Matches(AllRules[i], d, major)
      BY <1>2 DEF Applied
    <2> QED  BY <1>3, <2>1
  <1>6. AllRules[j].ren # "!" => j \in Applied(d, major)
    BY <1>1, <1>3, <1>4 DEF Applied
  <1>7. ASSUME ~(AllRules[j].keep /\ AllRules[j].ren # "!"), NEW i \in Applied(d, major)
        PROVE  i <= j
    <2> SUFFICES ASSUME ~(i <= j)  PROVE  FALSE
      OBVIOUS
    <2>1. j \in 1..(i - 1) /\ Matches(AllRules[j], d, major)
      BY <1>1, <1>2, <1>3, <1>5
    <2> QED  BY <1>7, <2>1 DEF Applied, GoesPast
  <1>8. AllRules[j].keep /\ AllRules[j].ren # "!" => Clear(d, major, j + 1)
    <2>1. \A i \in 1..Len(AllRules) : i < j + 1 => i \in 1..(j - 1) \/ i = j
      BY <1>2
    <2>2. AllRules[j].keep /\ AllRules[j].ren # "!" => GoesPast(AllRules[j], d, major)
      BY DEF GoesPast
    <2> QED  BY <1>4, <2>1, <2>2 DEF Clear
  <1>9. AllRules[j].ren # "!" =>
          Upto(d, major, j + 1) = Upto(d, major, k) \cup NodesOf(AllRules[j], d)
    <2> SUFFICES ASSUME AllRules[j].ren # "!", NEW x
                 PROVE  x \in Upto(d, major, j + 1)
                          <=> x \in Upto(d, major, k) \/ x \in NodesOf(AllRules[j], d)
      OBVIOUS
    <2>1. \A i \in Applied(d, major) : i < j + 1 <=> i < k \/ i = j
      BY <1>1, <1>2, <1>5
    <2> QED  BY <1>6, <2>1, UptoIn
  <1>10. AllRules[j].ren = "!" => NodesFor(d, major) = Upto(d, major, k)
    <2> SUFFICES ASSUME AllRules[j].ren = "!", NEW x
                 PROVE  x \in NodesFor(d, major) <=> x \in Upto(d, major, k)
      OBVIOUS
    <2>1. \A i \in Applied(d, major) : i < k
      BY <1>2, <1>5, <1>7 DEF Applied
    <2> QED  BY <2>1, UptoIn, ForIn
  <1>11. ~AllRules[j].keep => NodesFor(d, major) = Upto(d, major, j + 1)
    <2> SUFFICES ASSUME ~AllRules[j].keep, NEW x
                 PROVE  x \in NodesFor(d, major) <=> x \in Upto(d, major, j + 1)
      OBVIOUS
    <2>1. \A i \in Applied(d, major) : i < j + 1
      BY <1>2, <1>5, <1>7
    <2> QED  BY <2>1, UptoIn, ForIn
  <1> QED  BY <1>1, <1>6, <1>8, <1>9, <1>10, <1>11

\* The names are names, of the device or of an alias.
LEMMA OfNames ==
  ASSUME conf \in Confs, NEW d \in Devs, NEW j \in 1..Len(AllRules)
  PROVE  NodesOf(AllRules[j], d) \subseteq Names /\ NodeName(AllRules[j], d) \in NodesOf(AllRules[j], d)
  <1>1. CASE j = Len(AllRules)
    <2>1. AllRules[j] = Default /\ Default.ren = ""
      BY <1>1, RulesType DEF Default
    <2> QED  BY <2>1 DEF NodesOf, NodeName, Names
  <1>2. CASE j # Len(AllRules)
    <2>1. j \in 1..Len(conf) /\ AllRules[j] = conf[j]
      BY <1>2, RulesType DEF AllRules
    <2>2. conf[j].ren \in {"=", ">"} => conf[j].to \in Aliases
      BY <2>1, MdevAssumption
    <2> QED  BY <2>1, <2>2 DEF NodesOf, NodeName, Names
  <1> QED  BY <1>1, <1>2

\* What make_device() makes of /dev with one rule: the rule's nodes are there.
LEMMA MakesNodes ==
  ASSUME conf \in Confs, nodes \in [Names -> {Link, None} \cup Nums], NEW d \in Devs,
         NEW num \in Nums, NEW j \in 1..Len(AllRules), NEW r, r = AllRules[j],
         NEW made, made = MakeNode(r, d, num)
  PROVE  /\ \A x \in Names : nodes[x] # None \/ x \notin NodesOf(r, d) => made[x] = nodes[x]
         /\ \A x \in NodesOf(r, d) : made[x] # None
         /\ \A x \in NodesOf(r, d) : nodes[x] = None => made[x] \in {num, Link}
         /\ nodes[NodeName(r, d)] = None => made[NodeName(r, d)] = num
  <1>1. NodesOf(r, d) \subseteq Names /\ NodeName(r, d) \in Names
    BY OfNames
  <1>2. num # None /\ Link # None /\ d \in Names
    BY MdevAssumption DEF None, Link, Names
  <1> DEFINE m == IF nodes[NodeName(r, d)] # None THEN nodes ELSE [nodes EXCEPT ![NodeName(r, d)] = num]
  <1>3. made = IF r.ren = ">" /\ m[d] = None THEN [m EXCEPT ![d] = Link] ELSE m
    BY DEF MakeNode
  <1>4. /\ \A x \in Names : x # NodeName(r, d) => m[x] = nodes[x]
        /\ m[NodeName(r, d)] = IF nodes[NodeName(r, d)] # None THEN nodes[NodeName(r, d)] ELSE num
        /\ m[NodeName(r, d)] # None /\ DOMAIN m = Names
    BY <1>1, <1>2
  <1> HIDE DEF m
  <1>5. CASE r.ren = ">" /\ m[d] = None
    <2>1. NodesOf(r, d) = {NodeName(r, d), d} /\ d # NodeName(r, d)
      BY <1>4, <1>5 DEF NodesOf
    <2>2. /\ made[d] = Link /\ \A x \in Names : x # d => made[x] = m[x]
      BY <1>2, <1>3, <1>4, <1>5
    <2> QED  BY <1>1, <1>2, <1>4, <1>5, <2>1, <2>2
  <1>6. CASE ~(r.ren = ">" /\ m[d] = None)
    <2>1. made = m
      BY <1>3, <1>6
    <2>2. \A x \in NodesOf(r, d) : x = NodeName(r, d) \/ (x = d /\ r.ren = ">")
      BY DEF NodesOf
    <2> QED  BY <1>1, <1>2, <1>4, <1>6, <2>1, <2>2 DEF NodesOf
  <1> QED  BY <1>5, <1>6

\* And what it removes.
LEMMA RemovesNodes ==
  ASSUME conf \in Confs, NEW d \in Devs, NEW j \in 1..Len(AllRules), NEW r, r = AllRules[j]
  PROVE  \A x \in Names : RemoveNode(r, d)[x] = IF x \in NodesOf(r, d) THEN None ELSE nodes[x]
  BY DEF RemoveNode, NodesOf

-----------------------------------------------------------------------------
(* A device, its nodes and its mdevs.                                      *)
Early == {"read", "seed", "wait", "open"}

\* Where a process is in the rules: at the end if "!" suppresses the rest.
Pos(r) == IF r.major = -2 THEN End ELSE r.rule

\* The mdevs of d, and those that have yet to make or remove its nodes.
Mine(d) == {n \in Alive : mdev[n].dev = d}
Todo(d) == {n \in Mine(d) : mdev[n].op # "change" /\ mdev[n].pc \in Early \cup {"rules"}}
First(d, n) == \A m \in Todo(d) : n <= m
Last(d, n) == \A m \in Todo(d) : m <= n

\* The nodes of d are some of those its rules name for this number, with the
\* number, and those of the rules before k are among them.
Partly(d, num, k) ==
  /\ Upto(d, num, k) \subseteq Nodes(d) /\ Nodes(d) \subseteq NodesFor(d, num)
  /\ \A x \in Nodes(d) : nodes[x] \in {num, Link}
  /\ Nodes(d) # {} => \E x \in Nodes(d) : nodes[x] = num

\* If there is nothing to do for d, its nodes are right.
Settled(d) ==
  IF sys[d] = None THEN Nodes(d) = {}
  ELSE Partly(d, sys[d], IF trust[d] = "sure" THEN End ELSE 1)

\* How far the first one is with them: an "add" comes after a "remove", and if
\* a "remove" is still to come, it does not matter which nodes it makes.
Stage(d, n) ==
  LET p == mdev[n]
  IN IF p.op = "add"
     THEN IF p.pc = "rules" THEN Last(d, n) => p.major \in {sys[d], -2} /\ Partly(d, sys[d], Pos(p))
          ELSE Nodes(d) = {}
     ELSE p.pc = "rules" => Nodes(d) \cap Upto(d, -1, Pos(p)) = {}

\* mdev -s works on a device that is there, and no mdev does.
Scanned(d) ==
  scan.dev = d => /\ Mine(d) = {} /\ sys[d] # None /\ scan.major \in {sys[d], -2}
                  /\ Upto(d, sys[d], Pos(scan)) \subseteq Nodes(d)

InTurn(d) == ~ordered => \A m, n \in Mine(d) : m = n

\* The "add"s and "remove"s come in turns, and the last one leaves the device
\* as it is in /sys.
Alternate(d) == \A m, n \in Todo(d) : m < n /\ mdev[m].op = mdev[n].op =>
                  \E l \in Todo(d) : m < l /\ l < n /\ mdev[l].op # mdev[m].op
Agrees(d) == \A n \in Todo(d) : Last(d, n) => (mdev[n].op = "add" <=> sys[d] # None)

\* What holds of a device whose nodes can be relied on.
Match(d) == trust[d] # "unsure" =>
  /\ Scanned(d) /\ InTurn(d) /\ Alternate(d) /\ Agrees(d)
  /\ Todo(d) = {} => Settled(d)
  /\ \A n \in Todo(d) : First(d, n) => Stage(d, n)

\* The number and the place in the rules that a process has, are those of
\* its device, and rules before that let it go on.
Placed(p) ==
  /\ p.pc \in Early => p.major = -1 /\ p.rule = 1
  /\ p.pc = "rules" /\ p.major # -2 => Clear(p.dev, p.major, p.rule)
  /\ p.pc = "rules" => p.major \in (IF p.op = "add" THEN Nums ELSE {-1}) \cup {-2}
Within ==
  /\ \A n \in Alive : Placed(mdev[n])
  /\ scan.dev # NoDev => /\ scan.major \in Nums \cup {-2}
                         /\ scan.major # -2 => Clear(scan.dev, scan.major, scan.rule)

LEMMA RulesSame ==
  ASSUME conf' = conf
  PROVE  /\ AllRules' = AllRules /\ End' = End /\ (Tidy' <=> Tidy)
         /\ \A d, major : NodesFor(d, major)' = NodesFor(d, major)
         /\ \A d, major, k : /\ Upto(d, major, k)' = Upto(d, major, k)
                             /\ Clear(d, major, k)' <=> Clear(d, major, k)
  <1>1. AllRules' = AllRules
    BY DEF AllRules
  <1>2. \A d, major : Applied(d, major)' = Applied(d, major)
    BY <1>1 DEF Applied
  <1>3. \A d, major : NodesFor(d, major)' = NodesFor(d, major)
    BY <1>1, <1>2 DEF NodesFor
  <1>4. \A d, major, k : Upto(d, major, k)' = Upto(d, major, k)
    BY <1>1, <1>2 DEF Upto
  <1>5. \A d, major, k : Clear(d, major, k)' <=> Clear(d, major, k)
    BY <1>1 DEF Clear
  <1>6. Tidy' <=> Tidy
    BY <1>3 DEF Tidy
  <1> QED  BY <1>1, <1>3, <1>4, <1>5, <1>6 DEF End

\* What is known of a device's nodes does not change with those of others.
LEMMA ViewSame ==
  ASSUME conf' = conf, NEW d, \A x \in NodesFor(d, -1) : nodes'[x] = nodes[x]
  PROVE  /\ Nodes(d)' = Nodes(d)
         /\ \A num, k : Partly(d, num, k)' <=> Partly(d, num, k)
  <1>1. /\ \A x : NodesFor(d, x)' = NodesFor(d, x)
        /\ \A num, k : Upto(d, num, k)' = Upto(d, num, k)
    BY RulesSame
  <1>2. Nodes(d)' = Nodes(d)
    BY <1>1 DEF Nodes
  <1>3. \A x \in Nodes(d) : nodes'[x] = nodes[x]
    BY DEF Nodes
  <1> QED  BY <1>1, <1>2, <1>3 DEF Partly

\* The step of one mdev, seen by a device.
LEMMA SetsStep ==
  ASSUME mdev \in [Seqs -> Process], NEW n \in Seqs, NEW u \in Process, Step(n, u), NEW d
  PROVE  /\ Todo(d) \subseteq Mine(d) /\ Mine(d) \subseteq Seqs
         /\ Todo(d)' \subseteq Mine(d)' /\ Mine(d)' \subseteq Seqs
         /\ \A m \in Seqs \ {n} : /\ m \in Mine(d)' <=> m \in Mine(d)
                                  /\ m \in Todo(d)' <=> m \in Todo(d)
                                  /\ mdev'[m] = mdev[m]
         /\ mdev'[n] = u
         /\ n \in Mine(d)' <=> u.pc \notin {"none", "done"} /\ u.dev = d
         /\ n \in Todo(d)' <=> u.dev = d /\ u.op # "change" /\ u.pc \in Early \cup {"rules"}
  <1>1. mdev'[n] = u /\ \A m \in Seqs \ {n} : mdev'[m] = mdev[m]
    BY Stepped
  <1> QED  BY <1>1 DEF Mine, Todo, Alive, Early

\* A step of an mdev of another device, or one that has made or removed the
\* nodes or has yet to begin with it.
LEMMA QuietStep ==
  ASSUME mdev \in [Seqs -> Process], NEW n \in Seqs, NEW u \in Process, Step(n, u), scan' = scan,
         NEW d \in Devs, Match(d), sys'[d] = sys[d],
         \A x \in NodesFor(d, -1) : nodes'[x] = nodes[x],
         trust'[d] \in {trust[d], "unsure"},
         trust'[d] # "unsure" => InTurn(d)' /\ (scan.dev = d /\ n \in Mine(d)' => n \in Mine(d)),
         n \in Todo(d)' <=> n \in Todo(d),
         n \in Todo(d) => mdev[n].pc \in Early /\ u.pc \in Early /\ u.op = mdev[n].op
  PROVE  Match(d)'
  <1>1. /\ Nodes(d)' = Nodes(d) /\ End' = End
        /\ \A num, k : Partly(d, num, k)' <=> Partly(d, num, k)
        /\ \A num, k : Upto(d, num, k)' = Upto(d, num, k)
    BY ViewSame, RulesSame DEF Step
  <1>2. /\ Todo(d) \subseteq Mine(d) /\ Mine(d) \subseteq Seqs /\ Mine(d)' \subseteq Seqs
        /\ \A m \in Seqs \ {n} : m \in Mine(d)' <=> m \in Mine(d)
        /\ \A m \in Seqs \ {n} : mdev'[m] = mdev[m]
        /\ mdev'[n] = u /\ Todo(d)' = Todo(d)
    <2>1. /\ Todo(d) \subseteq Mine(d) /\ Mine(d) \subseteq Seqs
          /\ Todo(d)' \subseteq Mine(d)' /\ Mine(d)' \subseteq Seqs
          /\ \A m \in Seqs \ {n} : /\ m \in Mine(d)' <=> m \in Mine(d)
                                   /\ m \in Todo(d)' <=> m \in Todo(d)
                                   /\ mdev'[m] = mdev[m]
          /\ mdev'[n] = u
      BY SetsStep
    <2>2. Todo(d)' = Todo(d)
      BY <2>1
    <2> QED  BY <2>1, <2>2
  <1>3. \A m \in Todo(d) : /\ mdev'[m].op = mdev[m].op
                           /\ mdev'[m].pc = "rules" <=> mdev[m].pc = "rules"
                           /\ mdev[m].pc = "rules" => mdev'[m] = mdev[m]
    BY <1>2 DEF Early
  <1>4. \A m : (Last(d, m)' <=> Last(d, m)) /\ (First(d, m)' <=> First(d, m))
    BY <1>2 DEF Last, First
  <1> SUFFICES ASSUME trust'[d] # "unsure"
               PROVE  /\ Scanned(d)' /\ Alternate(d)' /\ Agrees(d)'
                      /\ Todo(d) = {} => Settled(d)'
                      /\ \A m \in Todo(d) : First(d, m) => Stage(d, m)'
    BY <1>2, <1>4 DEF Match
  <1>5. /\ Scanned(d) /\ Alternate(d) /\ Agrees(d) /\ trust'[d] = trust[d]
        /\ Todo(d) = {} => Settled(d)
        /\ \A m \in Todo(d) : First(d, m) => Stage(d, m)
    BY DEF Match
  <1>9. \A m \in Todo(d) : mdev'[m].op = mdev[m].op
    BY <1>3
  <1>10. Alternate(d)'
    BY <1>2, <1>5, <1>9 DEF Alternate
  <1>11. Agrees(d)'
    BY <1>2, <1>4, <1>5, <1>9 DEF Agrees
  <1>6. Scanned(d)'
    BY <1>1, <1>2, <1>5 DEF Scanned, Pos
  <1>7. Todo(d) = {} => Settled(d)'
    BY <1>1, <1>5 DEF Settled
  <1>8. ASSUME NEW m \in Todo(d), First(d, m)  PROVE  Stage(d, m)'
    BY <1>1, <1>3, <1>4, <1>5, <1>8 DEF Stage, Pos
  <1> QED  BY <1>6, <1>7, <1>8, <1>10, <1>11

\* Whoever works on a device whose nodes can be relied on is the first to do
\* so; the others have not begun.
LEMMA OthersWait ==
  ASSUME Serialized, NEW d \in Devs, InTurn(d), NEW n \in Todo(d), mdev[n].pc \in {"open", "rules"}
  PROVE  \A m \in Todo(d) : m # n => n < m /\ mdev[m].pc # "rules"
  <1> SUFFICES ASSUME NEW m \in Todo(d), m # n  PROVE  n < m /\ mdev[m].pc # "rules"
    OBVIOUS
  <1>1. m \in Mine(d) /\ n \in Mine(d) /\ m \in Alive /\ n \in Alive /\ m \in Nat /\ n \in Nat
    BY SeqsNumbers DEF Todo, Mine, Alive
  <1>2. ordered
    BY <1>1 DEF InTurn
  <1>3. mdev[m].pc # "signal" /\ mdev[n].pc # "signal" /\ Working(n)
    BY DEF Todo, Early, Working
  <1>4. ~(m < n)
    BY <1>1, <1>2, <1>3 DEF Serialized
  <1>5. ~Working(m)
    BY <1>1, <1>2, <1>3, <1>4 DEF Serialized
  <1> QED  BY <1>1, <1>4, <1>5 DEF Working

\* Nor does mdev -s work on it.
LEMMA NoScan ==
  ASSUME NEW d \in Devs, Scanned(d), NEW n \in Mine(d)
  PROVE  scan.dev # d
  BY DEF Scanned

\* A step of an mdev that works on the nodes of d.
WorkStep(d, n, u) ==
  /\ Step(n, u) /\ u.dev = d /\ u.op = mdev[n].op
  /\ scan' = scan /\ ordered' = ordered /\ sys'[d] = sys[d] /\ trust'[d] = trust[d]

\* What goes on being true with such a step.
LEMMA WorkSame ==
  ASSUME mdev \in [Seqs -> Process], Serialized, NEW d \in Devs, Match(d), trust[d] # "unsure",
         NEW n \in Todo(d), mdev[n].pc \in {"open", "rules"},
         NEW u \in Process, WorkStep(d, n, u), u.pc \in {"rules", "exit"}
  PROVE  /\ Mine(d)' = Mine(d) /\ Scanned(d)' /\ InTurn(d)'
         /\ Todo(d)' = IF u.pc = "rules" THEN Todo(d) ELSE Todo(d) \ {n}
         /\ \A m \in Todo(d) : m # n => n < m /\ mdev[m].pc # "rules" /\ mdev'[m] = mdev[m]
         /\ mdev'[n] = u /\ u.op = mdev[n].op
         /\ Todo(d) \subseteq Nat
  <1>1. n \in Seqs /\ n \in Mine(d) /\ n \in Alive /\ mdev[n].dev = d /\ mdev[n].op # "change"
    BY DEF Todo, Mine, Alive
  <1>2. /\ Todo(d) \subseteq Mine(d) /\ Mine(d) \subseteq Seqs
        /\ Todo(d)' \subseteq Mine(d)' /\ Mine(d)' \subseteq Seqs
        /\ \A m \in Seqs \ {n} : /\ m \in Mine(d)' <=> m \in Mine(d)
                                 /\ m \in Todo(d)' <=> m \in Todo(d)
                                 /\ mdev'[m] = mdev[m]
        /\ mdev'[n] = u
        /\ n \in Mine(d)' <=> u.pc \notin {"none", "done"} /\ u.dev = d
        /\ n \in Todo(d)' <=> u.dev = d /\ u.op # "change" /\ u.pc \in Early \cup {"rules"}
    BY <1>1, SetsStep DEF WorkStep
  <1>3. Scanned(d) /\ InTurn(d)
    BY DEF Match
  <1>4. u.dev = d /\ u.op = mdev[n].op /\ scan' = scan /\ ordered' = ordered
    BY DEF WorkStep
  <1>5. n \in Mine(d)' /\ (n \in Todo(d)' <=> u.pc = "rules")
    BY <1>1, <1>2, <1>4 DEF Early
  <1>6. Mine(d)' = Mine(d)
    BY <1>1, <1>2, <1>5
  <1>7. Todo(d)' = IF u.pc = "rules" THEN Todo(d) ELSE Todo(d) \ {n}
    BY <1>1, <1>2, <1>5
  <1>8. Scanned(d)'
    BY <1>1, <1>3, <1>4, NoScan DEF Scanned
  <1>9. InTurn(d)'
    BY <1>3, <1>4, <1>6 DEF InTurn
  <1>10. \A m \in Todo(d) : m # n => n < m /\ mdev[m].pc # "rules"
    BY <1>3, OthersWait
  <1>11. Todo(d) \subseteq Nat
    BY <1>2, SeqsNumbers
  <1> QED  BY <1>2, <1>4, <1>6, <1>7, <1>8, <1>9, <1>10, <1>11

\* It goes on to the next rule.
LEMMA Advances ==
  ASSUME mdev \in [Seqs -> Process], Serialized, NEW d \in Devs, Match(d), trust[d] # "unsure",
         NEW n \in Todo(d), mdev[n].pc \in {"open", "rules"},
         NEW u \in Process, WorkStep(d, n, u), u.pc = "rules", Stage(d, n)'
  PROVE  Match(d)'
  <1>1. /\ Mine(d)' = Mine(d) /\ Scanned(d)' /\ InTurn(d)'
        /\ Todo(d)' = Todo(d)
        /\ \A m \in Todo(d) : m # n => n < m /\ mdev[m].pc # "rules" /\ mdev'[m] = mdev[m]
        /\ mdev'[n] = u /\ u.op = mdev[n].op
        /\ Todo(d) \subseteq Nat
    BY WorkSame
  <1>2. \A m \in Todo(d) : mdev'[m].op = mdev[m].op
    BY <1>1
  <1>3. Alternate(d) /\ Agrees(d) /\ sys'[d] = sys[d]
    BY DEF Match, WorkStep
  <1>4. \A m : (Last(d, m)' <=> Last(d, m)) /\ (First(d, m)' <=> First(d, m))
    BY <1>1 DEF Last, First
  <1>5. Alternate(d)'
    BY <1>1, <1>2, <1>3 DEF Alternate
  <1>6. Agrees(d)'
    BY <1>1, <1>2, <1>3, <1>4 DEF Agrees
  <1>7. \A m \in Todo(d) : First(d, m) => m = n
    <2> SUFFICES ASSUME NEW m \in Todo(d), First(d, m), m # n  PROVE  FALSE
      OBVIOUS
    <2>1. m <= n /\ n < m /\ m \in Nat /\ n \in Nat
      BY <1>1 DEF First
    <2> QED  BY <2>1
  <1> QED  BY <1>1, <1>4, <1>5, <1>6, <1>7 DEF Match

\* It has applied the last rule.
LEMMA Finishes ==
  ASSUME mdev \in [Seqs -> Process], Serialized, NEW d \in Devs, Match(d), trust[d] # "unsure",
         NEW n \in Todo(d), mdev[n].pc \in {"open", "rules"},
         NEW u \in Process, WorkStep(d, n, u), u.pc = "exit",
         Last(d, n) => Settled(d)',
         mdev[n].op = "remove" => Nodes(d)' = {}
  PROVE  Match(d)'
  <1>1. /\ Mine(d)' = Mine(d) /\ Scanned(d)' /\ InTurn(d)'
        /\ Todo(d)' = Todo(d) \ {n}
        /\ \A m \in Todo(d) : m # n => n < m /\ mdev[m].pc # "rules" /\ mdev'[m] = mdev[m]
        /\ Todo(d) \subseteq Nat
    BY WorkSame
  <1>2. Alternate(d) /\ Agrees(d) /\ sys'[d] = sys[d]
    BY DEF Match, WorkStep
  <1>3. Todo(d)' = {} => Settled(d)'
    BY <1>1 DEF Last
  <1>4. Alternate(d)'
    <2> SUFFICES ASSUME NEW m \in Todo(d)', NEW k \in Todo(d)', m < k, mdev'[m].op = mdev'[k].op
                 PROVE  \E l \in Todo(d)' : m < l /\ l < k /\ mdev'[l].op # mdev'[m].op
      BY DEF Alternate
    <2>1. m \in Todo(d) /\ k \in Todo(d) /\ mdev[m].op = mdev[k].op /\ n < m
      BY <1>1
    <2>2. PICK l \in Todo(d) : m < l /\ l < k /\ mdev[l].op # mdev[m].op
      BY <1>2, <2>1 DEF Alternate
    <2>3. l # n
      BY <1>1, <2>1, <2>2
    <2> QED  BY <1>1, <2>1, <2>2, <2>3
  <1>5. Agrees(d)'
    <2> SUFFICES ASSUME NEW m \in Todo(d)', Last(d, m)'
                 PROVE  mdev'[m].op = "add" <=> sys'[d] # None
      BY DEF Agrees
    <2>1. m \in Todo(d) /\ mdev'[m] = mdev[m] /\ n < m
      BY <1>1
    <2>2. Last(d, m)
      BY <1>1, <2>1 DEF Last
    <2> QED  BY <1>2, <2>1, <2>2 DEF Agrees
  <1>6. ASSUME NEW m \in Todo(d)', First(d, m)'  PROVE  Stage(d, m)'
    <2>1. m \in Todo(d) /\ mdev'[m] = mdev[m] /\ n < m /\ mdev[m].pc # "rules"
      BY <1>1
    <2>2. mdev[n].op # mdev[m].op
      <3> SUFFICES ASSUME mdev[n].op = mdev[m].op  PROVE  FALSE
        OBVIOUS
      <3>1. PICK l \in Todo(d) : n < l /\ l < m
        BY <1>2, <2>1 DEF Alternate
      <3>2. l \in Todo(d)' /\ l \in Nat /\ m \in Nat
        BY <1>1, <2>1, <3>1
      <3>3. m <= l
        BY <1>6, <3>2 DEF First
      <3> QED  BY <3>1, <3>2, <3>3
    <2>3. mdev[n].op \in {"add", "remove"} /\ mdev[m].op \in {"add", "remove"}
      BY <2>1 DEF Todo, Mine, Alive, Process
    <2> QED  BY <2>1, <2>2, <2>3 DEF Stage
  <1> QED  BY <1>1, <1>3, <1>4, <1>5, <1>6 DEF Match

-----------------------------------------------------------------------------
(* make_device() goes through the rules.                                   *)
\* mdev n applies rule j, the next one from its rule k on.
Applies(n, d, k, j, u) ==
  /\ mdev[n].pc = "rules" /\ mdev[n].dev = d /\ mdev[n].rule = k
  /\ j = NextMatch(k, d, mdev[n].major)
  /\ Step(n, u) /\ u.dev = d /\ u.op = mdev[n].op
  /\ IF AllRules[j].keep
     THEN u.pc = "rules" /\ u.rule = j + 1 /\ u.major = Major(AllRules[j], mdev[n].major)
     ELSE u.pc = "exit"
  /\ nodes' = IF AllRules[j].ren = "!" \/ mdev[n].major = -2 \/ mdev[n].op = "change" THEN nodes
              ELSE IF mdev[n].op = "add" THEN MakeNode(AllRules[j], d, mdev[n].major)
              ELSE RemoveNode(AllRules[j], d)
  /\ IF mdev[n].op = "add" THEN mdev[n].major \in Nums \cup {-2} ELSE mdev[n].major \in {-1, -2}
  /\ mdev[n].major # -2 => Clear(d, mdev[n].major, k)

LEMMA RuleFacts ==
  ASSUME TypeOK, Known, Within, NEW n \in Seqs, AppliesRule(n)
  PROVE  \E d \in Devs : \E k \in 1..Len(AllRules) : \E j \in 1..Len(AllRules) : \E u \in Process :
           Applies(n, d, k, j, u)
  <1>1. mdev[n] \in Process /\ n \in Alive /\ mdev[n].pc = "rules" /\ conf \in Confs
    BY TypeParts DEF AppliesRule, Alive, Known
  <1>2. PICK d \in Devs : d = mdev[n].dev
    BY <1>1 DEF Known
  <1>3. PICK k \in 1..Len(AllRules) : k = mdev[n].rule
    BY <1>1 DEF Process
  <1>4. PICK major \in {-2, -1} \cup Nums : major = mdev[n].major
    BY <1>1 DEF Process
  <1>5. PICK j : j = NextMatch(k, d, major)
    OBVIOUS
  <1>6. j \in 1..Len(AllRules) /\ AllRules[j] \in Rule /\ (AllRules[j].keep => j + 1 \in 1..Len(AllRules))
    BY <1>1, <1>5, NextMatchFound
  <1>7. PICK r \in Rule : r = AllRules[j]
    BY <1>6
  <1>8. PICK m : m = Major(r, major)
    OBVIOUS
  <1>9. m = IF r.ren = "!" THEN -2 ELSE major
    BY <1>8 DEF Major
  <1>10. PICK u : u = IF r.keep THEN [mdev[n] EXCEPT !.rule = j + 1, !.major = m]
                                ELSE [mdev[n] EXCEPT !.pc = "exit"]
    OBVIOUS
  <1>11. u \in Process /\ u.dev = d /\ u.op = mdev[n].op
    BY <1>1, <1>2, <1>4, <1>6, <1>7, <1>9, <1>10 DEF Process, Locs
  <1>12. IF r.keep THEN u.pc = "rules" /\ u.rule = j + 1 /\ u.major = m ELSE u.pc = "exit"
    BY <1>1, <1>10 DEF Process
  <1>13. Step(n, u)
    BY <1>2, <1>3, <1>4, <1>5, <1>7, <1>8, <1>10 DEF AppliesRule
  <1>14. nodes' = CASE mdev[n].op = "add" /\ m >= 0 -> MakeNode(r, d, m)
                    [] mdev[n].op = "remove" /\ m >= -1 -> RemoveNode(r, d)
                    [] OTHER -> nodes
    BY <1>2, <1>3, <1>4, <1>5, <1>7, <1>8 DEF AppliesRule
  <1>15. Placed(mdev[n])
    BY <1>1 DEF Within
  <1>16. /\ IF mdev[n].op = "add" THEN major \in Nums \cup {-2} ELSE major \in {-1, -2}
         /\ major # -2 => Clear(d, major, k)
    BY <1>1, <1>2, <1>3, <1>4, <1>15 DEF Placed
  <1>17. nodes' = IF r.ren = "!" \/ major = -2 \/ mdev[n].op = "change" THEN nodes
                  ELSE IF mdev[n].op = "add" THEN MakeNode(r, d, major) ELSE RemoveNode(r, d)
    <2>5. Nums \subseteq Nat \ {0}
      BY MdevAssumption
    <2>1. \A x \in Nums : x >= 0 /\ x # -2
      BY <2>5
    <2>2. mdev[n].op \in {"add", "remove", "change"}
      BY <1>1 DEF Process
    <2>3. CASE r.ren = "!" \/ major = -2
      <3>1. m = -2
        BY <1>9, <2>3
      <3>2. ~(m >= 0) /\ ~(m >= -1)
        BY <3>1
      <3> QED  BY <1>14, <2>3, <3>2
    <2>4. CASE r.ren # "!" /\ major # -2
      <3>1. m = major
        BY <1>9, <2>4
      <3>2. CASE mdev[n].op = "add"
        BY <1>14, <1>16, <2>1, <2>4, <3>1, <3>2
      <3>3. CASE mdev[n].op = "remove"
        <4>1. m >= -1
          BY <1>16, <2>4, <3>1, <3>3
        <4> QED  BY <1>14, <2>4, <3>1, <3>3, <4>1
      <3>4. CASE mdev[n].op = "change"
        BY <1>14, <2>4, <3>4
      <3> QED  BY <2>2, <3>2, <3>3, <3>4
    <2> QED  BY <2>3, <2>4
  <1>18. Applies(n, d, k, j, u)
    BY <1>1, <1>2, <1>3, <1>4, <1>5, <1>7, <1>8, <1>11, <1>12, <1>13, <1>16, <1>17 DEF Applies
  <1> QED  BY <1>6, <1>11, <1>18

\* Where the nodes are.
LEMMA NamesFor ==
  ASSUME conf \in Confs, NEW d \in Devs, NEW major
  PROVE  NodesFor(d, major) \subseteq Names
  <1>1. \A i \in Applied(d, major) : i \in 1..Len(AllRules)
    BY DEF Applied
  <1>2. \A i \in Applied(d, major) : NodesOf(AllRules[i], d) \subseteq Names
    BY <1>1, OfNames
  <1> QED  BY <1>2, ForIn

\* A rule that counts for d leaves the nodes of others alone.
LEMMA OthersKept ==
  ASSUME conf \in Confs, Tidy, NEW d \in Devs, NEW e \in Devs, e # d,
         NEW major \in Nums \cup {-1}, NEW j \in Applied(d, major),
         \A x \in Names : x \notin NodesOf(AllRules[j], d) => nodes'[x] = nodes[x]
  PROVE  \A x \in NodesFor(e, -1) : nodes'[x] = nodes[x]
  <1>1. NodesOf(AllRules[j], d) \subseteq NodesFor(d, -1)
    <2>1. NodesOf(AllRules[j], d) \subseteq NodesFor(d, major)
      BY DEF NodesFor
    <2> QED  BY <2>1 DEF Tidy
  <1>2. NodesFor(d, -1) \cap NodesFor(e, -1) = {}
    BY DEF Tidy
  <1>3. NodesFor(e, -1) \subseteq Names
    BY NamesFor
  <1> QED  BY <1>1, <1>2, <1>3

\* What an "add" has made of the nodes of d, when it has applied rule j.
LEMMA PartlyGrows ==
  ASSUME conf \in Confs, nodes \in [Names -> {Link, None} \cup Nums], Tidy, conf' = conf,
         NEW d \in Devs, NEW num \in Nums, NEW k \in 1..Len(AllRules), Clear(d, num, k),
         NEW j, j = NextMatch(k, d, num), AllRules[j].ren # "!",
         nodes' = MakeNode(AllRules[j], d, num), Partly(d, num, k)
  PROVE  Partly(d, num, j + 1)'
  <1>1. /\ j \in 1..Len(AllRules) /\ j \in Applied(d, num)
        /\ Upto(d, num, j + 1) = Upto(d, num, k) \cup NodesOf(AllRules[j], d)
    BY NextApplied
  <1>2. PICK r : r = AllRules[j]
    OBVIOUS
  <1>3. /\ \A x \in Names : nodes[x] # None \/ x \notin NodesOf(r, d) => nodes'[x] = nodes[x]
        /\ \A x \in NodesOf(r, d) : nodes'[x] # None
        /\ \A x \in NodesOf(r, d) : nodes[x] = None => nodes'[x] \in {num, Link}
        /\ nodes[NodeName(r, d)] = None => nodes'[NodeName(r, d)] = num
    <2>1. j \in 1..Len(AllRules) /\ r = AllRules[j]
      BY <1>1, <1>2
    <2>2. nodes' = MakeNode(r, d, num)
      BY <1>2
    <2> QED  BY ONLY conf \in Confs, nodes \in [Names -> {Link, None} \cup Nums], d \in Devs,
                  num \in Nums, <2>1, <2>2, MakesNodes
  <1>4. /\ NodesOf(r, d) \subseteq Names /\ NodeName(r, d) \in NodesOf(r, d)
    BY <1>1, <1>2, OfNames
  <1>5. NodesOf(r, d) \subseteq NodesFor(d, num) /\ NodesFor(d, num) \subseteq NodesFor(d, -1)
    <2>1. NodesOf(r, d) \subseteq NodesFor(d, num)
      BY <1>1, <1>2 DEF NodesFor
    <2>2. NodesFor(d, num) \subseteq NodesFor(d, -1)
      BY DEF Tidy
    <2> QED  BY <2>1, <2>2
  <1>6. \A x \in NodesFor(d, -1) : x \in Names
    BY NamesFor
  <1>7. Nodes(d)' = Nodes(d) \cup NodesOf(r, d)
    <2>1. \A x \in NodesFor(d, -1) : nodes'[x] # None <=> nodes[x] # None \/ x \in NodesOf(r, d)
      BY <1>3, <1>6
    <2>2. NodesFor(d, -1)' = NodesFor(d, -1)
      BY RulesSame
    <2> QED  BY <1>5, <2>1, <2>2 DEF Nodes
  <1>8. /\ Upto(d, num, k) \subseteq Nodes(d) /\ Nodes(d) \subseteq NodesFor(d, num)
        /\ \A x \in Nodes(d) : nodes[x] \in {num, Link}
        /\ Nodes(d) # {} => \E x \in Nodes(d) : nodes[x] = num
    BY DEF Partly
  <1>9. /\ Upto(d, num, j + 1)' = Upto(d, num, k) \cup NodesOf(r, d)
        /\ NodesFor(d, num)' = NodesFor(d, num)
    BY <1>1, <1>2, RulesSame
  <1>10. \A x \in Nodes(d) : nodes'[x] = nodes[x]
    BY <1>3, <1>6 DEF Nodes
  <1>11. \A x \in Nodes(d)' : nodes'[x] \in {num, Link}
    <2>1. \A x \in NodesOf(r, d) : x \notin Nodes(d) => nodes[x] = None
      BY <1>5 DEF Nodes
    <2> QED  BY <1>3, <1>7, <1>8, <1>10, <2>1
  <1>12. \E x \in Nodes(d)' : nodes'[x] = num
    <2>1. CASE nodes[NodeName(r, d)] = None
      BY <1>3, <1>4, <1>7, <2>1
    <2>2. CASE nodes[NodeName(r, d)] # None
      <3>1. NodeName(r, d) \in Nodes(d)
        BY <1>4, <1>5, <2>2 DEF Nodes
      <3> QED  BY <1>7, <1>8, <1>10, <3>1
    <2> QED  BY <2>1, <2>2
  <1> QED  BY <1>5, <1>7, <1>8, <1>9, <1>11, <1>12 DEF Partly

\* And what a "remove" has left of them.
LEMMA RemovalGrows ==
  ASSUME conf \in Confs, conf' = conf, NEW d \in Devs, NEW k \in 1..Len(AllRules), Clear(d, -1, k),
         NEW j, j = NextMatch(k, d, -1), AllRules[j].ren # "!",
         nodes' = RemoveNode(AllRules[j], d), Nodes(d) \cap Upto(d, -1, k) = {}
  PROVE  (Nodes(d) \cap Upto(d, -1, j + 1))' = {}
  <1>1. /\ j \in 1..Len(AllRules)
        /\ Upto(d, -1, j + 1) = Upto(d, -1, k) \cup NodesOf(AllRules[j], d)
    BY NextApplied
  <1>2. \A x \in Names : nodes'[x] = IF x \in NodesOf(AllRules[j], d) THEN None ELSE nodes[x]
    BY <1>1, RemovesNodes
  <1>3. NodesFor(d, -1) \subseteq Names
    BY NamesFor
  <1>4. Nodes(d)' = Nodes(d) \ NodesOf(AllRules[j], d)
    <2>1. NodesFor(d, -1)' = NodesFor(d, -1)
      BY RulesSame
    <2> QED  BY <1>2, <1>3, <2>1 DEF Nodes
  <1>5. Upto(d, -1, j + 1)' = Upto(d, -1, j + 1)
    BY RulesSame
  <1> QED  BY <1>1, <1>4, <1>5

\* The nodes of the other devices stay.
LEMMA AppliesOthers ==
  ASSUME TypeOK, Known, Tidy, NEW n \in Seqs, NEW d \in Devs, NEW k \in 1..Len(AllRules),
         NEW j \in 1..Len(AllRules), NEW u \in Process, Applies(n, d, k, j, u),
         NEW e \in Devs, e # d
  PROVE  \A x \in NodesFor(e, -1) : nodes'[x] = nodes[x]
  <1>1. conf \in Confs /\ nodes \in [Names -> {Link, None} \cup Nums]
    BY TypeJoined DEF Known, Rest
  <1>2. CASE nodes' = nodes
    BY <1>2
  <1>3. CASE nodes' # nodes
    <2>1. PICK major \in Nums \cup {-1, -2} : major = mdev[n].major
      BY DEF Applies
    <2>2. /\ AllRules[j].ren # "!" /\ major # -2 /\ Clear(d, major, k) /\ j = NextMatch(k, d, major)
          /\ nodes' = IF mdev[n].op = "add" THEN MakeNode(AllRules[j], d, major)
                      ELSE RemoveNode(AllRules[j], d)
          /\ mdev[n].op = "add" => major \in Nums
      BY <1>3, <2>1 DEF Applies
    <2>3. j \in Applied(d, major)
      BY <1>1, <2>2, NextApplied
    <2>4. \A x \in Names : x \notin NodesOf(AllRules[j], d) => nodes'[x] = nodes[x]
      <3>1. CASE mdev[n].op = "add"
        BY <1>1, <2>2, <3>1, MakesNodes
      <3>2. CASE mdev[n].op # "add"
        BY <1>1, <2>2, <3>2, RemovesNodes
      <3> QED  BY <3>1, <3>2
    <2> QED  BY <1>1, <2>1, <2>2, <2>3, <2>4, OthersKept
  <1> QED  BY <1>2, <1>3

\* Where the rules that were applied end, after rule j.
After(major, j) == IF AllRules[j].keep /\ AllRules[j].ren # "!" /\ major # -2 THEN j + 1 ELSE End

LEMMA AfterFor ==
  ASSUME conf \in Confs, NEW d \in Devs, NEW k \in 1..Len(AllRules), NEW major, major # -2,
         Clear(d, major, k), NEW j, j = NextMatch(k, d, major)
  PROVE  /\ AllRules[j].ren # "!" => Upto(d, major, After(major, j)) = Upto(d, major, j + 1)
         /\ AllRules[j].ren = "!" => Upto(d, major, After(major, j)) = Upto(d, major, k)
  <1>1. Upto(d, major, End) = NodesFor(d, major)
    BY UptoEnds
  <1>2. /\ AllRules[j].ren = "!" => NodesFor(d, major) = Upto(d, major, k)
        /\ ~AllRules[j].keep => NodesFor(d, major) = Upto(d, major, j + 1)
    BY NextApplied
  <1> QED  BY <1>1, <1>2 DEF After

\* When a device is added all nodes are made, up to there.
LEMMA AddsNodes ==
  ASSUME conf \in Confs, conf' = conf, nodes \in [Names -> {Link, None} \cup Nums], Tidy,
         NEW d \in Devs, NEW num \in Nums, NEW k \in 1..Len(AllRules), NEW major \in {num, -2},
         major # -2 => Clear(d, num, k), NEW j, j = NextMatch(k, d, major),
         nodes' = IF AllRules[j].ren = "!" \/ major = -2 THEN nodes
                  ELSE MakeNode(AllRules[j], d, major),
         NEW p, p = (IF major = -2 THEN End ELSE k), Partly(d, num, p), NEW a, a = After(major, j)
  PROVE  Partly(d, num, a)'
  <1>1. CASE major = -2
    <2>1. nodes' = nodes /\ a = p
      BY <1>1 DEF After
    <2> QED  BY <2>1, ViewSame
  <1>2. CASE major # -2
    <2>1. p = k /\ major = num /\ Clear(d, num, k) /\ j = NextMatch(k, d, num)
      BY <1>2
    <2>2. CASE AllRules[j].ren = "!"
      <3>1. nodes' = nodes /\ Upto(d, num, a) = Upto(d, num, k)
        BY <1>2, <2>1, <2>2, AfterFor
      <3>2. Partly(d, num, a)
        BY <2>1, <3>1 DEF Partly
      <3> QED  BY <3>1, <3>2, ViewSame
    <2>3. CASE AllRules[j].ren # "!"
      <3>1. nodes' = MakeNode(AllRules[j], d, num) /\ Upto(d, num, a) = Upto(d, num, j + 1)
        BY <1>2, <2>1, <2>3, AfterFor
      <3>2. Partly(d, num, j + 1)'
        BY <2>1, <2>3, <3>1, PartlyGrows
      <3>3. Upto(d, num, a)' = Upto(d, num, j + 1)'
        BY <3>1, RulesSame
      <3> QED  BY <3>2, <3>3 DEF Partly
    <2> QED  BY <2>2, <2>3
  <1> QED  BY <1>1, <1>2

\* A "remove" leaves none of them.
LEMMA AppliesRemove ==
  ASSUME TypeOK, Known, NEW n \in Seqs, NEW d \in Devs, NEW k \in 1..Len(AllRules),
         NEW j \in 1..Len(AllRules), NEW u \in Process, Applies(n, d, k, j, u),
         mdev[n].op = "remove",
         NEW p, p = Pos(mdev[n]), Nodes(d) \cap Upto(d, -1, p) = {}, NEW a, a = After(mdev[n].major, j)
  PROVE  (Nodes(d) \cap Upto(d, -1, a))' = {}
  <1>1. conf \in Confs /\ conf' = conf /\ mdev[n].major \in {-1, -2}
    BY DEF Known, Applies, Step
  <1>2. CASE mdev[n].major = -2
    <2>1. nodes' = nodes /\ a = p
      BY <1>2 DEF Applies, After, Pos
    <2> QED  BY <1>1, <2>1, ViewSame, RulesSame
  <1>3. CASE mdev[n].major = -1
    <2>1. p = k /\ Clear(d, -1, k) /\ j = NextMatch(k, d, -1)
      BY <1>3 DEF Pos, Applies
    <2>2. CASE AllRules[j].ren = "!"
      <3>1. nodes' = nodes /\ Upto(d, -1, a) = Upto(d, -1, k)
        BY <1>1, <1>3, <2>1, <2>2, AfterFor DEF Applies
      <3> QED  BY <1>1, <2>1, <3>1, ViewSame, RulesSame
    <2>3. CASE AllRules[j].ren # "!"
      <3>1. nodes' = RemoveNode(AllRules[j], d) /\ Upto(d, -1, a) = Upto(d, -1, j + 1)
        BY <1>1, <1>3, <2>1, <2>3, AfterFor DEF Applies
      <3>2. (Nodes(d) \cap Upto(d, -1, j + 1))' = {}
        BY <1>1, <2>1, <2>3, <3>1, RemovalGrows
      <3>3. Upto(d, -1, a)' = Upto(d, -1, j + 1)'
        BY <1>1, <3>1, RulesSame
      <3> QED  BY <3>2, <3>3
    <2> QED  BY <2>2, <2>3
  <1> QED  BY <1>1, <1>2, <1>3

\* The place it is at then.
LEMMA AfterPos ==
  ASSUME Known, NEW n \in Seqs, NEW d \in Devs, NEW k \in 1..Len(AllRules),
         NEW j \in 1..Len(AllRules), NEW u \in Process, Applies(n, d, k, j, u)
  PROVE  /\ u.pc = IF AllRules[j].keep THEN "rules" ELSE "exit"
         /\ AllRules[j].keep => Pos(u)' = After(mdev[n].major, j) /\ u.major \in {mdev[n].major, -2}
         /\ ~AllRules[j].keep => After(mdev[n].major, j) = End
  <1>1. End' = End
    BY RulesSame DEF Applies, Step
  <1>2. AllRules[j].keep =>
          u.pc = "rules" /\ u.rule = j + 1
            /\ u.major = IF AllRules[j].ren = "!" THEN -2 ELSE mdev[n].major
    BY DEF Applies, Major
  <1> QED  BY <1>1, <1>2 DEF Applies, After, Pos

\* An mdev that applies a rule, and its device.
LEMMA AppliesOwn ==
  ASSUME TypeOK, Known, Serialized, Tidy, NEW n \in Seqs, NEW d \in Devs,
         NEW k \in 1..Len(AllRules), NEW j \in 1..Len(AllRules), NEW u \in Process,
         Applies(n, d, k, j, u), scan' = scan, ordered' = ordered, sys' = sys, trust' = trust, Match(d)
  PROVE  Match(d)'
  <1>1. mdev \in [Seqs -> Process] /\ mdev[n] \in Process
    BY TypeParts
  <1>2. /\ conf \in Confs /\ n \in Mine(d) /\ mdev[n].pc = "rules" /\ Step(n, u) /\ u.dev = d
        /\ u.op = mdev[n].op /\ u.pc \in {"rules", "exit"}
    BY DEF Applies, Mine, Alive, Known
  <1>3. CASE trust[d] = "unsure"
    BY <1>3 DEF Match
  <1>4. CASE trust[d] # "unsure" /\ mdev[n].op = "change"
    <2>1. nodes' = nodes
      BY <1>4 DEF Applies
    <2>2. n \notin Todo(d) /\ n \notin Todo(d)'
      BY <1>1, <1>2, <1>4, SetsStep DEF Todo
    <2>3. InTurn(d)'
      <3>1. Mine(d)' \subseteq Mine(d)
        BY <1>1, <1>2, SetsStep
      <3> QED  BY <1>4, <3>1 DEF Match, InTurn
    <2> QED  BY <1>1, <1>2, <2>1, <2>2, <2>3, QuietStep
  <1>5. CASE trust[d] # "unsure" /\ mdev[n].op # "change"
    <2>1. n \in Todo(d) /\ WorkStep(d, n, u) /\ mdev[n].op \in {"add", "remove"}
      BY <1>1, <1>2, <1>5 DEF Todo, WorkStep, Process
    <2>2. First(d, n)
      <3>1. \A m \in Todo(d) : m # n => n < m
        BY <1>2, <1>5, <2>1, OthersWait DEF Match
      <3>2. n \in Nat /\ \A m \in Todo(d) : m \in Nat
        BY SeqsNumbers DEF Todo, Mine, Alive
      <3> QED  BY <3>1, <3>2 DEF First
    <2>3. Stage(d, n)
      BY <1>5, <2>1, <2>2 DEF Match
    <2>4. PICK num \in {None} \cup Nums : num = sys[d]
      BY DEF TypeOK
    <2>5. PICK p : p = Pos(mdev[n])
      OBVIOUS
    <2>6. PICK a : a = After(mdev[n].major, j)
      OBVIOUS
    <2>7. ASSUME mdev[n].op = "add", Last(d, n)
          PROVE  num \in Nums /\ mdev[n].major \in {num, -2} /\ Partly(d, num, a)'
      <3>1. num \in Nums
        BY <1>5, <2>1, <2>4, <2>7 DEF Match, Agrees
      <3>2. mdev[n].major \in {num, -2} /\ Partly(d, num, p)
        BY <1>2, <2>3, <2>4, <2>5, <2>7 DEF Stage
      <3>3. /\ j = NextMatch(k, d, mdev[n].major) /\ p = (IF mdev[n].major = -2 THEN End ELSE k)
            /\ nodes' = IF AllRules[j].ren = "!" \/ mdev[n].major = -2 THEN nodes
                        ELSE MakeNode(AllRules[j], d, mdev[n].major)
            /\ mdev[n].major # -2 => Clear(d, num, k)
        BY <2>5, <2>7, <3>2 DEF Applies, Pos
      <3>4. conf' = conf /\ nodes \in [Names -> {Link, None} \cup Nums]
        BY <1>2, TypeJoined DEF Step, Rest
      <3> QED  BY <1>2, <2>6, <3>1, <3>2, <3>3, <3>4, AddsNodes
    <2>8. ASSUME mdev[n].op = "remove"
          PROVE  (Nodes(d) \cap Upto(d, -1, a))' = {}
      <3>1. Nodes(d) \cap Upto(d, -1, p) = {}
        BY <1>2, <2>3, <2>5, <2>8 DEF Stage
      <3> QED  BY <2>5, <2>6, <2>8, <3>1, AppliesRemove
    <2>9. CASE AllRules[j].keep
      <3>1. u.pc = "rules" /\ Pos(u)' = a /\ u.major \in {mdev[n].major, -2}
        BY <2>6, <2>9, AfterPos
      <3>2. mdev'[n] = u /\ Todo(d)' = Todo(d)
        BY <1>1, <1>2, <1>5, <2>1, <3>1, WorkSame
      <3>3. Last(d, n)' <=> Last(d, n)
        BY <3>2 DEF Last
      <3>4. Stage(d, n)'
        <4>1. CASE mdev[n].op = "add"
          BY <1>2, <2>4, <2>7, <3>1, <3>2, <3>3, <4>1 DEF Stage
        <4>2. CASE mdev[n].op = "remove"
          BY <1>2, <2>8, <3>1, <3>2, <4>2 DEF Stage
        <4> QED  BY <2>1, <4>1, <4>2
      <3> QED  BY <1>1, <1>2, <1>5, <2>1, <3>1, <3>4, Advances
    <2>10. CASE ~AllRules[j].keep
      <3>1. u.pc = "exit" /\ a = End /\ conf' = conf
        BY <1>2, <2>6, <2>10, AfterPos DEF Step
      <3>2. /\ Upto(d, -1, End)' = NodesFor(d, -1)'
            /\ \A z : Upto(d, z, 1)' = {} /\ End' = End
        <4>1. /\ Upto(d, -1, End) = NodesFor(d, -1)
              /\ \A z : Upto(d, z, 1) = {}
          BY <1>2, UptoEnds
        <4> QED  BY <3>1, <4>1, RulesSame
      <3>3. mdev[n].op = "remove" => Nodes(d)' = {}
        BY <2>8, <3>1, <3>2, RulesSame DEF Nodes
      <3>4. ASSUME Last(d, n)  PROVE  Settled(d)'
        <4>1. CASE mdev[n].op = "add"
          <5>1. Partly(d, num, End)' /\ num \in Nums /\ sys'[d] = num
            BY <2>4, <2>7, <3>1, <3>2, <3>4, <4>1
          <5>2. Partly(d, num, 1)'
            BY <3>2, <5>1 DEF Partly
          <5>3. num # None
            BY <5>1, MdevAssumption DEF None
          <5> QED  BY <3>2, <5>1, <5>2, <5>3 DEF Settled
        <4>2. CASE mdev[n].op = "remove"
          <5>1. sys[d] = None
            BY <1>5, <2>1, <3>4, <4>2 DEF Match, Agrees
          <5> QED  BY <3>3, <4>2, <5>1 DEF Settled
        <4> QED  BY <2>1, <4>1, <4>2
      <3> QED  BY <1>1, <1>2, <1>5, <2>1, <3>1, <3>3, <3>4, Finishes
    <2> QED  BY <2>9, <2>10
  <1> QED  BY <1>3, <1>4, <1>5

-----------------------------------------------------------------------------
(* The other steps.                                                        *)
\* A device that only one process uses, or none.
LEMMA UsersFew ==
  ASSUME NEW d \in Devs
  PROVE  /\ Users(d) = 0 => Mine(d) = {} /\ scan.dev # d
         /\ ~(Users(d) > 0) => Users(d) = 0
         /\ ~(Users(d) > 1) => \A m, n \in Mine(d) : m = n
         /\ ~(Users(d) > 1) /\ scan.dev = d => Mine(d) = {}
  <1>1. Mine(d) \subseteq Seqs
    BY DEF Mine, Alive
  <1>2. IsFiniteSet(Mine(d))
    <2>1. FirstSeq + MaxEvents - 1 \in Int /\ FirstSeq \in Int
      BY MdevAssumption
    <2>2. IsFiniteSet(Seqs)
      BY <2>1, FS_Interval DEF Seqs
    <2> QED  BY <1>1, <2>2, FS_Subset
  <1>3. Cardinality(Mine(d)) \in Nat /\ (Cardinality(Mine(d)) = 0 <=> Mine(d) = {})
    BY <1>2, FS_CardinalityType, FS_EmptySet
  <1>4. Users(d) = Cardinality(Mine(d)) + (IF scan.dev = d THEN 1 ELSE 0)
    BY DEF Users, Mine
  <1>5. ASSUME ~(Cardinality(Mine(d)) > 1), NEW m \in Mine(d), NEW n \in Mine(d)  PROVE  m = n
    <2>1. Cardinality(Mine(d)) = 1
      BY <1>3, <1>5
    <2>2. PICK x : Mine(d) = {x}
      BY <1>2, <2>1, FS_Singleton
    <2> QED  BY <2>2
  <1> QED  BY <1>3, <1>4, <1>5

\* Of the mdevs of a device that have something to do, one is the last.
LEMMA LastFound ==
  ASSUME NEW d, Todo(d) # {}
  PROVE  \E l \in Todo(d) : Last(d, l)
  <1> DEFINE end == FirstSeq + MaxEvents
             T == {end - m : m \in Todo(d)}
  <1>1. end \in Nat /\ \A m \in Todo(d) : m \in Nat /\ end - m \in Nat
    BY MdevAssumption DEF Todo, Mine, Alive, Seqs
  <1> HIDE DEF end
  <1>2. T \in SUBSET Nat /\ T # {}
    BY <1>1
  <1>3. PICK x \in T : \A y \in T : x <= y
    BY <1>2, Least
  <1>4. PICK l \in Todo(d) : x = end - l
    OBVIOUS
  <1>5. ASSUME NEW m \in Todo(d)  PROVE  m <= l
    <2>1. end - l <= end - m
      BY <1>3, <1>4
    <2> QED  BY <1>1, <2>1
  <1> QED  BY <1>5 DEF Last

\* A step of an mdev does not add to those of a device.
LEMMA MineStep ==
  ASSUME mdev \in [Seqs -> Process], NEW n \in Alive, NEW u \in Process, Step(n, u), NEW d,
         u.pc \in {"none", "done"} \/ u.dev = mdev[n].dev
  PROVE  /\ Mine(d)' \subseteq Mine(d) /\ (n \in Mine(d)' => n \in Mine(d))
         /\ ordered' = ordered /\ InTurn(d) => InTurn(d)'
         /\ (\A m, k \in Mine(d) : m = k) => InTurn(d)'
  <1>1. n \in Seqs /\ (n \in Mine(d) <=> mdev[n].dev = d)
    BY DEF Alive, Mine
  <1>2. Mine(d)' \subseteq Mine(d)
    BY <1>1, SetsStep
  <1> QED  BY <1>2 DEF InTurn

\* A step of an mdev of another device.
LEMMA Bystander ==
  ASSUME mdev \in [Seqs -> Process], NEW n \in Seqs, NEW u \in Process, Step(n, u), scan' = scan,
         NEW d \in Devs, Match(d), sys'[d] = sys[d],
         \A x \in NodesFor(d, -1) : nodes'[x] = nodes[x],
         trust'[d] \in {trust[d], "unsure"}, trust'[d] # "unsure" => InTurn(d)',
         n \notin Mine(d), u.pc \in {"none", "done"} \/ u.dev # d
  PROVE  Match(d)'
  <1>1. n \notin Todo(d) /\ n \notin Todo(d)' /\ n \notin Mine(d)'
    BY SetsStep DEF Early
  <1> QED  BY <1>1, QuietStep

\* wait_for_seqfile(): a step of an mdev that waits for its turn.
Waits(n, u) ==
  /\ Step(n, u) /\ mdev[n].pc \in Early /\ u.pc \in Early
  /\ u.dev = mdev[n].dev /\ u.op = mdev[n].op /\ u.major = mdev[n].major /\ u.rule = mdev[n].rule
  /\ sys' = sys /\ scan' = scan /\ nodes' = nodes
  /\ \/ ordered' = ordered /\ trust' = trust
     \/ ordered' = FALSE /\ Distrust({d \in Devs : Users(d) > 1})

LEMMA WaitFacts ==
  ASSUME TypeOK, NEW n \in Seqs,
         \/ NoSeqfile(n) \/ SeesSeed(n) \/ WritesSeed(n) \/ SeesTurn(n) \/ SeesLater(n)
         \/ SeesEarlier(n) \/ Woken(n) \/ TimesOut(n)
  PROVE  \E u \in Process : Waits(n, u)
  <1>1. mdev[n] \in Process /\ Tries \in 1..Tries
    BY TypeParts, MdevAssumption
  <1>2. mdev[n].pc \in {"read", "seed", "wait"} /\ sys' = sys /\ scan' = scan /\ nodes' = nodes
    BY DEF NoSeqfile, SeesSeed, WritesSeed, SeesTurn, SeesLater, SeesEarlier, Woken, TimesOut, kernel
  <1>3. \/ ordered' = ordered /\ trust' = trust
        \/ ordered' = FALSE /\ Distrust({d \in Devs : Users(d) > 1})
    BY DEF NoSeqfile, SeesSeed, WritesSeed, SeesTurn, SeesLater, SeesEarlier, Woken, TimesOut
  <1>4. PICK l \in Early : \E t \in 1..Tries : \E fd \in BOOLEAN :
          Step(n, [mdev[n] EXCEPT !.pc = l, !.timeout = t, !.fd = fd])
    <2>1. mdev[n].timeout \in 1..Tries /\ mdev[n].fd \in BOOLEAN
      BY <1>1 DEF Process
    <2>2. CASE \E fd \in BOOLEAN : GoesOn(n, fd)
      <3>1. PICK fd \in BOOLEAN : GoesOn(n, fd)
        BY <2>2
      <3>2. Step(n, [mdev[n] EXCEPT !.pc = "open", !.timeout = Tries, !.fd = fd])
        <4>1. [mdev[n] EXCEPT !.pc = "open", !.fd = fd, !.timeout = Tries]
                = [mdev[n] EXCEPT !.pc = "open", !.timeout = Tries, !.fd = fd]
          BY <1>1 DEF Process
        <4>2. mdev' = [mdev EXCEPT ![n] = [mdev[n] EXCEPT !.pc = "open", !.fd = fd, !.timeout = Tries]]
          BY <3>1, TypeParts DEF GoesOn
        <4> QED  BY <3>1, <4>1, <4>2 DEF GoesOn, Step
      <3> QED  BY <1>1, <3>2 DEF Early
    <2>3. CASE \E l \in Early : \E t \in 1..Tries :
                 Step(n, [mdev[n] EXCEPT !.pc = l, !.timeout = t])
      <3>1. PICK l \in Early, t \in 1..Tries : Step(n, [mdev[n] EXCEPT !.pc = l, !.timeout = t])
        BY <2>3
      <3>2. [mdev[n] EXCEPT !.pc = l, !.timeout = t]
              = [mdev[n] EXCEPT !.pc = l, !.timeout = t, !.fd = mdev[n].fd]
        BY <1>1 DEF Process
      <3> QED  BY <2>1, <3>1, <3>2
    <2>4. CASE \E l \in Early : Step(n, [mdev[n] EXCEPT !.pc = l])
      <3>1. PICK l \in Early : Step(n, [mdev[n] EXCEPT !.pc = l])
        BY <2>4
      <3>2. [mdev[n] EXCEPT !.pc = l]
              = [mdev[n] EXCEPT !.pc = l, !.timeout = mdev[n].timeout]
        BY <1>1 DEF Process
      <3> QED  BY <2>1, <2>3, <3>1, <3>2
    <2>5. CASE NoSeqfile(n) \/ WritesSeed(n) \/ SeesTurn(n) \/ SeesLater(n)
      BY <2>2, <2>5 DEF NoSeqfile, WritesSeed, SeesTurn, SeesLater
    <2>6. CASE SeesSeed(n) \/ SeesEarlier(n) \/ Woken(n)
      BY <2>4, <2>6 DEF SeesSeed, SeesEarlier, Woken, Early
    <2>7. CASE TimesOut(n)
      <3>1. CASE mdev[n].timeout > 1 /\ Step(n, [mdev[n] EXCEPT !.pc = "read", !.timeout = @ - 1])
        <4>1. mdev[n].timeout - 1 \in 1..Tries
          BY <2>1, <3>1, MdevAssumption
        <4> QED  BY <2>3, <3>1, <4>1 DEF Early
      <3> QED  BY <2>2, <2>7, <3>1 DEF TimesOut
    <2> QED  BY <2>5, <2>6, <2>7
  <1>5. PICK t \in 1..Tries, fd \in BOOLEAN :
          Step(n, [mdev[n] EXCEPT !.pc = l, !.timeout = t, !.fd = fd])
    BY <1>4
  <1>6. PICK u : u = [mdev[n] EXCEPT !.pc = l, !.timeout = t, !.fd = fd]
    OBVIOUS
  <1>7. /\ u \in Process /\ u.pc = l
        /\ u.dev = mdev[n].dev /\ u.op = mdev[n].op /\ u.major = mdev[n].major /\ u.rule = mdev[n].rule
    BY <1>1, <1>6 DEF Process, Locs, Early
  <1>8. Waits(n, u)
    BY <1>2, <1>3, <1>5, <1>6, <1>7 DEF Waits, Early
  <1> QED  BY <1>7, <1>8

LEMMA WaitMatch ==
  ASSUME TypeOK, NEW n \in Seqs, NEW u \in Process, Waits(n, u), NEW d \in Devs, Match(d)
  PROVE  Match(d)'
  <1>1. mdev \in [Seqs -> Process] /\ n \in Alive /\ trust \in [Devs -> {"fresh", "sure", "unsure"}]
    BY TypeParts DEF Waits, Early, Alive, TypeOK
  <1>2. trust'[d] \in {trust[d], "unsure"} /\ (~(ordered' = ordered /\ trust' = trust) =>
          (trust'[d] # "unsure" => ~(Users(d) > 1)))
    BY <1>1 DEF Waits, Distrust
  <1>3. trust'[d] # "unsure" => InTurn(d)'
    <2>1. trust'[d] # "unsure" => InTurn(d)
      BY <1>2 DEF Match
    <2> QED  BY <1>1, <1>2, <2>1, MineStep, UsersFew DEF Waits
  <1>4. n \in Mine(d)' => n \in Mine(d)
    BY <1>1, MineStep DEF Waits
  <1>5. n \in Todo(d)' <=> n \in Todo(d)
    <2>1. n \in Todo(d)' <=> u.dev = d /\ u.op # "change" /\ u.pc \in Early \cup {"rules"}
      BY <1>1, SetsStep DEF Waits
    <2> QED  BY <1>1, <2>1 DEF Waits, Todo, Mine, Early
  <1> QED  BY <1>1, <1>2, <1>3, <1>4, <1>5, QuietStep DEF Waits

\* make_device() begins, for device d, which now has the number num.
Opens(n, d, num, u) ==
  /\ mdev[n].pc = "open" /\ mdev[n].dev = d /\ num = sys[d]
  /\ Step(n, u) /\ u.dev = d /\ u.op = mdev[n].op /\ u.rule = 1
  /\ u.pc = IF mdev[n].op = "add" /\ num = None THEN "exit" ELSE "rules"
  /\ u.pc = "rules" => u.major = IF mdev[n].op = "add" THEN num ELSE -1
  /\ nodes' = nodes /\ sys' = sys /\ scan' = scan /\ ordered' = ordered /\ trust' = trust

LEMMA OpensFacts ==
  ASSUME TypeOK, Known, Within, NEW n \in Seqs, OpensDev(n)
  PROVE  \E d \in Devs : \E num \in {None} \cup Nums : \E u \in Process : Opens(n, d, num, u)
  <1>1. /\ mdev[n] \in Process /\ mdev[n].pc = "open" /\ n \in Alive
        /\ nodes' = nodes /\ sys' = sys /\ scan' = scan /\ ordered' = ordered /\ trust' = trust
    BY TypeParts DEF OpensDev, Alive, kernel
  <1>2. PICK d \in Devs : d = mdev[n].dev
    BY <1>1 DEF Known
  <1>3. PICK num \in {None} \cup Nums : num = sys[d]
    BY DEF TypeOK
  <1>4. PICK u : u = CASE mdev[n].op # "add" -> [mdev[n] EXCEPT !.pc = "rules"]
                       [] mdev[n].op = "add" /\ num = None -> [mdev[n] EXCEPT !.pc = "exit"]
                       [] OTHER -> [mdev[n] EXCEPT !.pc = "rules", !.major = num]
    OBVIOUS
  <1>5. Step(n, u)
    BY <1>2, <1>3, <1>4 DEF OpensDev
  <1>6. /\ mdev[n].op # "add" => u = [mdev[n] EXCEPT !.pc = "rules"]
        /\ mdev[n].op = "add" /\ num = None => u = [mdev[n] EXCEPT !.pc = "exit"]
        /\ mdev[n].op = "add" /\ num # None => u = [mdev[n] EXCEPT !.pc = "rules", !.major = num]
    <2> DEFINE a == [mdev[n] EXCEPT !.pc = "rules"]
               b == [mdev[n] EXCEPT !.pc = "exit"]
               c == [mdev[n] EXCEPT !.pc = "rules", !.major = num]
    <2>1. u = CASE mdev[n].op # "add" -> a
                [] mdev[n].op = "add" /\ num = None -> b [] OTHER -> c
      BY <1>4 DEF a, b, c
    <2> HIDE DEF a, b, c
    <2>2. /\ mdev[n].op # "add" => u = a
          /\ mdev[n].op = "add" /\ num = None => u = b
          /\ mdev[n].op = "add" /\ num # None => u = c
      BY <2>1
    <2> QED  BY <2>2 DEF a, b, c
  <1>7. /\ u \in Process /\ u.dev = d /\ u.op = mdev[n].op
        /\ u.pc = IF mdev[n].op = "add" /\ num = None THEN "exit" ELSE "rules"
        /\ mdev[n].op = "add" /\ num # None => u.major = num
    BY <1>1, <1>2, <1>3, <1>6 DEF Process, Locs
  <1>8. u.rule = 1 /\ (mdev[n].op # "add" => u.major = -1)
    BY <1>1, <1>6 DEF Within, Placed, Early, Process
  <1>9. Opens(n, d, num, u)
    BY <1>1, <1>2, <1>3, <1>5, <1>7, <1>8 DEF Opens
  <1> QED  BY <1>7, <1>9

LEMMA OpensMatch ==
  ASSUME TypeOK, Known, Serialized, NEW n \in Seqs, NEW d \in Devs, NEW num \in {None} \cup Nums,
         NEW u \in Process, Opens(n, d, num, u), NEW e \in Devs, Match(e)
  PROVE  Match(e)'
  <1>1. /\ mdev \in [Seqs -> Process] /\ mdev[n] \in Process /\ mdev[n].pc = "open" /\ n \in Alive
        /\ nodes' = nodes /\ sys' = sys /\ scan' = scan /\ ordered' = ordered /\ trust' = trust
        /\ conf \in Confs
    BY TypeParts DEF Opens, Alive, Known
  <1>2. d = mdev[n].dev
    BY DEF Opens
  <1>3. num = sys[d]
    BY DEF Opens
  <1>5. Step(n, u)
    BY DEF Opens
  <1>7. /\ u \in Process /\ u.dev = d /\ u.op = mdev[n].op
        /\ u.pc = IF mdev[n].op = "add" /\ num = None THEN "exit" ELSE "rules"
        /\ u.pc = "rules" => u.major = IF mdev[n].op = "add" THEN num ELSE -1
    BY DEF Opens
  <1>8. u.rule = 1
    BY DEF Opens
  <1>9. ASSUME e # d  PROVE  Match(e)'
    <2>1. n \notin Mine(e)
      BY <1>2, <1>9 DEF Mine
    <2>2. trust'[e] # "unsure" => InTurn(e)'
      BY <1>1, <1>2, <1>5, <1>7, MineStep DEF Match
    <2> QED  BY <1>1, <1>5, <1>7, <1>9, <2>1, <2>2, Bystander
  <1> SUFFICES ASSUME e = d, trust[d] # "unsure"  PROVE  Match(d)'
    BY <1>1, <1>9 DEF Match
  <1>10. InTurn(d)' /\ Match(d) /\ InTurn(d)
    BY <1>1, <1>2, <1>5, <1>7, MineStep DEF Match
  <1>11. CASE mdev[n].op = "change"
    <2>1. n \notin Todo(d) /\ n \notin Todo(d)' /\ n \in Mine(d)
      BY <1>1, <1>2, <1>5, <1>7, <1>11, SetsStep DEF Todo, Mine
    <2> QED  BY <1>1, <1>5, <1>7, <1>10, <2>1, QuietStep
  <1>12. CASE mdev[n].op # "change"
    <2>1. n \in Todo(d) /\ WorkStep(d, n, u) /\ mdev[n].op \in {"add", "remove"}
      BY <1>1, <1>2, <1>5, <1>7, <1>12 DEF Todo, Mine, WorkStep, Early, Process
    <2>2. First(d, n)
      <3>1. \A m \in Todo(d) : m # n => n < m
        BY <1>1, <1>10, <2>1, OthersWait
      <3>2. n \in Nat /\ \A m \in Todo(d) : m \in Nat
        BY SeqsNumbers DEF Todo, Mine, Alive
      <3> QED  BY <3>1, <3>2 DEF First
    <2>3. Stage(d, n) /\ Agrees(d)
      BY <1>10, <2>1, <2>2 DEF Match
    <2>4. Nodes(d)' = Nodes(d)
      BY <1>1, <1>5, ViewSame DEF Step
    <2>5. CASE u.pc = "exit"
      <3>1. mdev[n].op = "add" /\ sys[d] = None
        BY <1>3, <1>7, <2>5
      <3>2. ~Last(d, n)
        BY <2>1, <2>3, <3>1 DEF Agrees
      <3> QED  BY <1>1, <1>7, <1>10, <2>1, <2>5, <3>1, <3>2, Finishes
    <2>6. CASE u.pc = "rules"
      <3>1. mdev'[n] = u /\ conf' = conf
        BY <1>1, <1>5, <1>7, Stepped
      <3>2. \A x : Upto(d, x, 1)' = {}
        <4>1. \A x : Upto(d, x, 1) = {}
          BY <1>1, UptoEnds
        <4> QED  BY <3>1, <4>1, RulesSame
      <3>3. CASE mdev[n].op = "add"
        <4>1. num # None /\ num \in Nums /\ num # -2 /\ u.major = num
          <5>1. Nums \subseteq Nat
            BY MdevAssumption
          <5> QED  BY <1>7, <2>6, <3>3, <5>1
        <4>2. Nodes(d) = {}
          BY <1>1, <2>3, <3>3 DEF Stage
        <4>3. Partly(d, num, 1)'
          BY <2>4, <3>2, <4>2 DEF Partly
        <4>4. Pos(u)' = 1
          BY <1>8, <4>1 DEF Pos
        <4>5. Stage(d, n)'
          BY <1>1, <1>3, <1>7, <2>6, <3>1, <3>3, <4>1, <4>3, <4>4 DEF Stage
        <4> QED  BY <1>1, <1>7, <1>10, <2>1, <2>6, <4>5, Advances
      <3>4. CASE mdev[n].op = "remove"
        <4>1. u.major = -1 /\ Pos(u)' = 1
          <5>1. u.major = -1
            BY <1>7, <2>6, <3>4
          <5> QED  BY <1>8, <5>1 DEF Pos
        <4>2. Stage(d, n)'
          BY <1>7, <3>1, <3>2, <3>4, <4>1 DEF Stage
        <4> QED  BY <1>1, <1>7, <1>10, <2>1, <2>6, <4>2, Advances
      <3> QED  BY <2>1, <3>3, <3>4
    <2> QED  BY <1>7, <2>5, <2>6
  <1> QED  BY <1>11, <1>12

\* An mdev ends, or is killed.
LEMMA EndFacts ==
  ASSUME TypeOK, Known, NEW n \in Seqs, Exits(n) \/ SignalsMdevs(n) \/ Killed(n)
  PROVE  \E u \in Process : /\ Step(n, u) /\ scan' = scan
                            /\ u.pc = "done" \/ (u.pc = "signal" /\ u.dev = mdev[n].dev)
  <1>1. mdev[n] \in Process /\ conf \in Confs /\ scan' = scan
    BY TypeParts DEF Exits, SignalsMdevs, Killed, Known
  <1>2. Done(n) \in Process /\ Done(n).pc = "done"
    BY <1>1, DoneType
  <1>3. CASE Step(n, Done(n))
    BY <1>1, <1>2, <1>3
  <1>4. CASE Step(n, [mdev[n] EXCEPT !.pc = "signal"])
    <2>1. PICK u : u = [mdev[n] EXCEPT !.pc = "signal"]
      OBVIOUS
    <2>2. u \in Process /\ u.pc = "signal" /\ u.dev = mdev[n].dev
      BY <1>1, <2>1 DEF Process, Locs
    <2> QED  BY <1>1, <1>4, <2>1, <2>2
  <1> QED  BY <1>3, <1>4 DEF Exits, SignalsMdevs, Killed

LEMMA EndsMatch ==
  ASSUME TypeOK, Known, NEW n \in Seqs, Exits(n) \/ SignalsMdevs(n) \/ Killed(n),
         NEW e \in Devs, Match(e)
  PROVE  Match(e)'
  <1>1. /\ mdev \in [Seqs -> Process] /\ mdev[n] \in Process /\ n \in Alive
        /\ nodes' = nodes /\ sys' = sys /\ scan' = scan /\ ordered' = ordered /\ conf \in Confs
    BY TypeParts DEF Exits, SignalsMdevs, Killed, Alive, Known, kernel
  <1>2. PICK u \in Process : /\ Step(n, u)
                             /\ u.pc = "done" \/ (u.pc = "signal" /\ u.dev = mdev[n].dev)
    BY EndFacts
  <1>3. /\ n \in Mine(e)' => n \in Mine(e)
        /\ InTurn(e) => InTurn(e)'
    BY <1>1, <1>2, MineStep
  <1>4. n \notin Todo(e)'
    BY <1>1, <1>2, SetsStep DEF Early
  <1>5. CASE Exits(n) \/ SignalsMdevs(n)
    <2>1. n \notin Todo(e) /\ trust' = trust
      BY <1>5 DEF Exits, SignalsMdevs, Todo, Early
    <2>2. trust'[e] # "unsure" => InTurn(e)'
      BY <1>3, <2>1 DEF Match
    <2> QED  BY <1>1, <1>2, <1>3, <1>4, <2>1, <2>2, QuietStep
  <1>6. CASE Killed(n)
    <2>1. trust'[e] = IF e = mdev[n].dev THEN "unsure" ELSE trust[e]
      BY <1>6 DEF Killed, Distrust
    <2>2. CASE e = mdev[n].dev
      BY <2>1, <2>2 DEF Match
    <2>3. CASE e # mdev[n].dev
      <3>1. n \notin Mine(e)
        BY <2>3 DEF Mine
      <3>2. trust'[e] # "unsure" => InTurn(e)'
        BY <1>3, <2>1 DEF Match
      <3> QED  BY <1>1, <1>2, <2>1, <2>3, <3>1, <3>2, Bystander
    <2> QED  BY <2>2, <2>3
  <1> QED  BY <1>5, <1>6

\* The kernel starts an mdev.
LEMMA EventMatch ==
  ASSUME TypeOK, Known, Order, NEW op \in {"add", "remove", "change"}, NEW d \in Devs, Event(op, d),
         \A e \in Devs : e # d => sys'[e] = sys[e],
         op = "add" => sys[d] = None /\ sys'[d] # None,
         op = "remove" => sys[d] # None /\ sys'[d] = None,
         op = "change" => sys'[d] = sys[d],
         NEW e \in Devs, Match(e)
  PROVE  Match(e)'
  <1>1. /\ mdev \in [Seqs -> Process] /\ seqnum \in Seqs /\ mdev[seqnum].pc = "none"
        /\ scan' = scan /\ nodes' = nodes /\ conf' = conf /\ conf \in Confs
    BY TypeParts DEF Event, Step, Order, Unstarted, Known, TypeOK
  <1>2. PICK u : u = [NotStarted EXCEPT !.pc = "read", !.op = op, !.dev = d]
    OBVIOUS
  <1>3. u \in Process /\ u.pc = "read" /\ u.op = op /\ u.dev = d /\ Step(seqnum, u)
    <2>1. NotStarted \in Process
      BY <1>1, DoneType
    <2> QED  BY <1>2, <2>1 DEF Process, Locs, Event
  <1>4. seqnum \notin Mine(e) /\ seqnum \notin Todo(e)
    BY <1>1 DEF Mine, Todo, Alive
  <1>5. /\ Todo(e) \subseteq Mine(e) /\ Mine(e) \subseteq Seqs /\ Mine(e)' \subseteq Seqs
        /\ \A m \in Seqs \ {seqnum} : /\ m \in Mine(e)' <=> m \in Mine(e)
                                      /\ mdev'[m] = mdev[m]
        /\ mdev'[seqnum] = u
        /\ seqnum \in Mine(e)' <=> e = d
        /\ Todo(e)' = IF e = d /\ op # "change" THEN Todo(e) \cup {seqnum} ELSE Todo(e)
    <2>1. /\ Todo(e) \subseteq Mine(e) /\ Mine(e) \subseteq Seqs
          /\ Todo(e)' \subseteq Mine(e)' /\ Mine(e)' \subseteq Seqs
          /\ \A m \in Seqs \ {seqnum} : /\ m \in Mine(e)' <=> m \in Mine(e)
                                        /\ m \in Todo(e)' <=> m \in Todo(e)
                                        /\ mdev'[m] = mdev[m]
          /\ mdev'[seqnum] = u
          /\ seqnum \in Mine(e)' <=> u.pc \notin {"none", "done"} /\ u.dev = e
          /\ seqnum \in Todo(e)' <=> u.dev = e /\ u.op # "change" /\ u.pc \in Early \cup {"rules"}
      BY <1>1, <1>3, SetsStep
    <2>2. /\ seqnum \in Mine(e)' <=> e = d
          /\ seqnum \in Todo(e)' <=> e = d /\ op # "change"
      BY <1>3, <2>1 DEF Early
    <2>3. Todo(e)' = IF e = d /\ op # "change" THEN Todo(e) \cup {seqnum} ELSE Todo(e)
      BY <1>1, <1>4, <2>1, <2>2
    <2> QED  BY <2>1, <2>2, <2>3
  <1>6. /\ trust'[e] \in {trust[e], "unsure"}
        /\ e = d /\ trust'[e] # "unsure" => scan.dev # d /\ (ordered' \/ Users(d) = 0)
    <2>1. trust'[e] = IF e \in (IF Users(d) > 0 /\ (~ordered' \/ scan.dev = d) THEN {d} ELSE {})
                      THEN "unsure" ELSE trust[e]
      BY DEF Event, Distrust
    <2>2. e = d /\ trust'[e] # "unsure" => Users(d) = 0 \/ (ordered' /\ scan.dev # d)
      BY <2>1, UsersFew
    <2>3. Users(d) = 0 => scan.dev # d
      BY UsersFew
    <2> QED  BY <2>1, <2>2, <2>3
  <1>7. trust[e] # "unsure" /\ ~ordered' => \A m, n \in Mine(e) : m = n
    <2> SUFFICES ASSUME trust[e] # "unsure", ~ordered', NEW m \in Mine(e), NEW n \in Mine(e), m # n
                 PROVE  FALSE
      OBVIOUS
    <2>1. ordered /\ m \in Alive /\ n \in Alive
      BY DEF Match, InTurn, Mine
    <2>2. seqfile > 0
      BY <2>1 DEF Order, Turns
    <2> QED  BY <2>1, <2>2 DEF Event, StaysOrdered
  <1>8. trust'[e] # "unsure" => InTurn(e)'
    <2> SUFFICES ASSUME trust'[e] # "unsure", ~ordered'  PROVE  \A m, n \in Mine(e)' : m = n
      BY DEF InTurn
    <2>1. trust[e] # "unsure"
      BY <1>6
    <2>2. CASE e = d
      <3>1. Mine(e) = {}
        BY <1>6, <2>2, UsersFew
      <3> QED  BY <1>5, <3>1
    <2>3. CASE e # d
      BY <1>1, <1>4, <1>5, <1>7, <2>1, <2>3
    <2> QED  BY <2>2, <2>3
  <1>9. CASE e # d \/ op = "change"
    <2>1. seqnum \notin Todo(e)'
      BY <1>4, <1>5, <1>9
    <2>2. sys'[e] = sys[e]
      BY <1>9
    <2>3. trust'[e] # "unsure" => (scan.dev = e /\ seqnum \in Mine(e)' => seqnum \in Mine(e))
      BY <1>5, <1>6
    <2> QED  BY <1>1, <1>3, <1>4, <1>6, <1>8, <2>1, <2>2, <2>3, QuietStep
  <1>10. CASE e = d /\ op # "change"
    <2> SUFFICES ASSUME trust'[d] # "unsure"
                 PROVE  /\ Scanned(d)' /\ Alternate(d)' /\ Agrees(d)'
                        /\ \A n \in Todo(d)' : First(d, n)' => Stage(d, n)'
      BY <1>5, <1>8, <1>10 DEF Match
    <2>1. /\ Alternate(d) /\ Agrees(d) /\ (Todo(d) = {} => Settled(d))
          /\ \A n \in Todo(d) : First(d, n) => Stage(d, n)
      BY <1>6, <1>10 DEF Match
    <2>2. Scanned(d)'
      BY <1>1, <1>6, <1>10 DEF Scanned
    <2>3. /\ Todo(d)' = Todo(d) \cup {seqnum} /\ mdev'[seqnum] = u /\ seqnum \in Nat
          /\ \A m \in Todo(d) : mdev'[m] = mdev[m] /\ m < seqnum /\ m \in Nat
      <3>1. \A m \in Todo(d) : m \in Seqs /\ m # seqnum /\ mdev[m].pc # "none"
        BY <1>4, <1>5, <1>10 DEF Todo, Mine, Alive
      <3>2. seqnum \in Nat /\ \A m \in Seqs : m \in Nat
        BY <1>1, SeqsNumbers
      <3>3. \A m \in Todo(d) : m < seqnum
        BY <3>1, <3>2 DEF Order, Unstarted
      <3> QED  BY <1>5, <1>10, <3>1, <3>2, <3>3
    <2>4. \A m \in Todo(d)' : Last(d, m)' <=> m = seqnum
      BY <2>3 DEF Last
    <2>5. Agrees(d)'
      BY <1>3, <1>10, <2>3, <2>4 DEF Agrees
    <2>6. Alternate(d)'
      <3> SUFFICES ASSUME NEW m \in Todo(d)', NEW n \in Todo(d)', m < n, mdev'[m].op = mdev'[n].op
                   PROVE  \E l \in Todo(d)' : m < l /\ l < n /\ mdev'[l].op # mdev'[m].op
        BY DEF Alternate
      <3>1. m \in Todo(d)
        BY <2>3
      <3>2. CASE n \in Todo(d)
        <4>1. PICK l \in Todo(d) : m < l /\ l < n /\ mdev[l].op # mdev[m].op
          BY <2>1, <2>3, <3>1, <3>2 DEF Alternate
        <4> QED  BY <2>3, <3>1, <4>1
      <3>3. CASE n = seqnum
        <4>1. PICK l \in Todo(d) : Last(d, l)
          BY <3>1, LastFound
        <4>2. mdev[m].op = op
          BY <1>3, <2>3, <3>1, <3>3
        <4>3. mdev[l].op # op
          BY <1>10, <2>1, <4>1 DEF Agrees
        <4>4. m < l
          BY <2>3, <3>1, <4>1, <4>2, <4>3 DEF Last
        <4> QED  BY <2>3, <3>1, <3>3, <4>2, <4>3, <4>4
      <3> QED  BY <2>3, <3>2, <3>3
    <2>7. ASSUME NEW n \in Todo(d)', First(d, n)'  PROVE  Stage(d, n)'
      <3>1. Nodes(d)' = Nodes(d) /\ \A z, k : Upto(d, z, k)' = Upto(d, z, k)
        BY <1>1, ViewSame, RulesSame
      <3>2. End' = End
        BY <1>1, RulesSame
      <3>3. CASE n = seqnum
        <4>1. Todo(d) = {}
          <5> SUFFICES ASSUME NEW m \in Todo(d)  PROVE  FALSE
            OBVIOUS
          <5>1. seqnum <= m /\ m < seqnum /\ m \in Nat
            BY <2>3, <2>7, <3>3 DEF First
          <5> QED  BY <2>3, <5>1
        <4>2. op = "add" => Nodes(d)' = {}
          BY <2>1, <3>1, <4>1 DEF Settled
        <4> QED  BY <1>3, <2>3, <3>3, <4>2 DEF Stage
      <3>4. CASE n \in Todo(d)
        <4>1. First(d, n)
          BY <2>3, <2>7 DEF First
        <4>2. Stage(d, n) /\ mdev'[n] = mdev[n] /\ n # seqnum
          BY <2>1, <2>3, <3>4, <4>1
        <4>3. ~Last(d, n)'
          BY <2>4, <2>7, <4>2
        <4> QED  BY <3>1, <3>2, <4>2, <4>3 DEF Stage, Pos
      <3> QED  BY <2>3, <2>7, <3>3, <3>4
    <2> QED  BY <2>2, <2>5, <2>6, <2>7
  <1> QED  BY <1>3, <1>9, <1>10

\* A step of mdev -s, seen by a device.
LEMMA ScanStep ==
  ASSUME conf' = conf, mdev' = mdev, ordered' = ordered, NEW d \in Devs, Match(d), sys'[d] = sys[d],
         \A x \in NodesFor(d, -1) : nodes'[x] = nodes[x],
         trust'[d] \in {trust[d], "unsure"}, trust'[d] # "unsure" => Scanned(d)'
  PROVE  Match(d)'
  <1>1. /\ Nodes(d)' = Nodes(d) /\ End' = End
        /\ \A num, k : Partly(d, num, k)' <=> Partly(d, num, k)
        /\ \A num, k : Upto(d, num, k)' = Upto(d, num, k)
    BY ViewSame, RulesSame
  <1>2. Mine(d)' = Mine(d) /\ Todo(d)' = Todo(d)
    BY DEF Mine, Todo, Alive
  <1>3. \A m : (Last(d, m)' <=> Last(d, m)) /\ (First(d, m)' <=> First(d, m))
    BY <1>2 DEF Last, First
  <1>4. (Alternate(d)' <=> Alternate(d)) /\ (Agrees(d)' <=> Agrees(d)) /\ (InTurn(d)' <=> InTurn(d))
    BY <1>2, <1>3 DEF Alternate, Agrees, InTurn
  <1>5. trust'[d] = trust[d] => (Settled(d)' <=> Settled(d))
    BY <1>1 DEF Settled
  <1>6. \A m : Stage(d, m)' <=> Stage(d, m)
    BY <1>1, <1>3 DEF Stage, Pos
  <1> QED  BY <1>2, <1>3, <1>4, <1>5, <1>6 DEF Match

\* mdev -s comes to a device.
LEMMA ScanOpensMatch ==
  ASSUME TypeOK, Known, NEW d \in Devs, ScanOpens(d), NEW e \in Devs, Match(e)
  PROVE  Match(e)'
  <1>1. /\ mdev' = mdev /\ conf' = conf /\ nodes' = nodes /\ sys' = sys /\ ordered' = ordered
        /\ conf \in Confs /\ NoDev \notin Devs
    BY MdevAssumption DEF ScanOpens, kernel, Known
  <1>2. /\ scan'.dev = (IF sys[d] = None THEN NoDev ELSE d) /\ scan'.major = sys[d] /\ scan'.rule = 1
    BY DEF ScanOpens, Idle
  <1>3. trust'[e] = IF e \in (IF sys[d] # None /\ Users(d) > 0 THEN {d} ELSE {})
                    THEN "unsure" ELSE trust[e]
    BY DEF ScanOpens, Distrust
  <1>4. ASSUME trust'[e] # "unsure"  PROVE  Scanned(e)'
    <2> SUFFICES ASSUME scan'.dev = e
                 PROVE  /\ Mine(e)' = {} /\ sys'[e] # None /\ scan'.major \in {sys'[e], -2}
                        /\ Upto(e, sys[e], Pos(scan))' \subseteq Nodes(e)'
      BY DEF Scanned
    <2>1. e = d /\ sys[d] # None
      BY <1>1, <1>2
    <2>2. Mine(e)' = {}
      <3>1. Mine(e) = {}
        BY <1>3, <1>4, <2>1, UsersFew
      <3> QED  BY <1>1, <3>1 DEF Mine, Alive
    <2>3. Pos(scan)' = 1
      <3>1. sys[d] # -2
        <4>1. Nums \subseteq Nat /\ sys[d] \in {None} \cup Nums
          BY MdevAssumption DEF TypeOK
        <4> QED  BY <4>1 DEF None
      <3> QED  BY <1>2, <3>1 DEF Pos
    <2>4. Upto(e, sys[e], Pos(scan))' = {}
      <3>1. \A x : Upto(e, x, 1)' = {}
        BY <1>1, UptoEnds, RulesSame
      <3> QED  BY <2>3, <3>1
    <2> QED  BY <1>1, <1>2, <2>1, <2>2, <2>4
  <1> QED  BY <1>1, <1>3, <1>4, ScanStep

\* mdev -s applies rule j, the next one from its rule k on.
ScanApplies(d, k, j) ==
  /\ scan.dev = d /\ scan.rule = k /\ j = NextMatch(k, d, scan.major)
  /\ nodes' = IF AllRules[j].ren = "!" \/ scan.major = -2 THEN nodes
              ELSE MakeNode(AllRules[j], d, scan.major)
  /\ scan.major \in Nums \cup {-2} /\ (scan.major # -2 => Clear(d, scan.major, k))
  /\ IF AllRules[j].keep
     THEN /\ scan'.dev = d /\ scan'.rule = j + 1 /\ scan'.major = Major(AllRules[j], scan.major)
          /\ trust' = trust
     ELSE scan'.dev = NoDev /\ ScanLeaves(d)
  /\ mdev' = mdev /\ conf' = conf /\ sys' = sys /\ ordered' = ordered

LEMMA ScanFacts ==
  ASSUME TypeOK, Known, Within, ScanAppliesRule
  PROVE  \E d \in Devs : \E k \in 1..Len(AllRules) : \E j \in 1..Len(AllRules) : ScanApplies(d, k, j)
  <1>1. scan \in Scanner /\ scan.dev # NoDev /\ conf \in Confs
    BY TypeParts DEF ScanAppliesRule, Known
  <1>2. PICK d \in Devs : d = scan.dev
    BY <1>1 DEF Scanner
  <1>3. PICK k \in 1..Len(AllRules) : k = scan.rule
    BY <1>1 DEF Scanner
  <1>4. PICK major \in Nums \cup {-2} : major = scan.major
    BY <1>1 DEF Within
  <1>5. PICK j : j = NextMatch(k, d, major)
    OBVIOUS
  <1>6. j \in 1..Len(AllRules)
    BY <1>1, <1>5, NextMatchFound
  <1>7. PICK m : m = Major(AllRules[j], major)
    OBVIOUS
  <1>8. /\ nodes' = (IF m >= 0 THEN MakeNode(AllRules[j], d, m) ELSE nodes)
        /\ IF AllRules[j].keep
           THEN scan' = [scan EXCEPT !.rule = j + 1, !.major = m] /\ trust' = trust
           ELSE scan' = [Idle EXCEPT !.todo = scan.todo] /\ ScanLeaves(d)
    BY <1>2, <1>3, <1>4, <1>5, <1>7 DEF ScanAppliesRule
  <1>9. nodes' = IF AllRules[j].ren = "!" \/ major = -2 THEN nodes ELSE MakeNode(AllRules[j], d, major)
    <2>1. Nums \subseteq Nat \ {0}
      BY MdevAssumption
    <2>2. CASE AllRules[j].ren = "!" \/ major = -2
      <3>1. m = -2
        BY <1>7, <2>2 DEF Major
      <3> QED  BY <1>8, <2>2, <3>1
    <2>3. CASE ~(AllRules[j].ren = "!" \/ major = -2)
      <3>1. m = major /\ m \in Nums
        BY <1>7, <2>3 DEF Major
      <3> QED  BY <1>8, <2>1, <2>3, <3>1
    <2> QED  BY <2>2, <2>3
  <1>10. IF AllRules[j].keep
         THEN scan'.dev = d /\ scan'.rule = j + 1 /\ scan'.major = m /\ trust' = trust
         ELSE scan'.dev = NoDev /\ ScanLeaves(d)
    BY <1>1, <1>2, <1>8 DEF Scanner, Idle
  <1>11. major # -2 => Clear(d, major, k)
    BY <1>1, <1>2, <1>3, <1>4 DEF Within
  <1>12. mdev' = mdev /\ conf' = conf /\ sys' = sys /\ ordered' = ordered
    BY DEF ScanAppliesRule, kernel
  <1>13. ScanApplies(d, k, j)
    BY <1>2, <1>3, <1>4, <1>5, <1>7, <1>9, <1>10, <1>11, <1>12 DEF ScanApplies
  <1> QED  BY <1>6, <1>13

LEMMA ScanAppliesMatch ==
  ASSUME TypeOK, Known, Tidy, NEW d \in Devs, NEW k \in 1..Len(AllRules),
         NEW j \in 1..Len(AllRules), ScanApplies(d, k, j), NEW e \in Devs, Match(e)
  PROVE  Match(e)'
  <1>1. /\ conf \in Confs /\ nodes \in [Names -> {Link, None} \cup Nums] /\ NoDev \notin Devs
        /\ trust \in [Devs -> {"fresh", "sure", "unsure"}]
        /\ conf' = conf /\ mdev' = mdev /\ sys' = sys /\ ordered' = ordered
    BY TypeJoined, MdevAssumption DEF Known, Rest, ScanApplies
  <1>2. PICK major \in Nums \cup {-2} : major = scan.major
    BY DEF ScanApplies
  <1>3. trust'[e] = IF e = d /\ ~AllRules[j].keep /\ trust[d] = "fresh" THEN "sure" ELSE trust[e]
    BY <1>1 DEF ScanApplies, ScanLeaves
  <1>4. CASE e # d
    <2>1. \A x \in NodesFor(e, -1) : nodes'[x] = nodes[x]
      <3>1. CASE nodes' = nodes
        BY <3>1
      <3>2. CASE nodes' # nodes
        <4>1. /\ AllRules[j].ren # "!" /\ major \in Nums /\ Clear(d, major, k)
              /\ j = NextMatch(k, d, major) /\ nodes' = MakeNode(AllRules[j], d, major)
          BY <1>2, <3>2 DEF ScanApplies
        <4>2. j \in Applied(d, major)
          BY <1>1, <4>1, NextApplied
        <4>3. \A x \in Names : x \notin NodesOf(AllRules[j], d) => nodes'[x] = nodes[x]
          BY <1>1, <4>1, MakesNodes
        <4> QED  BY <1>1, <1>4, <4>1, <4>2, <4>3, OthersKept
      <3> QED  BY <3>1, <3>2
    <2>2. Scanned(e)'
      BY <1>1, <1>4 DEF ScanApplies, Scanned
    <2> QED  BY <1>1, <1>3, <1>4, <2>1, <2>2, ScanStep
  <1>5. CASE e = d /\ trust[d] = "unsure"
    BY <1>3, <1>5 DEF Match
  <1>6. CASE e = d /\ trust[d] # "unsure"
    <2>1. scan.dev = d
      BY DEF ScanApplies
    <2>2. Scanned(d) /\ InTurn(d) /\ (Todo(d) = {} => Settled(d))
      BY <1>6 DEF Match
    <2>3. PICK num \in {None} \cup Nums : num = sys[d]
      BY DEF TypeOK
    <2>4. PICK p : p = Pos(scan)
      OBVIOUS
    <2>5. /\ Mine(d) = {} /\ Todo(d) = {} /\ num # None /\ num \in Nums
          /\ major \in {num, -2} /\ Upto(d, num, p) \subseteq Nodes(d)
      BY <1>2, <2>1, <2>2, <2>3, <2>4 DEF Scanned, Todo
    <2>6. Partly(d, num, p)
      BY <2>2, <2>3, <2>5 DEF Settled, Partly
    <2>7. PICK a : a = After(major, j)
      OBVIOUS
    <2>8. Partly(d, num, a)'
      <3>1. /\ j = NextMatch(k, d, major) /\ p = (IF major = -2 THEN End ELSE k)
            /\ nodes' = IF AllRules[j].ren = "!" \/ major = -2 THEN nodes
                        ELSE MakeNode(AllRules[j], d, major)
            /\ major # -2 => Clear(d, num, k)
        BY <1>2, <2>4, <2>5 DEF ScanApplies, Pos
      <3> QED  BY <1>1, <2>5, <2>6, <2>7, <3>1, AddsNodes
    <2>9. Mine(d)' = {} /\ Todo(d)' = {}
      <3>1. Mine(d)' = {}
        BY <1>1, <2>5 DEF Mine, Alive
      <3> QED  BY <3>1 DEF Todo
    <2>10. InTurn(d)' /\ Alternate(d)' /\ Agrees(d)'
      BY <2>9 DEF InTurn, Alternate, Agrees
    <2>11. /\ End' = End /\ \A z : Upto(d, z, 1)' = {}
      BY <1>1, UptoEnds, RulesSame
    <2>12. Partly(d, num, 1)'
      BY <2>8, <2>11 DEF Partly
    <2>13. CASE AllRules[j].keep
      <3>1. scan'.dev = d /\ scan'.rule = j + 1 /\ scan'.major = (IF AllRules[j].ren = "!" THEN -2 ELSE major)
        BY <1>2, <2>13 DEF ScanApplies, Major
      <3>2. Pos(scan)' = a
        <4>1. major # -2 \/ major = -2
          OBVIOUS
        <4> QED  BY <2>7, <2>11, <2>13, <3>1 DEF Pos, After
      <3>3. Scanned(d)'
        BY <1>1, <2>3, <2>5, <2>8, <2>9, <3>1, <3>2 DEF Scanned, Partly
      <3>4. trust'[d] = trust[d]
        BY <1>3, <1>6, <2>13
      <3>5. Settled(d)'
        <4>1. trust[d] = "sure" => Partly(d, num, End)'
          <5>1. trust[d] = "sure" => Partly(d, num, End)
            BY <2>2, <2>3, <2>5 DEF Settled
          <5>2. trust[d] = "sure" => Upto(d, num, End) \subseteq Nodes(d)
            BY <5>1 DEF Partly
          <5>3. Nodes(d) \subseteq Nodes(d)'
            <6>1. \A x \in Names : nodes[x] # None => nodes'[x] = nodes[x]
              <7>1. CASE nodes' = nodes
                BY <7>1
              <7>2. CASE nodes' # nodes
                <8>1. major \in Nums /\ nodes' = MakeNode(AllRules[j], d, major)
                  BY <1>2, <7>2 DEF ScanApplies
                <8> QED  BY <1>1, <8>1, MakesNodes
              <7> QED  BY <7>1, <7>2
            <6>2. NodesFor(d, -1) \subseteq Names /\ NodesFor(d, -1)' = NodesFor(d, -1)
              BY <1>1, NamesFor, RulesSame
            <6> QED  BY <6>1, <6>2 DEF Nodes
          <5>4. Upto(d, num, End)' = Upto(d, num, End)
            BY <1>1, RulesSame
          <5> QED  BY <2>8, <5>2, <5>3, <5>4 DEF Partly
        <4> QED  BY <1>1, <2>3, <2>5, <2>11, <2>12, <3>4, <4>1 DEF Settled
      <3> QED  BY <1>6, <2>9, <2>10, <3>3, <3>5 DEF Match
    <2>14. CASE ~AllRules[j].keep
      <3>1. a = End /\ scan'.dev = NoDev
        BY <2>7, <2>14 DEF After, ScanApplies
      <3>2. Scanned(d)'
        BY <1>1, <3>1 DEF Scanned
      <3>3. Settled(d)'
        BY <1>1, <2>3, <2>5, <2>8, <2>11, <2>12, <3>1 DEF Settled
      <3> QED  BY <1>6, <2>9, <2>10, <3>2, <3>3 DEF Match
    <2> QED  BY <2>13, <2>14
  <1> QED  BY <1>4, <1>5, <1>6

-----------------------------------------------------------------------------
(* What holds in every state.                                              *)
NodesInv == Within /\ (Tidy => \A d \in Devs : Match(d))

LEMMA PlacedSame ==
  ASSUME conf' = conf, NEW p
  PROVE  Placed(p)' <=> Placed(p)
  <1>1. \A d, major, k : Clear(d, major, k)' <=> Clear(d, major, k)
    BY RulesSame
  <1> QED  BY <1>1 DEF Placed

LEMMA WithinStep ==
  ASSUME mdev \in [Seqs -> Process], NEW n \in Seqs, NEW u \in Process, Step(n, u), scan' = scan,
         Within, u.pc \in {"none", "done"} \/ Placed(u)
  PROVE  Within'
  <1>1. /\ conf' = conf /\ mdev'[n] = u /\ \A m \in Seqs : m # n => mdev'[m] = mdev[m]
    BY Stepped
  <1>2. \A p : Placed(p)' <=> Placed(p)
    BY <1>1, PlacedSame
  <1>3. ASSUME NEW m \in Alive'  PROVE  Placed(mdev[m])'
    <2>1. m \in Seqs /\ (m # n => m \in Alive) /\ (m = n => u.pc \notin {"none", "done"})
      BY <1>1, <1>3 DEF Alive
    <2>2. PICK p : p = mdev'[m]
      OBVIOUS
    <2>3. Placed(p)
      BY <1>1, <2>1, <2>2 DEF Within
    <2> QED  BY <1>2, <2>2, <2>3
  <1>4. \A d, major, k : Clear(d, major, k)' <=> Clear(d, major, k)
    BY <1>1, RulesSame
  <1> QED  BY <1>3, <1>4 DEF Within

LEMMA WithinMdev ==
  ASSUME TypeOK, Known, Within, NEW n \in Seqs, Mdev(n) \/ Killed(n)
  PROVE  Within'
  <1>1. mdev \in [Seqs -> Process] /\ conf \in Confs /\ 1 \in 1..Len(AllRules)
    BY TypeParts, RulesType DEF Known
  <1>2. CASE \/ NoSeqfile(n) \/ SeesSeed(n) \/ WritesSeed(n) \/ SeesTurn(n) \/ SeesLater(n)
             \/ SeesEarlier(n) \/ Woken(n) \/ TimesOut(n)
    <2>1. PICK u \in Process : Waits(n, u)
      BY <1>2, WaitFacts
    <2>2. Placed(mdev[n])
      BY <2>1 DEF Waits, Early, Alive, Within
    <2>3. Placed(u)
      BY <2>1, <2>2 DEF Waits, Placed, Early
    <2> QED  BY <1>1, <2>1, <2>3, WithinStep DEF Waits
  <1>3. CASE OpensDev(n)
    <2>1. PICK d \in Devs, num \in {None} \cup Nums, u \in Process : Opens(n, d, num, u)
      BY <1>3, OpensFacts
    <2>2. \A x : Clear(d, x, 1)
      BY <1>1, RulesType DEF Clear
    <2>3. Placed(u)
      BY <2>1, <2>2 DEF Opens, Placed, Early
    <2> QED  BY <1>1, <2>1, <2>3, WithinStep DEF Opens
  <1>4. CASE AppliesRule(n)
    <2>1. PICK d \in Devs, k \in 1..Len(AllRules), j \in 1..Len(AllRules), u \in Process :
            Applies(n, d, k, j, u)
      BY <1>4, RuleFacts
    <2>2. PICK major : major = mdev[n].major
      OBVIOUS
    <2>3. u.pc = "rules" => /\ u.major = IF AllRules[j].ren = "!" THEN -2 ELSE major
                            /\ AllRules[j].keep /\ u.rule = j + 1
      BY <2>1, <2>2 DEF Applies, Major
    <2>4. u.pc = "rules" /\ u.major # -2 => Clear(d, major, j + 1)
      <3>1. major # -2 => Clear(d, major, k) /\ j = NextMatch(k, d, major)
        BY <2>1, <2>2 DEF Applies
      <3>2. major # -2 /\ AllRules[j].keep /\ AllRules[j].ren # "!" => Clear(d, major, j + 1)
        BY <1>1, <3>1, NextApplied
      <3> QED  BY <2>3, <3>2
    <2>5. Placed(u)
      <3>1. u.pc \in {"rules", "exit"} /\ u.dev = d /\ u.op = mdev[n].op
        BY <2>1 DEF Applies
      <3>2. IF mdev[n].op = "add" THEN major \in Nums \cup {-2} ELSE major \in {-1, -2}
        BY <2>1, <2>2 DEF Applies
      <3> QED  BY <2>3, <2>4, <3>1, <3>2 DEF Placed, Early
    <2> QED  BY <1>1, <1>4, <2>1, <2>5, WithinStep DEF Applies, AppliesRule
  <1>5. CASE Exits(n) \/ SignalsMdevs(n) \/ Killed(n)
    <2>1. PICK u \in Process : Step(n, u) /\ scan' = scan /\ u.pc \in {"done", "signal"}
      BY <1>5, EndFacts
    <2>2. u.pc \in {"none", "done"} \/ Placed(u)
      BY <2>1 DEF Placed, Early
    <2> QED  BY <1>1, <2>1, <2>2, WithinStep
  <1> QED  BY <1>2, <1>3, <1>4, <1>5 DEF Mdev

LEMMA WithinEvent ==
  ASSUME TypeOK, Known, Within, NEW op \in {"add", "remove", "change"}, NEW d \in Devs, Event(op, d)
  PROVE  Within'
  <1>1. mdev \in [Seqs -> Process] /\ seqnum \in Seqs /\ scan' = scan /\ NotStarted \in Process
    BY TypeParts, DoneType DEF Event, Known
  <1>2. PICK u : u = [NotStarted EXCEPT !.pc = "read", !.op = op, !.dev = d]
    OBVIOUS
  <1>3. u \in Process /\ u.pc = "read" /\ u.major = -1 /\ u.rule = 1 /\ Step(seqnum, u)
    <2>1. NotStarted.major = -1 /\ NotStarted.rule = 1
      BY DEF NotStarted
    <2> QED  BY <1>1, <1>2, <2>1 DEF Process, Locs, Event
  <1>4. Placed(u)
    BY <1>3 DEF Placed
  <1> QED  BY <1>1, <1>3, <1>4, WithinStep

LEMMA WithinScan ==
  ASSUME TypeOK, Known, Within, ScanAppliesRule \/ \E d \in Devs : ScanOpens(d)
  PROVE  Within'
  <1>1. conf' = conf /\ mdev' = mdev /\ conf \in Confs
    BY DEF ScanAppliesRule, ScanOpens, Known
  <1>2. \A d, major, k : Clear(d, major, k)' <=> Clear(d, major, k)
    BY <1>1, RulesSame
  <1>3. \A n \in Alive' : Placed(mdev[n])'
    <2>1. Alive' = Alive /\ \A p : Placed(p)' <=> Placed(p)
      BY <1>1, PlacedSame DEF Alive
    <2> QED  BY <1>1, <2>1 DEF Within
  <1>4. CASE \E d \in Devs : ScanOpens(d)
    <2>1. PICK d \in Devs : ScanOpens(d)
      BY <1>4
    <2>2. PICK num \in {None} \cup Nums : num = sys[d]
      BY DEF TypeOK
    <2>3. scan'.dev = (IF num = None THEN NoDev ELSE d) /\ scan'.major = num /\ scan'.rule = 1
      BY <2>1, <2>2 DEF ScanOpens, Idle
    <2>4. \A e, x : Clear(e, x, 1)
      BY <1>1, RulesType DEF Clear
    <2> QED  BY <1>2, <1>3, <2>3, <2>4 DEF Within
  <1>5. CASE ScanAppliesRule
    <2>1. PICK d \in Devs, k \in 1..Len(AllRules), j \in 1..Len(AllRules) : ScanApplies(d, k, j)
      BY <1>5, ScanFacts
    <2>2. CASE ~AllRules[j].keep
      BY <1>3, <2>1, <2>2 DEF Within, ScanApplies
    <2>3. CASE AllRules[j].keep
      <3>1. PICK major \in Nums \cup {-2} : major = scan.major
        BY <2>1 DEF ScanApplies
      <3>2. /\ scan'.dev = d /\ scan'.rule = j + 1
            /\ scan'.major = IF AllRules[j].ren = "!" THEN -2 ELSE major
        BY <2>1, <2>3, <3>1 DEF ScanApplies, Major
      <3>3. major # -2 => Clear(d, major, k) /\ j = NextMatch(k, d, major)
        BY <2>1, <3>1 DEF ScanApplies
      <3>4. major # -2 /\ AllRules[j].ren # "!" => Clear(d, major, j + 1)
        BY <1>1, <2>3, <3>3, NextApplied
      <3> QED  BY <1>2, <1>3, <3>1, <3>2, <3>4 DEF Within
    <2> QED  BY <2>2, <2>3
  <1> QED  BY <1>4, <1>5

LEMMA InitNodes == Init => NodesInv
  <1> SUFFICES ASSUME Init  PROVE  NodesInv
    OBVIOUS
  <1>1. \A n \in Seqs : mdev[n].pc = "none"
    BY DEF Init, NotStarted
  <1>2. Alive = {} /\ scan.dev = NoDev /\ conf \in Confs /\ NoDev \notin Devs
    BY <1>1, MdevAssumption DEF Alive, Init, Idle
  <1>3. Within
    BY <1>2 DEF Within
  <1>4. ASSUME NEW d \in Devs  PROVE  Match(d)
    <2>1. Mine(d) = {} /\ Todo(d) = {}
      BY <1>2 DEF Mine, Todo
    <2>2. Nodes(d) = {}
      BY <1>2, NamesFor DEF Nodes, Init
    <2>3. Scanned(d) /\ InTurn(d) /\ Alternate(d) /\ Agrees(d)
      BY <1>2, <2>1 DEF Scanned, InTurn, Alternate, Agrees
    <2>4. Settled(d)
      <3>1. sys[d] # None => trust[d] # "sure"
        BY DEF Init
      <3>2. \A x : Partly(d, x, 1)
        BY <1>2, <2>2, UptoEnds DEF Partly
      <3> QED  BY <2>2, <3>1, <3>2 DEF Settled
    <2> QED  BY <2>1, <2>3, <2>4 DEF Match
  <1> QED  BY <1>3, <1>4 DEF NodesInv

LEMMA NextNodes == TypeOK /\ Known /\ Order /\ NodesInv /\ [Next]_vars => NodesInv'
  <1> SUFFICES ASSUME TypeOK, Known, Order, NodesInv, [Next]_vars  PROVE  NodesInv'
    OBVIOUS
  <1>1. Within /\ Serialized
    BY DEF NodesInv, Order
  <1>2. ASSUME NEW op \in {"add", "remove", "change"}, NEW d \in Devs, Event(op, d),
               \A e \in Devs : e # d => sys'[e] = sys[e],
               op = "add" => sys[d] = None /\ sys'[d] # None,
               op = "remove" => sys[d] # None /\ sys'[d] = None,
               op = "change" => sys'[d] = sys[d]
        PROVE  NodesInv'
    <2>1. Within'
      BY <1>1, <1>2, WithinEvent
    <2>2. conf' = conf
      BY <1>2 DEF Event, Step
    <2>3. ASSUME NEW e \in Devs, Match(e)  PROVE  Match(e)'
      BY <1>2, <2>3, EventMatch
    <2> QED  BY <2>1, <2>2, <2>3, RulesSame DEF NodesInv
  <1>3. ASSUME NEW d \in Devs, \/ Unplug(d) \/ Change(d) \/ \E num \in Nums : Plug(d, num)
        PROVE  NodesInv'
    <2>1. sys \in [Devs -> {None} \cup Nums] /\ \A num \in Nums : num # None
      BY MdevAssumption DEF TypeOK, None
    <2>2. CASE Unplug(d)
      BY <1>2, <2>1, <2>2 DEF Unplug
    <2>3. CASE Change(d)
      BY <1>2, <2>1, <2>3 DEF Change
    <2>4. CASE \E num \in Nums : Plug(d, num)
      BY <1>2, <2>1, <2>4 DEF Plug
    <2> QED  BY <1>3, <2>2, <2>3, <2>4
  <1>4. ASSUME NEW n \in Seqs, Mdev(n) \/ Killed(n)  PROVE  NodesInv'
    <2>1. Within'
      BY <1>1, <1>4, WithinMdev
    <2>2. conf' = conf
      BY <1>4 DEF Mdev, NoSeqfile, SeesSeed, WritesSeed, SeesTurn, SeesLater, SeesEarlier, Woken,
           TimesOut, OpensDev, AppliesRule, Exits, SignalsMdevs, Killed, GoesOn, Step
    <2>3. ASSUME Tidy, NEW e \in Devs, Match(e)  PROVE  Match(e)'
      <3>1. CASE \/ NoSeqfile(n) \/ SeesSeed(n) \/ WritesSeed(n) \/ SeesTurn(n) \/ SeesLater(n)
                 \/ SeesEarlier(n) \/ Woken(n) \/ TimesOut(n)
        <4>1. PICK u \in Process : Waits(n, u)
          BY <3>1, WaitFacts
        <4> QED  BY <2>3, <4>1, WaitMatch
      <3>2. CASE OpensDev(n)
        <4>1. PICK d \in Devs, num \in {None} \cup Nums, u \in Process : Opens(n, d, num, u)
          BY <1>1, <3>2, OpensFacts
        <4> QED  BY <1>1, <2>3, <4>1, OpensMatch
      <3>3. CASE AppliesRule(n)
        <4>1. PICK d \in Devs, k \in 1..Len(AllRules), j \in 1..Len(AllRules), u \in Process :
                Applies(n, d, k, j, u)
          BY <1>1, <3>3, RuleFacts
        <4>2. scan' = scan /\ ordered' = ordered /\ sys' = sys /\ trust' = trust
          BY <3>3 DEF AppliesRule, kernel
        <4>3. CASE e = d
          BY <1>1, <2>3, <4>1, <4>2, <4>3, AppliesOwn
        <4>4. CASE e # d
          <5>1. \A x \in NodesFor(e, -1) : nodes'[x] = nodes[x]
            BY <2>3, <4>1, <4>4, AppliesOthers
          <5>2. /\ Step(n, u) /\ u.dev = d /\ u.dev = mdev[n].dev /\ n \in Alive
                /\ mdev \in [Seqs -> Process]
            BY <4>1, TypeParts DEF Applies, Alive
          <5>3. n \notin Mine(e)
            BY <4>4, <5>2 DEF Mine
          <5>4. trust'[e] # "unsure" => InTurn(e)'
            BY <2>3, <4>2, <5>2, MineStep DEF Match
          <5> QED  BY <2>3, <4>2, <4>4, <5>1, <5>2, <5>3, <5>4, Bystander
        <4> QED  BY <4>3, <4>4
      <3>4. CASE Exits(n) \/ SignalsMdevs(n) \/ Killed(n)
        BY <2>3, <3>4, EndsMatch
      <3> QED  BY <1>4, <3>1, <3>2, <3>3, <3>4 DEF Mdev
    <2> QED  BY <2>1, <2>2, <2>3, RulesSame DEF NodesInv
  <1>5. CASE ScanAppliesRule \/ \E d \in Devs : ScanOpens(d)
    <2>1. Within'
      BY <1>1, <1>5, WithinScan
    <2>2. conf' = conf
      BY <1>5 DEF ScanAppliesRule, ScanOpens
    <2>3. ASSUME Tidy, NEW e \in Devs, Match(e)  PROVE  Match(e)'
      <3>1. CASE ScanAppliesRule
        <4>1. PICK d \in Devs, k \in 1..Len(AllRules), j \in 1..Len(AllRules) : ScanApplies(d, k, j)
          BY <1>1, <3>1, ScanFacts
        <4> QED  BY <2>3, <4>1, ScanAppliesMatch
      <3>2. CASE \E d \in Devs : ScanOpens(d)
        BY <2>3, <3>2, ScanOpensMatch
      <3> QED  BY <1>5, <3>1, <3>2
    <2> QED  BY <2>1, <2>2, <2>3, RulesSame DEF NodesInv
  <1>6. CASE UNCHANGED vars
    <2>1. /\ conf' = conf /\ mdev' = mdev /\ scan' = scan /\ sys' = sys /\ nodes' = nodes
          /\ ordered' = ordered /\ trust' = trust
      BY <1>6 DEF vars, kernel
    <2>2. /\ Alive' = Alive /\ \A p : Placed(p)' <=> Placed(p)
          /\ \A d, major, k : Clear(d, major, k)' <=> Clear(d, major, k)
      BY <2>1, PlacedSame, RulesSame DEF Alive
    <2>3. Within'
      <3>1. \A n \in Alive' : Placed(mdev[n])'
        BY <1>1, <2>1, <2>2 DEF Within
      <3> QED  BY <1>1, <2>1, <2>2, <3>1 DEF Within
    <2>4. ASSUME NEW e \in Devs, Match(e)  PROVE  Match(e)'
      <3>1. trust'[e] # "unsure" => Scanned(e)'
        <4>1. Mine(e)' = Mine(e) /\ Nodes(e)' = Nodes(e) /\ End' = End
              /\ \A num, k : Upto(e, num, k)' = Upto(e, num, k)
          BY <2>1, <2>2, ViewSame, RulesSame DEF Mine
        <4>2. trust[e] # "unsure" => Scanned(e)
          BY <2>4 DEF Match
        <4> QED  BY <2>1, <4>1, <4>2 DEF Scanned, Pos
      <3> QED  BY <2>1, <2>4, <3>1, ScanStep
    <2> QED  BY <2>1, <2>3, <2>4, RulesSame DEF NodesInv
  <1> QED  BY <1>3, <1>4, <1>5, <1>6 DEF Next

\* If nobody uses a device whose nodes are sure, they are settled.
LEMMA NodesAre == TypeOK /\ Known /\ NodesInv => NodesMatch
  <1> SUFFICES ASSUME TypeOK, Known, NodesInv, Tidy, NEW d \in Devs, Users(d) = 0, trust[d] = "sure"
               PROVE  NodesRight(d)
    BY DEF NodesMatch
  <1>1. Match(d) /\ Todo(d) = {}
    BY UsersFew DEF NodesInv, Todo
  <1>2. Settled(d)
    BY <1>1 DEF Match
  <1>3. CASE sys[d] = None
    BY <1>2, <1>3 DEF Settled, NodesRight
  <1>4. CASE sys[d] # None
    <2>1. PICK num \in Nums : num = sys[d]
      BY <1>4 DEF TypeOK
    <2>2. Upto(d, num, End) = NodesFor(d, num)
      BY UptoEnds DEF Known
    <2>3. /\ Nodes(d) = NodesFor(d, num) /\ \A x \in Nodes(d) : nodes[x] \in {num, Link}
          /\ Nodes(d) # {} => \E x \in Nodes(d) : nodes[x] = num
      BY <1>2, <1>4, <2>1, <2>2 DEF Settled, Partly
    <2>4. Nodes(d) # {} => {nodes[x] : x \in Nodes(d)} \in {{num}, {num, Link}}
      BY <2>3
    <2> QED  BY <1>4, <2>1, <2>3, <2>4 DEF NodesRight
  <1> QED  BY <1>3, <1>4

\* make_device(): whatever is plugged and unplugged, and at whatever time mdev
\* -s comes by, a device has exactly the nodes its rules name, with its number,
\* when no mdev works on it, unless one of its mdevs was killed or two of them
\* ran out of turn.
THEOREM NodesCorrect == Spec => []NodesMatch
  <1> QED  BY InitType, NextType, InitOrder, NextOrder, InitNodes, NextNodes, NodesAre, PTL DEF Spec
=============================================================================
