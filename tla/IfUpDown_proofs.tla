-------------------------- MODULE IfUpDown_proofs --------------------------
(***************************************************************************)
(* What is proved of ifup and ifdown and their state file, for any number  *)
(* of processes, interfaces, stanzas and commands.                         *)
(***************************************************************************)
EXTENDS IfUpDown, SequenceTheorems, FiniteSetTheorems, WellFoundedInduction, TLAPS

Line == Ifaces \X Logicals

\* Every interface has one line at most.
Unique(list) == \A m, n \in 1..Len(list) : list[m][1] = list[n][1] => m = n

\* What a list says of an interface.
Says(list, i) == LET n == FindIfaceState(list, i) IN IF n = 0 THEN None ELSE list[n][2]

-----------------------------------------------------------------------------
(* Lists of lines.                                                         *)
\* A set of naturals has a least element.
LEMMA Least ==
  ASSUME NEW T \in SUBSET Nat, T # {}
  PROVE  \E x \in T : \A y \in T : x <= y
  <1> DEFINE R == {ss \in Nat \X Nat : ss[1] < ss[2]}
  <1>1. IsWellFoundedOn(R, Nat)
    BY NatLessThanWellFounded DEF OpToRel
  <1> HIDE DEF R
  <1>2. PICK x \in T : \A y \in T : ~(<<y, x>> \in R)
    BY <1>1, WFMin
  <1>3. ASSUME NEW y \in T  PROVE  x <= y
    <2>1. x \in Nat /\ y \in Nat
      OBVIOUS
    <2>2. ~(y < x)
      BY <1>2, <2>1 DEF R
    <2> QED  BY <2>1, <2>2
  <1> QED  BY <1>3

\* find_iface_state() returns a line for the interface if there is one.
LEMMA Found ==
  ASSUME NEW list \in Seq(Line), NEW i
  PROVE  LET n == FindIfaceState(list, i)
         IN \/ n = 0 /\ \A m \in 1..Len(list) : list[m][1] # i
            \/ n \in 1..Len(list) /\ list[n][1] = i
  <1> DEFINE T == Lines(list, i)
             Good(n) == \A m \in T : n <= m
  <1>1. CASE T = {}
    BY <1>1 DEF FindIfaceState, Lines
  <1>2. CASE T # {}
    <2>1. T \in SUBSET Nat /\ T \subseteq 1..Len(list) /\ \A n \in T : list[n][1] = i
      BY DEF Lines
    <2>2. PICK x \in T : Good(x)
      BY <1>2, <2>1, Least
    <2>3. FindIfaceState(list, i) = CHOOSE n \in T : Good(n)
      BY <1>2 DEF FindIfaceState
    <2> HIDE DEF T, Good
    <2>4. FindIfaceState(list, i) \in T
      BY <2>2, <2>3
    <2> QED  BY <2>1, <2>4
  <1> QED  BY <1>1, <1>2

\* With one line for each, the list says what that line says.
LEMMA SaysLine ==
  ASSUME NEW list \in Seq(Line), Unique(list)
  PROVE  /\ \A n \in 1..Len(list) : Says(list, list[n][1]) = list[n][2]
         /\ \A i : (\A n \in 1..Len(list) : list[n][1] # i) => Says(list, i) = None
  <1>1. ASSUME NEW n \in 1..Len(list)  PROVE  Says(list, list[n][1]) = list[n][2]
    <2> DEFINE k == FindIfaceState(list, list[n][1])
    <2>1. k \in 1..Len(list) /\ list[k][1] = list[n][1]
      BY Found
    <2>2. k = n
      BY <2>1 DEF Unique
    <2>3. n # 0
      OBVIOUS
    <2> QED  BY <2>2, <2>3 DEF Says
  <1>2. ASSUME NEW i, \A n \in 1..Len(list) : list[n][1] # i  PROVE  Says(list, i) = None
    <2>1. FindIfaceState(list, i) = 0
      BY <1>2, Found
    <2> QED  BY <2>1 DEF Says
  <1> QED  BY <1>1, <1>2

\* Lists with the same lines for an interface say the same of it.
LEMMA SaysAgree ==
  ASSUME NEW L \in Seq(Line), NEW M \in Seq(Line), Unique(L), Unique(M), NEW i,
         \A n \in 1..Len(L) : L[n][1] = i => \E m \in 1..Len(M) : L[n] = M[m],
         \A m \in 1..Len(M) : M[m][1] = i => \E n \in 1..Len(L) : L[n] = M[m]
  PROVE  Says(L, i) = Says(M, i)
  <1>1. CASE \E n \in 1..Len(L) : L[n][1] = i
    <2>1. PICK n \in 1..Len(L) : L[n][1] = i
      BY <1>1
    <2>2. PICK m \in 1..Len(M) : L[n] = M[m]
      BY <2>1
    <2>3. Says(L, i) = L[n][2] /\ Says(M, i) = M[m][2]
      BY <2>1, <2>2, SaysLine
    <2> QED  BY <2>2, <2>3
  <1>2. CASE \A n \in 1..Len(L) : L[n][1] # i
    <2>1. \A m \in 1..Len(M) : M[m][1] # i
      BY <1>2
    <2> QED  BY <1>2, <2>1, SaysLine
  <1> QED  BY <1>1, <1>2

\* read_iface_state() turns the list around, which says the same.
LEMMA SaysReverse ==
  ASSUME NEW list \in Seq(Line)
  PROVE  /\ Reverse(list) \in Seq(Line) /\ Len(Reverse(list)) = Len(list)
         /\ Unique(list) => Unique(Reverse(list)) /\ \A i : Says(Reverse(list), i) = Says(list, i)
  <1> DEFINE len == Len(list)
             rev == Reverse(list)
  <1>1. len \in Nat /\ \A n \in 1..len : list[n] \in Line /\ len + 1 - n \in 1..len
    OBVIOUS
  <1>2. rev \in [1..len -> Line] /\ \A n \in 1..len : rev[n] = list[len + 1 - n]
    BY <1>1 DEF Reverse
  <1>3. rev \in Seq(Line) /\ Len(rev) = len
    BY <1>1, <1>2
  <1> HIDE DEF rev, len
  <1>4. ASSUME Unique(list)  PROVE  Unique(rev) /\ \A i : Says(rev, i) = Says(list, i)
    <2>1. Unique(rev)
      <3> SUFFICES ASSUME NEW m \in 1..len, NEW n \in 1..len, rev[m][1] = rev[n][1]  PROVE  m = n
        BY <1>3 DEF Unique
      <3>2. len + 1 - m \in 1..len /\ len + 1 - n \in 1..len
        BY <1>1
      <3>3. list[len + 1 - m][1] = list[len + 1 - n][1]
        BY <1>2
      <3>1. len + 1 - m = len + 1 - n
        BY <1>4, <3>2, <3>3 DEF Unique, len
      <3> QED  BY <1>1, <3>1
    <2>2. ASSUME NEW i  PROVE  Says(rev, i) = Says(list, i)
      <3>1. \A n \in 1..len : \E m \in 1..len : rev[n] = list[m]
        BY <1>1, <1>2
      <3>2. ASSUME NEW n \in 1..len  PROVE  \E m \in 1..len : rev[m] = list[n]
        <4>1. len + 1 - n \in 1..len /\ len + 1 - (len + 1 - n) = n
          BY <1>1
        <4> QED  BY <1>2, <4>1
      <3>3. \A n \in 1..Len(rev) : rev[n][1] = i => \E m \in 1..Len(list) : rev[n] = list[m]
        BY <1>3, <3>1 DEF len
      <3>4. \A m \in 1..Len(list) : list[m][1] = i => \E n \in 1..Len(rev) : rev[n] = list[m]
        BY <1>3, <3>2 DEF len
      <3> QED  BY <1>3, <1>4, <2>1, <3>3, <3>4, SaysAgree
    <2> QED  BY <2>1, <2>2
  <1> QED  BY <1>3, <1>4 DEF rev, len

\* A line is put in the place of the interface's line, or at the end.
Put(list, i, l) ==
  LET n == FindIfaceState(list, i)
  IN IF n = 0 THEN Append(list, <<i, l>>) ELSE [list EXCEPT ![n] = <<i, l>>]
\* The interface's line is taken out.
Cut(list, i) ==
  LET n == FindIfaceState(list, i)
  IN IF n = 0 THEN list ELSE SubSeq(list, 1, n - 1) \o SubSeq(list, n + 1, Len(list))

\* After that the list says l of i, and of the others what it said before.
LEMMA SaysPut ==
  ASSUME NEW list \in Seq(Line), NEW i \in Ifaces, NEW l \in Logicals
  PROVE  /\ Put(list, i, l) \in Seq(Line)
         /\ Unique(list) =>
              /\ Unique(Put(list, i, l))
              /\ Says(Put(list, i, l), i) = l
              /\ \A j : j # i => Says(Put(list, i, l), j) = Says(list, j)
  <1> DEFINE n == FindIfaceState(list, i)
             len == Len(list)
             res == Put(list, i, l)
             line == <<i, l>>
  <1>1. /\ line \in Line /\ len \in Nat /\ line[1] = i /\ line[2] = l
        /\ \A m \in 1..len : list[m] \in Line
    BY DEF Line
  <1> HIDE DEF line
  <1>2. CASE n = 0
    <2>1. \A m \in 1..len : list[m][1] # i
      BY <1>2, Found
    <2>2. res = Append(list, line)
      BY <1>2 DEF Put, line
    <2>3. res \in Seq(Line) /\ Len(res) = len + 1
      BY <1>1, <2>2
    <2>4. res[len + 1] = line /\ \A m \in 1..len : res[m] = list[m]
      BY <1>1, <2>2
    <2>5. len + 1 \in 1..(len + 1) /\ \A m \in 1..(len + 1) : m = len + 1 \/ m \in 1..len
      BY <1>1
    <2> HIDE DEF res, len, n
    <2>6. ASSUME Unique(list)
          PROVE  Unique(res) /\ Says(res, i) = l /\ \A j : j # i => Says(res, j) = Says(list, j)
      <3>1. Unique(res)
        BY <1>1, <2>1, <2>3, <2>4, <2>5, <2>6 DEF Unique, len
      <3>2. Says(res, i) = l
        BY <1>1, <2>3, <2>4, <2>5, <3>1, SaysLine
      <3>3. ASSUME NEW j, j # i  PROVE  Says(res, j) = Says(list, j)
        <4>1. \A m \in 1..(len + 1) : res[m][1] = j => \E k \in 1..len : res[m] = list[k]
          BY <1>1, <2>4, <2>5, <3>3
        <4>2. \A k \in 1..len : list[k][1] = j => \E m \in 1..(len + 1) : res[m] = list[k]
          BY <1>1, <2>4
        <4> QED  BY <2>3, <2>6, <3>1, <4>1, <4>2, SaysAgree DEF len
      <3> QED  BY <3>1, <3>2, <3>3
    <2> QED  BY <2>3, <2>6 DEF res
  <1>3. CASE n # 0
    <2>1. n \in 1..len /\ list[n][1] = i
      BY <1>3, Found
    <2>2. res = [list EXCEPT ![n] = line]
      BY <1>3 DEF Put, line
    <2> HIDE DEF n
    <2>3. res \in Seq(Line) /\ Len(res) = len
      BY <1>1, <2>1, <2>2
    <2>4. res[n] = line /\ \A m \in 1..len : m # n => res[m] = list[m]
      BY <1>1, <2>1, <2>2
    <2> HIDE DEF res, len
    <2>6. ASSUME Unique(list)
          PROVE  Unique(res) /\ Says(res, i) = l /\ \A j : j # i => Says(res, j) = Says(list, j)
      <3>1. Unique(res)
        <4> SUFFICES ASSUME NEW a \in 1..len, NEW b \in 1..len, res[a][1] = res[b][1]
                     PROVE  a = b
          BY <2>3 DEF Unique
        <4>1. list[a][1] = res[a][1] /\ list[b][1] = res[b][1]
          BY <1>1, <2>1, <2>4
        <4> QED  BY <2>6, <4>1 DEF Unique, len
      <3>2. Says(res, i) = l
        BY <1>1, <2>1, <2>3, <2>4, <3>1, SaysLine
      <3>3. ASSUME NEW j, j # i  PROVE  Says(res, j) = Says(list, j)
        <4>1. \A m \in 1..len : res[m][1] = j => \E k \in 1..len : res[m] = list[k]
          BY <1>1, <2>4, <3>3
        <4>2. \A k \in 1..len : list[k][1] = j => \E m \in 1..len : res[m] = list[k]
          BY <2>1, <2>4, <3>3
        <4> QED  BY <2>3, <2>6, <3>1, <4>1, <4>2, SaysAgree DEF len
      <3> QED  BY <3>1, <3>2, <3>3
    <2> QED  BY <2>3, <2>6 DEF res
  <1> QED  BY <1>2, <1>3

\* After that it says nothing of i.
LEMMA SaysCut ==
  ASSUME NEW list \in Seq(Line), NEW i \in Ifaces
  PROVE  /\ Cut(list, i) \in Seq(Line)
         /\ Unique(list) =>
              /\ Unique(Cut(list, i))
              /\ Says(Cut(list, i), i) = None
              /\ \A j : j # i => Says(Cut(list, i), j) = Says(list, j)
  <1> DEFINE n == FindIfaceState(list, i)
             len == Len(list)
             res == Cut(list, i)
  <1>1. CASE n = 0
    <2>1. \A m \in 1..len : list[m][1] # i
      BY <1>1, Found
    <2>2. res = list
      BY <1>1 DEF Cut
    <2> QED  BY <2>1, <2>2, SaysLine
  <1>2. CASE n # 0
    <2>1. n \in 1..len /\ list[n][1] = i /\ len \in Nat
      BY <1>2, Found
    <2>2. res = SubSeq(list, 1, n - 1) \o SubSeq(list, n + 1, len)
      BY <1>2 DEF Cut
    <2> HIDE DEF n
    <2> DEFINE a == SubSeq(list, 1, n - 1)
               b == SubSeq(list, n + 1, len)
    <2>3. /\ a \in Seq(Line) /\ Len(a) = n - 1 /\ \A m \in 1..(n - 1) : a[m] = list[m]
          /\ b \in Seq(Line) /\ Len(b) = len - n /\ \A m \in 1..(len - n) : b[m] = list[n + m]
      <3>1. n - 1 \in Int /\ n + 1 \in Int /\ 1..(n - 1) \subseteq 1..len /\ (n + 1)..len \subseteq 1..len
        BY <2>1
      <3>2. /\ a \in Seq(Line) /\ Len(a) = n - 1 /\ \A m \in 1..(n - 1) : a[m] = list[m]
        BY <2>1, <3>1
      <3>3. /\ b \in Seq(Line) /\ Len(b) = len - n /\ \A m \in 1..(len - n) : b[m] = list[n + m]
        BY <2>1, <3>1
      <3> QED  BY <3>2, <3>3
    <2>7. res = a \o b
      BY <2>2
    <2> HIDE DEF res, a, b, len
    <2>4. res \in Seq(Line) /\ Len(res) = len - 1
      BY <2>1, <2>3, <2>7
    <2>5. \A m \in 1..(len - 1) : res[m] = IF m < n THEN list[m] ELSE list[m + 1]
      <3> SUFFICES ASSUME NEW m \in 1..(len - 1)
                   PROVE  res[m] = IF m < n THEN list[m] ELSE list[m + 1]
        OBVIOUS
      <3>1. CASE m < n
        <4>1. m \in 1..(n - 1)
          BY <2>1, <3>1
        <4> QED  BY <2>1, <2>3, <2>7, <3>1, <4>1
      <3>2. CASE ~(m < n)
        <4>1. m - (n - 1) \in 1..(len - n) /\ n + (m - (n - 1)) = m + 1 /\ ~(m <= n - 1)
          BY <2>1, <3>2
        <4>3. m \in 1..(Len(a) + Len(b)) /\ ~(m <= Len(a)) /\ m - Len(a) = m - (n - 1)
          BY <2>1, <2>3, <4>1
        <4>2. res[m] = b[m - (n - 1)]
          BY <2>3, <2>7, <4>3, ConcatProperties
        <4> QED  BY <2>3, <3>2, <4>1, <4>2
      <3> QED  BY <3>1, <3>2
    <2> HIDE DEF res, len
    <2>6. ASSUME Unique(list)
          PROVE  Unique(res) /\ Says(res, i) = None /\ \A j : j # i => Says(res, j) = Says(list, j)
      <3>1. \A m \in 1..(len - 1) : \E k \in 1..len : res[m] = list[k] /\ k # n /\ k = IF m < n THEN m ELSE m + 1
        BY <2>1, <2>5
      <3>2. Unique(res)
        <4> SUFFICES ASSUME NEW v \in 1..(len - 1), NEW w \in 1..(len - 1), res[v][1] = res[w][1]
                     PROVE  v = w
          BY <2>4 DEF Unique
        <4>1. PICK x \in 1..len : res[v] = list[x] /\ x = IF v < n THEN v ELSE v + 1
          BY <3>1
        <4>2. PICK y \in 1..len : res[w] = list[y] /\ y = IF w < n THEN w ELSE w + 1
          BY <3>1
        <4>3. x = y
          BY <2>6, <4>1, <4>2 DEF Unique, len
        <4> QED  BY <2>1, <4>1, <4>2, <4>3
      <3>3. Says(res, i) = None
        <4>1. \A m \in 1..(len - 1) : res[m][1] # i
          BY <2>1, <2>6, <3>1 DEF Unique, len
        <4> QED  BY <2>4, <3>2, <4>1, SaysLine
      <3>4. ASSUME NEW j, j # i  PROVE  Says(res, j) = Says(list, j)
        <4>1. \A m \in 1..(len - 1) : res[m][1] = j => \E k \in 1..len : res[m] = list[k]
          BY <3>1
        <4>2. ASSUME NEW k \in 1..len, list[k][1] = j  PROVE  \E m \in 1..(len - 1) : res[m] = list[k]
          <5>1. k # n
            BY <2>1, <3>4, <4>2
          <5>2. CASE k < n
            BY <2>1, <2>5, <5>2
          <5>3. CASE k > n
            <6>1. k - 1 \in 1..(len - 1) /\ ~(k - 1 < n) /\ (k - 1) + 1 = k
              BY <2>1, <5>3
            <6> QED  BY <2>5, <6>1
          <5> QED  BY <2>1, <5>1, <5>2, <5>3
        <4> QED  BY <2>4, <2>6, <3>2, <4>1, <4>2, SaysAgree DEF len
      <3> QED  BY <3>2, <3>3, <3>4
    <2> QED  BY <2>4, <2>6 DEF res
  <1> QED  BY <1>1, <1>2

-----------------------------------------------------------------------------
(* Type correctness.                                                       *)
Locs == {"idle", "check", "run", "open", "read", "write", "rename"}
AtWork == {"run", "open", "read", "write", "rename"}
Command == [up : BOOLEAN, force : BOOLEAN, todo : Seq(Line)]
Process ==
  [pc : Locs, cmd : Command, at : Line \cup {NoLine}, k : Nat, failure : BOOLEAN,
   cnt : 0..Waits, fd : {None, "new", "live", "gone"}, list : Seq(Line)]

\* A process that runs has an interface to go; once it works on it, k counts the
\* stanzas up to one after the last, and is there when the state file is written.
WellFormed ==
  {pr \in Process :
    /\ pr.pc # "idle" => pr.cmd.todo # << >>
    /\ pr.pc \in AtWork =>
         /\ pr.at \in Line /\ pr.k \in 1..(Stanzas[pr.at[2]] + 1)
         /\ pr.pc # "run" => pr.k > Stanzas[pr.at[2]]
    /\ pr.pc \notin AtWork => pr.at = NoLine /\ ~pr.failure /\ pr.k = 1 /\ pr.fd = None}

Files ==
  /\ live \in Seq(Line)
  /\ new \in [there : BOOLEAN, lines : Seq(Line)]
  /\ conf \in [Ifaces -> SUBSET (Logicals \X Nat)]
  /\ cmds \in 0..MaxCmds
  /\ want \in [Ifaces -> Logicals \cup {None}]
  /\ robbed \in BOOLEAN /\ raced \subseteq Ifaces /\ failed \subseteq Ifaces

Typed == proc \in [Procs -> WellFormed] /\ Files

LEMMA Bounds == MaxCmds \in Nat /\ Waits \in Nat
  BY IfUpDownAssumption

\* Typed is TypeOK, and what makes it inductive.
LEMMA TypedOK == Typed => TypeOK
  BY DEF Typed, Files, TypeOK, WellFormed, Process, Command, Line, Locs

\* The parts of a line are names.
LEMMA LineParts ==
  ASSUME NEW x \in Line
  PROVE  x[1] \in Ifaces /\ x[2] \in Logicals /\ x = <<x[1], x[2]>> /\ Stanzas[x[2]] \in Nat
         /\ x[1] # None /\ x[2] # None /\ x # NoLine
  BY IfUpDownAssumption DEF Line, NoLine

LEMMA IdleType == Idle \in WellFormed /\ Idle.pc = "idle"
  BY IfUpDownAssumption DEF Idle, WellFormed, Process, Command, Locs, AtWork

\* A command with interfaces to go on.
LEMMA CheckType ==
  ASSUME NEW c \in Command, c.todo # << >>
  PROVE  [Idle EXCEPT !.pc = "check", !.cmd = c] \in WellFormed
  <1> DEFINE u == [Idle EXCEPT !.pc = "check", !.cmd = c]
  <1>1. Idle \in Process
    BY IdleType DEF WellFormed
  <1>2. u \in Process
    BY <1>1 DEF Process, Locs
  <1>3. u.pc = "check" /\ u.cmd = c /\ u.at = NoLine /\ ~u.failure /\ u.k = 1 /\ u.fd = None
    BY DEF Idle
  <1> QED  BY <1>2, <1>3 DEF WellFormed, AtWork

\* What is left of a command.
LEMMA NextTargetType ==
  ASSUME NEW pr \in WellFormed, pr.pc # "idle"
  PROVE  NextTarget(pr) \in WellFormed /\ NextTarget(pr).pc \in {"idle", "check"}
  <1>1. pr.cmd \in Command /\ pr.cmd.todo # << >>
    BY DEF WellFormed, Process
  <1>2. Tail(pr.cmd.todo) \in Seq(Line)
    BY <1>1 DEF Command
  <1> DEFINE c == [pr.cmd EXCEPT !.todo = Tail(pr.cmd.todo)]
  <1>3. c \in Command /\ c.todo = Tail(pr.cmd.todo)
    BY <1>1, <1>2 DEF Command
  <1>4. CASE Tail(pr.cmd.todo) = << >>
    BY <1>4, IdleType DEF NextTarget
  <1>5. CASE Tail(pr.cmd.todo) # << >>
    <2>1. NextTarget(pr) = [Idle EXCEPT !.pc = "check", !.cmd = c]
      BY <1>5 DEF NextTarget
    <2> HIDE DEF c
    <2>2. NextTarget(pr) \in WellFormed
      BY <1>3, <1>5, <2>1, CheckType
    <2> QED  BY <2>1, <2>2 DEF Idle
  <1> QED  BY <1>4, <1>5

\* A step of one process, if what it becomes is known to be well formed,
LEMMA Stepped ==
  ASSUME proc \in [Procs -> WellFormed], NEW p \in Procs, NEW u \in WellFormed, Step(p, u)
  PROVE  /\ proc' \in [Procs -> WellFormed] /\ proc'[p] = u
         /\ \A q \in Procs : q # p => proc'[q] = proc[q]
  BY DEF Step

\* Written over other lines.
LEMMA OverType ==
  ASSUME NEW list \in Seq(Line), NEW lines \in Seq(Line)
  PROVE  Over(list, lines) \in Seq(Line) /\ (lines = << >> => Over(list, lines) = list)
  <1> DEFINE rest == SubSeq(lines, Len(list) + 1, Len(lines))
  <1>1. Len(list) \in Nat /\ Len(lines) \in Nat
    OBVIOUS
  <1>2. rest \in Seq(Line)
    BY <1>1
  <1>3. ASSUME lines = << >>  PROVE  rest = << >>
    BY <1>1, <1>3
  <1>4. Over(list, lines) = list \o rest
    BY DEF Over
  <1> HIDE DEF rest
  <1> QED  BY <1>2, <1>3, <1>4

\* What the last command on the interface records.
Result(pr) == IF pr.cmd.up /\ ~pr.failure THEN pr.at[2] ELSE None

\* The new list says that, and of the other interfaces what was read.
LEMMA UpdatedSays ==
  ASSUME NEW list \in Seq(Line), NEW p, proc[p].at \in Line
  PROVE  /\ Updated(list, p) \in Seq(Line)
         /\ Unique(list) =>
              /\ Unique(Updated(list, p))
              /\ Says(Updated(list, p), proc[p].at[1]) = Result(proc[p])
              /\ \A j : j # proc[p].at[1] => Says(Updated(list, p), j) = Says(list, j)
  <1> DEFINE i == proc[p].at[1]
             l == proc[p].at[2]
  <1>1. i \in Ifaces /\ l \in Logicals /\ proc[p].at = <<i, l>>
    BY LineParts
  <1>2. CASE proc[p].cmd.up /\ ~proc[p].failure
    <2>1. Updated(list, p) = Put(list, i, l) /\ Result(proc[p]) = l
      BY <1>1, <1>2 DEF Updated, Put, Result
    <2> HIDE DEF i, l
    <2> QED  BY <1>1, <2>1, SaysPut DEF i
  <1>3. CASE ~(proc[p].cmd.up /\ ~proc[p].failure)
    <2>1. Updated(list, p) = Cut(list, i) /\ Result(proc[p]) = None
      BY <1>3 DEF Updated, Cut, Result
    <2> HIDE DEF i, l
    <2> QED  BY <1>1, <2>1, SaysCut DEF i
  <1> QED  BY <1>2, <1>3

\* Recorded(i) is what the file says.
LEMMA RecordedSays ==
  ASSUME live \in Seq(Line)
  PROVE  /\ ReadIfaceState \in Seq(Line)
         /\ \A i : Recorded(i) = Says(ReadIfaceState, i)
         /\ Unique(live) => Unique(ReadIfaceState) /\ \A i : Recorded(i) = Says(live, i)
  <1>1. \A i : Recorded(i) = Says(ReadIfaceState, i)
    BY DEF Recorded, Says
  <1> QED  BY <1>1, SaysReverse DEF ReadIfaceState

LEMMA InitTyped == Init => Typed
  <1> SUFFICES ASSUME Init  PROVE  Typed
    OBVIOUS
  <1>1. proc \in [Procs -> WellFormed]
    BY IdleType DEF Init
  <1>2. live \in Seq(Line)
    <2>1. CASE live = << >>
      BY <2>1
    <2>2. CASE \E i \in Ifaces : live = << <<i, i>> >>
      <3>1. PICK i \in Ifaces : live = << <<i, i>> >>
        BY <2>2
      <3>2. <<i, i>> \in Line
        BY IfUpDownAssumption DEF Line
      <3> QED  BY <3>1, <3>2
    <2> QED  BY <2>1, <2>2 DEF Init
  <1>3. conf \in [Ifaces -> SUBSET (Logicals \X Nat)]
    <2>1. \A i \in Ifaces : AllOf(i) \subseteq Logicals \X Nat
      BY IfUpDownAssumption DEF AllOf
    <2> QED  BY <2>1 DEF Init
  <1>4. want \in [Ifaces -> Logicals \cup {None}]
    BY IfUpDownAssumption DEF Init
  <1>5. new \in [there : BOOLEAN, lines : Seq(Line)]
    BY DEF Init, NoFile
  <1>6. cmds \in 0..MaxCmds /\ robbed \in BOOLEAN /\ raced \subseteq Ifaces /\ failed \subseteq Ifaces
    <2>1. cmds = 0 /\ robbed = FALSE /\ raced = {} /\ failed = {}
      BY DEF Init
    <2>2. 0 \in 0..MaxCmds
      BY Bounds
    <2> QED  BY <2>1, <2>2, Zenon
  <1> QED  BY <1>1, <1>2, <1>3, <1>4, <1>5, <1>6 DEF Typed, Files

\* What a process that is at work has.
LEMMA AtWorkParts ==
  ASSUME Typed, NEW p \in Procs
  PROVE  /\ proc[p] \in WellFormed /\ proc[p] \in Process
         /\ proc[p].pc # "idle" => proc[p].cmd.todo # << >> /\ Head(proc[p].cmd.todo) \in Line
         /\ proc[p].pc \in AtWork =>
              /\ proc[p].at \in Line /\ proc[p].at[1] \in Ifaces /\ proc[p].at[2] \in Logicals
              /\ Stanzas[proc[p].at[2]] \in Nat /\ proc[p].k \in 1..(Stanzas[proc[p].at[2]] + 1)
              /\ proc[p].pc # "run" => proc[p].k > Stanzas[proc[p].at[2]]
         /\ proc[p].pc \notin AtWork => proc[p].at = NoLine
  <1>1. proc[p] \in WellFormed /\ proc[p] \in Process
    BY DEF Typed, WellFormed
  <1>2. proc[p].pc # "idle" => proc[p].cmd.todo # << >> /\ Head(proc[p].cmd.todo) \in Line
    BY <1>1 DEF WellFormed, Process, Command
  <1>3. proc[p].pc \notin AtWork => proc[p].at = NoLine
    BY <1>1 DEF WellFormed
  <1>4. proc[p].pc \in AtWork =>
          /\ proc[p].at \in Line /\ proc[p].k \in 1..(Stanzas[proc[p].at[2]] + 1)
          /\ proc[p].pc # "run" => proc[p].k > Stanzas[proc[p].at[2]]
    BY <1>1 DEF WellFormed
  <1> QED  BY <1>1, <1>2, <1>3, <1>4, LineParts

\* A process goes on with the interface it works on.
LEMMA GoesOnType ==
  ASSUME NEW pr \in WellFormed, pr.pc \in AtWork, NEW u \in Process, u.pc \in AtWork,
         u.cmd = pr.cmd, u.at = pr.at, u.k \in 1..(Stanzas[pr.at[2]] + 1),
         u.pc # "run" => u.k > Stanzas[pr.at[2]]
  PROVE  u \in WellFormed
  BY DEF WellFormed, AtWork

\* A stanza leaves conf well typed.
LEMMA Configuring ==
  ASSUME Typed, NEW p \in Procs, proc[p].pc = "run"
  PROVE  Configured(p) \in [Ifaces -> SUBSET (Logicals \X Nat)]
  <1>1. Stanza(p) \in Logicals \X Nat
    BY AtWorkParts DEF Stanza, AtWork
  <1> QED  BY <1>1 DEF Configured, Typed, Files

LEMMA FilesSame ==
  ASSUME Files, live' = live, new' = new, conf' = conf, cmds' = cmds, want' = want,
         robbed' = robbed, raced' = raced, failed' = failed
  PROVE  Files'
  BY Zenon DEF Files

\* Up to the state file.
LEMMA RunTyped ==
  ASSUME Typed, NEW p \in Procs,
         \/ Skip(p) \/ Begin(p) \/ RunStanza(p) \/ RunEnds(p) \/ Crash(p) \/ RenameFails(p)
         \/ \E c \in Commands : Start(p, c)
  PROVE  Typed'
  <1>1. proc \in [Procs -> WellFormed] /\ Files
    BY DEF Typed
  <1>2. CASE \E c \in Commands : Start(p, c)
    <2>1. PICK c \in Commands : Start(p, c)
      BY <1>2
    <2>2. c \in Command /\ c.todo # << >>
      BY IfUpDownAssumption DEF Command, Line
    <2>3. proc' \in [Procs -> WellFormed]
      BY <1>1, <2>1, <2>2, CheckType, Stepped DEF Start
    <2>4. cmds' \in 0..MaxCmds
      <3>1. cmds \in 0..MaxCmds /\ cmds < MaxCmds /\ cmds' = cmds + 1
        BY <1>1, <2>1 DEF Start, Files
      <3> QED  BY <3>1, Bounds
    <2>5. /\ live' = live /\ new' = new /\ conf' = conf /\ want' = want
          /\ robbed' = robbed /\ raced' = raced /\ failed' = failed
      BY <2>1 DEF Start, ghosts
    <2> QED  BY <1>1, <2>3, <2>4, <2>5, Zenon DEF Typed, Files
  <1>3. CASE Skip(p) \/ RenameFails(p)
    <2>1. proc' \in [Procs -> WellFormed]
      BY <1>1, <1>3, NextTargetType, IdleType, Stepped DEF Skip, RenameFails
    <2>2. Files'
      BY <1>1, <1>3, FilesSame DEF Skip, RenameFails, ghosts
    <2> QED  BY <2>1, <2>2 DEF Typed
  <1>4. CASE Begin(p)
    <2> DEFINE i == Head(proc[p].cmd.todo)[1]
               l == Head(proc[p].cmd.todo)[2]
               names == IF proc[p].cmd.up THEN Mapped(l) ELSE {l}
    <2>1. proc[p].pc = "check" /\ i \in Ifaces /\ l \in Logicals
      BY <1>4, AtWorkParts, LineParts DEF Begin
    <2>2. names \subseteq Logicals
      BY <2>1, IfUpDownAssumption DEF Mapped
    <2>3. PICK m \in names :
            /\ Step(p, [proc[p] EXCEPT !.pc = "run", !.at = <<i, m>>])
            /\ raced' = raced \cup {j \in {i} : On(i) # {} \/ Recorded(i) \notin {None, m}}
      BY <1>4 DEF Begin
    <2> DEFINE u == [proc[p] EXCEPT !.pc = "run", !.at = <<i, m>>]
    <2> HIDE DEF names, i, l
    <2>4. <<i, m>> \in Line /\ <<i, m>>[2] = m /\ Stanzas[m] \in Nat
      BY <2>1, <2>2, IfUpDownAssumption DEF Line
    <2>5. u \in Process /\ u.pc = "run" /\ u.at = <<i, m>> /\ u.k = proc[p].k /\ u.cmd = proc[p].cmd
      BY <2>4, AtWorkParts DEF Process, Locs
    <2>6. proc[p].k = 1 /\ proc[p].cmd.todo # << >>
      BY <2>1, AtWorkParts DEF WellFormed, AtWork
    <2>7. Step(p, u)
      BY <2>3
    <2> HIDE DEF u
    <2>8. u \in WellFormed
      BY <2>4, <2>5, <2>6 DEF WellFormed, AtWork
    <2>9. proc' \in [Procs -> WellFormed] /\ raced' \subseteq Ifaces
      BY <1>1, <2>1, <2>3, <2>7, <2>8, Stepped DEF Files
    <2>10. /\ live' = live /\ new' = new /\ conf' = conf /\ cmds' = cmds /\ want' = want
          /\ robbed' = robbed /\ failed' = failed
      BY <1>4 DEF Begin
    <2> QED  BY <1>1, <2>9, <2>10, Zenon DEF Typed, Files
  <1>5. CASE RunStanza(p)
    <2>1. /\ proc[p].pc = "run" /\ proc[p].k <= Stanzas[proc[p].at[2]]
          /\ proc[p].k + 1 \in 1..(Stanzas[proc[p].at[2]] + 1) /\ proc[p].k \in Nat
      BY <1>5, AtWorkParts DEF RunStanza, AtWork
    <2>2. PICK b \in {proc[p].failure, TRUE} :
            Step(p, [proc[p] EXCEPT !.k = @ + 1, !.failure = b])
      <3>1. proc[p] \in Process
        BY AtWorkParts
      <3>2. [proc[p] EXCEPT !.k = @ + 1] = [proc[p] EXCEPT !.k = @ + 1, !.failure = proc[p].failure]
        BY <3>1 DEF Process
      <3> QED  BY <1>5, <3>2 DEF RunStanza
    <2> DEFINE u == [proc[p] EXCEPT !.k = @ + 1, !.failure = b]
    <2>9. proc[p] \in Process /\ b \in BOOLEAN /\ proc[p].k + 1 \in Nat
      <3>1. proc[p] \in Process /\ proc[p].failure \in BOOLEAN
        BY AtWorkParts DEF Process
      <3>2. b \in BOOLEAN
        BY <3>1, Zenon
      <3> QED  BY <2>1, <3>1, <3>2
    <2>3. u \in Process /\ u.pc = "run" /\ u.at = proc[p].at /\ u.k = proc[p].k + 1 /\ u.cmd = proc[p].cmd
      BY <2>1, <2>9 DEF Process
    <2>4. Step(p, u)
      BY <2>2
    <2> HIDE DEF u
    <2>5. u \in WellFormed
      BY <2>1, <2>3, AtWorkParts, GoesOnType DEF AtWork
    <2>6. proc' \in [Procs -> WellFormed]
      BY <1>1, <2>4, <2>5, Stepped
    <2>7. conf' \in [Ifaces -> SUBSET (Logicals \X Nat)] /\ failed' \subseteq Ifaces
      BY <1>1, <1>5, <2>1, AtWorkParts, Configuring DEF RunStanza, Files, AtWork
    <2>8. /\ live' = live /\ new' = new /\ cmds' = cmds /\ want' = want
          /\ robbed' = robbed /\ raced' = raced
      BY <1>5 DEF RunStanza
    <2> QED  BY <1>1, <2>6, <2>7, <2>8, Zenon DEF Typed, Files
  <1>6. CASE RunEnds(p)
    <2>1. Files'
      BY <1>1, <1>6, FilesSame DEF RunEnds, ghosts
    <2>2. CASE Step(p, NextTarget(proc[p]))
      BY <1>1, <1>6, <2>1, <2>2, NextTargetType, Stepped DEF RunEnds, Typed
    <2>3. CASE Step(p, [proc[p] EXCEPT !.pc = "open"])
      <3> DEFINE u == [proc[p] EXCEPT !.pc = "open"]
      <3>1. u \in Process /\ u.pc = "open" /\ u.at = proc[p].at /\ u.k = proc[p].k /\ u.cmd = proc[p].cmd
        BY AtWorkParts DEF Process, Locs
      <3>2. proc[p].pc = "run" /\ proc[p].k > Stanzas[proc[p].at[2]]
        BY <1>6 DEF RunEnds
      <3>3. u \in WellFormed
        BY <3>1, <3>2, AtWorkParts, GoesOnType DEF AtWork
      <3> QED  BY <1>1, <2>1, <2>3, <3>3, Stepped DEF Typed
    <2> QED  BY <1>6, <2>2, <2>3 DEF RunEnds
  <1>7. CASE Crash(p)
    <2>1. proc' \in [Procs -> WellFormed] /\ raced' \subseteq Ifaces
      BY <1>1, <1>7, IdleType, Stepped DEF Crash, Files
    <2>2. /\ live' = live /\ new' = new /\ conf' = conf /\ cmds' = cmds /\ want' = want
          /\ robbed' = robbed /\ failed' = failed
      BY <1>7 DEF Crash
    <2> QED  BY <1>1, <2>1, <2>2, Zenon DEF Typed, Files
  <1> QED  BY <1>2, <1>3, <1>4, <1>5, <1>6, <1>7

\* The update of the state file.
LEMMA UpdateTyped ==
  ASSUME Typed, NEW p \in Procs,
         Open(p) \/ Wait(p) \/ TakeOver(p) \/ Read(p) \/ Write(p) \/ Rename(p)
  PROVE  Typed'
  <1>1. proc \in [Procs -> WellFormed] /\ Files /\ proc[p] \in WellFormed /\ proc[p] \in Process
    BY AtWorkParts DEF Typed
  <1>2. /\ proc[p].pc \in AtWork \ {"run"} /\ proc[p].at \in Line
        /\ proc[p].k \in 1..(Stanzas[proc[p].at[2]] + 1) /\ proc[p].k > Stanzas[proc[p].at[2]]
    BY AtWorkParts DEF Open, Wait, TakeOver, Read, Write, Rename, AtWork
  <1>3. ASSUME NEW u \in Process, u.pc \in AtWork \ {"run"}, u.cmd = proc[p].cmd,
               u.at = proc[p].at, u.k = proc[p].k, Step(p, u)
        PROVE  proc' \in [Procs -> WellFormed]
    <2>1. u \in WellFormed
      BY <1>1, <1>2, <1>3, GoesOnType
    <2> QED  BY <1>1, <1>3, <2>1, Stepped
  <1>4. CASE Open(p) \/ TakeOver(p)
    <2> DEFINE u == [proc[p] EXCEPT !.pc = "read", !.fd = "new"]
    <2>1. /\ u \in Process /\ u.pc = "read" /\ u.cmd = proc[p].cmd /\ u.at = proc[p].at
          /\ u.k = proc[p].k
      BY <1>1 DEF Process, Locs
    <2>2. Step(p, u) /\ new' = [there |-> TRUE, lines |-> << >>]
      BY <1>4 DEF Open, TakeOver
    <2> HIDE DEF u
    <2>3. proc' \in [Procs -> WellFormed]
      BY <1>3, <2>1, <2>2 DEF AtWork
    <2>4. new' \in [there : BOOLEAN, lines : Seq(Line)]
      BY <2>2
    <2>5. /\ live' = live /\ conf' = conf /\ cmds' = cmds /\ want' = want
          /\ raced' = raced /\ failed' = failed
      BY <1>4 DEF Open, TakeOver, ghosts
    <2>6. robbed' \in BOOLEAN
      <3>1. CASE Open(p)
        BY <1>1, <3>1, Zenon DEF Open, ghosts, Files
      <3>2. CASE TakeOver(p)
        BY <3>2, Zenon DEF TakeOver
      <3> QED  BY <1>4, <3>1, <3>2
    <2> QED  BY <1>1, <2>3, <2>4, <2>5, <2>6, Zenon DEF Typed, Files
  <1>5. CASE Wait(p)
    <2> DEFINE u == [proc[p] EXCEPT !.cnt = @ + 1]
    <2>1. proc[p].cnt \in 0..Waits /\ proc[p].cnt < Waits
      BY <1>1, <1>5 DEF Wait, Process
    <2>2. proc[p].cnt + 1 \in 0..Waits
      BY <2>1, Bounds
    <2>3. /\ u \in Process /\ u.pc = proc[p].pc /\ u.cmd = proc[p].cmd /\ u.at = proc[p].at
          /\ u.k = proc[p].k
      BY <1>1, <2>2 DEF Process
    <2>4. Step(p, u)
      BY <1>5 DEF Wait
    <2> HIDE DEF u
    <2>5. proc' \in [Procs -> WellFormed]
      BY <1>2, <1>3, <2>3, <2>4
    <2>6. Files'
      BY <1>1, <1>5, FilesSame DEF Wait, ghosts
    <2> QED  BY <2>5, <2>6 DEF Typed
  <1>6. CASE Read(p)
    <2> DEFINE list == Updated(ReadIfaceState, p)
               u == [proc[p] EXCEPT !.pc = "write", !.list = list]
    <2>1. list \in Seq(Line)
      BY <1>1, <1>2, RecordedSays, UpdatedSays DEF Files
    <2>2. Step(p, u)
      BY <1>6 DEF Read
    <2> HIDE DEF list
    <2>3. /\ u \in Process /\ u.pc = "write" /\ u.cmd = proc[p].cmd /\ u.at = proc[p].at
          /\ u.k = proc[p].k
      BY <1>1, <2>1 DEF Process, Locs
    <2> HIDE DEF u
    <2>4. proc' \in [Procs -> WellFormed]
      BY <1>3, <2>2, <2>3 DEF AtWork
    <2>5. Files'
      BY <1>1, <1>6, FilesSame DEF Read, ghosts
    <2> QED  BY <2>4, <2>5 DEF Typed
  <1>7. CASE Write(p)
    <2> DEFINE u == [proc[p] EXCEPT !.pc = "rename", !.list = << >>, !.fd = None]
    <2>1. /\ u \in Process /\ u.pc = "rename" /\ u.cmd = proc[p].cmd /\ u.at = proc[p].at
          /\ u.k = proc[p].k
      <3>1. << >> \in Seq(Line)
        OBVIOUS
      <3> DEFINE empty == << >>
                 v == [proc[p] EXCEPT !.pc = "rename", !.list = empty, !.fd = None]
      <3>2. empty \in Seq(Line) /\ u = v
        BY <3>1
      <3> HIDE DEF empty, u
      <3> QED  BY <1>1, <3>2 DEF Process, Locs
    <2>2. Step(p, u)
      BY <1>7 DEF Write
    <2> HIDE DEF u
    <2>3. proc' \in [Procs -> WellFormed]
      BY <1>3, <2>1, <2>2 DEF AtWork
    <2>4. proc[p].list \in Seq(Line) /\ live \in Seq(Line) /\ new.lines \in Seq(Line) /\ new.there \in BOOLEAN
      BY <1>1 DEF Process, Files
    <2>5. Over(proc[p].list, live) \in Seq(Line) /\ Over(proc[p].list, new.lines) \in Seq(Line)
      BY <2>4, OverType
    <2>6. new' \in [there : BOOLEAN, lines : Seq(Line)]
      BY <1>1, <1>7, <2>5 DEF Write, Files
    <2>7. live' \in Seq(Line)
      BY <1>7, <2>4, <2>5 DEF Write
    <2>8. /\ conf' = conf /\ cmds' = cmds /\ want' = want
          /\ robbed' = robbed /\ raced' = raced /\ failed' = failed
      BY <1>7 DEF Write, ghosts
    <2> QED  BY <1>1, <2>3, <2>6, <2>7, <2>8, Zenon DEF Typed, Files
  <1>8. CASE Rename(p)
    <2>1. NextTarget(proc[p]) \in WellFormed
      BY <1>1, <1>2, NextTargetType DEF AtWork
    <2>2. ASSUME NEW q \in Procs  PROVE  [proc[q] EXCEPT !.fd = Moved(@)] \in WellFormed
      <3> DEFINE u == [proc[q] EXCEPT !.fd = Moved(@)]
      <3>1. proc[q] \in WellFormed /\ proc[q] \in Process
        BY AtWorkParts
      <3>2. Moved(proc[q].fd) \in {None, "new", "live", "gone"} /\ (proc[q].fd = None => Moved(proc[q].fd) = None)
        BY <3>1 DEF Moved, Process, None
      <3>3. /\ u \in Process /\ u.pc = proc[q].pc /\ u.cmd = proc[q].cmd /\ u.at = proc[q].at
            /\ u.k = proc[q].k /\ u.failure = proc[q].failure /\ u.fd = Moved(proc[q].fd)
        BY <3>1, <3>2 DEF Process
      <3> HIDE DEF u
      <3>4. u \in WellFormed
        BY <3>1, <3>2, <3>3 DEF WellFormed
      <3> QED  BY <3>4 DEF u
    <2>3. proc' \in [Procs -> WellFormed]
      BY <1>8, <2>1, <2>2 DEF Rename
    <2>4. live' \in Seq(Line) /\ new' \in [there : BOOLEAN, lines : Seq(Line)]
      BY <1>1, <1>8 DEF Rename, Files, NoFile
    <2>5. want' \in [Ifaces -> Logicals \cup {None}]
      <3>1. proc[p].at[2] \in Logicals
        BY <1>2, LineParts
      <3> QED  BY <1>1, <1>8, <3>1 DEF Rename, Files
    <2>6. /\ conf' = conf /\ cmds' = cmds
          /\ robbed' = robbed /\ raced' = raced /\ failed' = failed
      BY <1>8 DEF Rename
    <2> QED  BY <1>1, <2>3, <2>4, <2>5, <2>6, Zenon DEF Typed, Files
  <1> QED  BY <1>4, <1>5, <1>6, <1>7, <1>8

LEMMA NextTyped == Typed /\ [Next]_vars => Typed'
  <1> SUFFICES ASSUME Typed, [Next]_vars  PROVE  Typed'
    OBVIOUS
  <1>1. ASSUME NEW p \in Procs, Ifupdown(p) \/ Crash(p) \/ \E c \in Commands : Start(p, c)
        PROVE  Typed'
    BY <1>1, RunTyped, UpdateTyped DEF Ifupdown
  <1>2. CASE UNCHANGED vars
    <2>1. Files'
      BY <1>2, FilesSame DEF vars, ghosts, Typed
    <2> QED  BY <1>2, <2>1 DEF vars, Typed
  <1> QED  BY <1>1, <1>2 DEF Next

\* The variables keep their types: in particular the lists stay lists of lines
\* for known interfaces, the waits for ifstate.new stay within their limit, and no
\* command goes on without an interface.
THEOREM TypeCorrect == Spec => []TypeOK
  <1> QED  BY InitTyped, NextTyped, TypedOK, PTL DEF Spec

-----------------------------------------------------------------------------
(* The state file.                                                         *)
Owns(pr) == pr.pc \in {"read", "write", "rename"}

\* What the owner of ifstate.new has done to it.
Held(p) ==
  /\ Owns(proc[p]) => new.there
  /\ proc[p].fd = IF proc[p].pc \in {"read", "write"} THEN "new" ELSE None
  /\ proc[p].pc \in {"read", "write"} => new.lines = << >>
  /\ proc[p].pc = "write" => proc[p].list = Updated(ReadIfaceState, p)
  /\ proc[p].pc = "rename" => new.lines = Updated(ReadIfaceState, p)

\* As long as it is not taken over from a process that uses it, ifstate.new has
\* one owner; ifstate then does not change from when the owner read it until it
\* renames the file.
Owner ==
  ~robbed =>
    /\ \A p, q \in Procs : Owns(proc[p]) /\ Owns(proc[q]) => p = q
    /\ \A p \in Procs : Held(p)

Saved == ~robbed => Unique(live) /\ \A i \in Ifaces : Recorded(i) = want[i]

\* and in general.
LEMMA SteppedTo ==
  ASSUME Typed, NEW p \in Procs, NEW u, Step(p, u)
  PROVE  proc'[p] = u /\ \A q \in Procs : q # p => proc'[q] = proc[q]
  BY DEF Typed, Step

LEMMA UpdatedSame ==
  ASSUME NEW q, proc'[q].at = proc[q].at, proc'[q].cmd = proc[q].cmd,
         proc'[q].failure = proc[q].failure, live' = live
  PROVE  Updated(ReadIfaceState, q)' = Updated(ReadIfaceState, q)
  BY DEF Updated, ReadIfaceState

\* What another process does with other files.
LEMMA HeldSame ==
  ASSUME NEW q, Held(q), proc'[q] = proc[q], live' = live, new' = new
  PROVE  Held(q)'
  BY UpdatedSame DEF Held, Owns

LEMMA SavedSame ==
  ASSUME Saved, live' = live, want' = want, robbed' = robbed
  PROVE  Saved'
  BY DEF Saved, Recorded, ReadIfaceState

\* A step of a process that does not come to own ifstate.new.
LEMMA OwnerAside ==
  ASSUME Typed, Owner, Saved, NEW p \in Procs, NEW u, Step(p, u), ~Owns(u),
         robbed \/ u.fd = None, live' = live, new' = new, want' = want, robbed' = robbed
  PROVE  Owner' /\ Saved'
  <1>1. proc'[p] = u /\ \A q \in Procs : q # p => proc'[q] = proc[q]
    BY SteppedTo
  <1>2. Saved'
    BY SavedSame
  <1>3. SUFFICES ASSUME ~robbed  PROVE  Owner'
    BY <1>2 DEF Owner
  <1>4. \A q, r \in Procs : Owns(proc[q])' /\ Owns(proc[r])' => q = r
    BY <1>1, <1>3 DEF Owner, Owns
  <1>5. ASSUME NEW q \in Procs  PROVE  Held(q)'
    <2>1. CASE q = p
      BY <1>1, <1>3, <2>1 DEF Held, Owns
    <2>2. CASE q # p
      BY <1>1, <1>3, <2>2, HeldSame DEF Owner
    <2> QED  BY <2>1, <2>2
  <1> QED  BY <1>4, <1>5 DEF Owner

\* A process begins to own it.
LEMMA OwnerOpens ==
  ASSUME Typed, Owner, Saved, NEW p \in Procs, Open(p) \/ TakeOver(p)
  PROVE  Owner' /\ Saved'
  <1>1. live' = live /\ want' = want /\ (robbed => robbed')
    <2>1. CASE Open(p)
      BY <2>1, Zenon DEF Open, ghosts
    <2>2. CASE TakeOver(p)
      BY <2>2, Zenon DEF TakeOver
    <2> QED  BY <2>1, <2>2
  <1>2. SUFFICES ASSUME ~robbed', ~robbed  PROVE  Owner' /\ Saved'
    <2>1. CASE robbed'
      BY <2>1 DEF Owner, Saved
    <2>2. CASE ~robbed'
      BY <1>1, <1>2, <2>2
    <2> QED  BY <2>1, <2>2
  <1>3. \A q \in Procs : ~Owns(proc[q])
    BY <1>2 DEF Open, TakeOver, Owner, Owns, Held
  <1>4. proc[p] \in Process
    BY AtWorkParts
  <1>5. /\ proc'[p].pc = "read" /\ proc'[p].fd = "new" /\ new' = [there |-> TRUE, lines |-> << >>]
        /\ \A q \in Procs : q # p => proc'[q] = proc[q]
    <2> DEFINE u == [proc[p] EXCEPT !.pc = "read", !.fd = "new"]
    <2>1. Step(p, u) /\ new' = [there |-> TRUE, lines |-> << >>]
      BY DEF Open, TakeOver
    <2>2. u.pc = "read" /\ u.fd = "new"
      BY <1>4 DEF Process
    <2> HIDE DEF u
    <2> QED  BY <2>1, <2>2, SteppedTo
  <1>6. \A q, r \in Procs : Owns(proc[q])' /\ Owns(proc[r])' => q = r
    BY <1>3, <1>5 DEF Owns
  <1>7. ASSUME NEW q \in Procs  PROVE  Held(q)'
    <2>1. CASE q = p
      BY <1>5, <2>1 DEF Held, Owns
    <2>2. CASE q # p
      BY <1>2, <1>3, <1>5, <2>2 DEF Held, Owns, Owner
    <2> QED  BY <2>1, <2>2
  <1>8. Saved'
    BY <1>1, <1>2 DEF Saved, Recorded, ReadIfaceState
  <1> QED  BY <1>6, <1>7, <1>8 DEF Owner

\* The owner reads ifstate, and writes the lines.
LEMMA OwnerWrites ==
  ASSUME Typed, Owner, Saved, NEW p \in Procs, Read(p) \/ Write(p)
  PROVE  Owner' /\ Saved'
  <1>1. want' = want /\ robbed' = robbed
    BY DEF Read, Write, ghosts
  <1>2. SUFFICES ASSUME ~robbed  PROVE  Owner' /\ Saved'
    BY <1>1 DEF Owner, Saved
  <1>3. proc[p] \in Process /\ Owns(proc[p]) /\ Held(p) /\ new \in [there : BOOLEAN, lines : Seq(Line)]
    BY <1>2, AtWorkParts DEF Read, Write, Owns, Owner, Typed, Files
  <1>4. /\ Owns(proc'[p]) /\ \A q \in Procs : q # p => proc'[q] = proc[q]
        /\ proc'[p].at = proc[p].at /\ proc'[p].cmd = proc[p].cmd
        /\ proc'[p].failure = proc[p].failure
    <2>1. PICK u : /\ Step(p, u) /\ u.pc \in {"write", "rename"}
                   /\ u.at = proc[p].at /\ u.cmd = proc[p].cmd /\ u.failure = proc[p].failure
      <3>1. CASE Read(p)
        <4> DEFINE list == Updated(ReadIfaceState, p)
                   u == [proc[p] EXCEPT !.pc = "write", !.list = list]
        <4>1. Step(p, u)
          BY <3>1 DEF Read
        <4> HIDE DEF list
        <4>2. u.pc = "write" /\ u.at = proc[p].at /\ u.cmd = proc[p].cmd /\ u.failure = proc[p].failure
          BY <1>3 DEF Process
        <4> QED  BY <4>1, <4>2
      <3>2. CASE Write(p)
        <4> DEFINE u == [proc[p] EXCEPT !.pc = "rename", !.list = << >>, !.fd = None]
        <4>1. Step(p, u)
          BY <3>2 DEF Write
        <4>2. u.pc = "rename" /\ u.at = proc[p].at /\ u.cmd = proc[p].cmd /\ u.failure = proc[p].failure
          BY <1>3 DEF Process
        <4> QED  BY <4>1, <4>2
      <3> QED  BY <3>1, <3>2
    <2> QED  BY <2>1, SteppedTo DEF Owns
  <1>5. \A q \in Procs : q # p => ~Owns(proc[q])
    BY <1>2, <1>3 DEF Owner
  <1>6. live' = live
    BY <1>3 DEF Read, Write, Held, None
  <1>7. \A q, r \in Procs : Owns(proc[q])' /\ Owns(proc[r])' => q = r
    BY <1>4, <1>5 DEF Owns
  <1>8. Updated(ReadIfaceState, p)' = Updated(ReadIfaceState, p)
    BY <1>4, <1>6, UpdatedSame
  <1>9. Held(p)'
    <2>1. CASE Read(p)
      <3>1. /\ proc[p].pc = "read" /\ proc'[p].pc = "write" /\ proc'[p].fd = proc[p].fd
            /\ proc'[p].list = Updated(ReadIfaceState, p) /\ new' = new
        BY <1>3, <2>1 DEF Read, Step, Typed, Process
      <3> QED  BY <1>3, <1>8, <3>1 DEF Held, Owns
    <2>2. CASE Write(p)
      <3>1. /\ proc[p].pc = "write" /\ proc'[p].pc = "rename" /\ proc'[p].fd = None
            /\ proc[p].fd = "new" /\ new' = [new EXCEPT !.lines = Over(proc[p].list, @)]
        BY <1>3, <2>2 DEF Write, Step, Typed, Process, Held
      <3>2. proc[p].list \in Seq(Line) /\ new.lines = << >> /\ new.lines \in Seq(Line)
        BY <1>3, <3>1 DEF Held, Process
      <3>3. Over(proc[p].list, new.lines) = proc[p].list
        BY <3>2, OverType
      <3>4. new'.lines = Updated(ReadIfaceState, p) /\ new'.there = new.there
        BY <1>3, <3>1, <3>3 DEF Held
      <3> QED  BY <1>3, <1>8, <3>1, <3>4 DEF Held, Owns
    <2> QED  BY <2>1, <2>2
  <1>10. ASSUME NEW q \in Procs, q # p  PROVE  Held(q)'
    BY <1>2, <1>4, <1>5, <1>10 DEF Held, Owns, Owner
  <1>11. Saved'
    BY <1>1, <1>6, SavedSame
  <1> QED  BY <1>7, <1>9, <1>10, <1>11 DEF Owner

\* The owner renames the file.
LEMMA OwnerRenames ==
  ASSUME Typed, Owner, Saved, NEW p \in Procs, Rename(p)
  PROVE  Owner' /\ Saved'
  <1>1. SUFFICES ASSUME ~robbed  PROVE  Owner' /\ Saved'
    BY DEF Owner, Saved, Rename
  <1>2. proc[p] \in WellFormed /\ proc[p].pc = "rename" /\ Owns(proc[p]) /\ Held(p) /\ proc[p].at \in Line
    BY <1>1, AtWorkParts DEF Rename, Owns, Owner, AtWork
  <1>3. \A q \in Procs : q # p => ~Owns(proc[q])
    BY <1>1, <1>2 DEF Owner
  <1>4. NextTarget(proc[p]) \in WellFormed /\ ~Owns(NextTarget(proc[p])) /\ NextTarget(proc[p]).fd = None
    BY <1>2, NextTargetType DEF Owns, WellFormed, AtWork
  <1>5. ASSUME NEW q \in Procs  PROVE  ~Owns(proc'[q]) /\ proc'[q].fd = None
    <2>1. CASE q = p
      BY <1>4, <2>1 DEF Rename
    <2>2. CASE q # p
      <3>1. proc[q] \in Process /\ proc[q].fd = None
        BY <1>1, <1>3, <2>2, AtWorkParts DEF Owner, Held, Owns
      <3>2. proc'[q] = [proc[q] EXCEPT !.fd = Moved(@)] /\ Moved(None) = None
        BY <2>2 DEF Rename, Moved, None
      <3>3. proc'[q].pc = proc[q].pc /\ proc'[q].fd = None
        BY <3>1, <3>2 DEF Process
      <3> QED  BY <1>3, <2>2, <3>3 DEF Owns
    <2> QED  BY <2>1, <2>2
  <1>6. Owner'
    BY <1>5 DEF Owner, Held, Owns
  <1>7. Saved'
    <2> DEFINE i == proc[p].at[1]
               list == ReadIfaceState
    <2>1. live' = Updated(list, p)
      BY <1>2 DEF Rename, Held
    <2>2. list \in Seq(Line) /\ Unique(list) /\ \A j \in Ifaces : Says(list, j) = want[j]
      BY <1>1, RecordedSays DEF Saved, Typed, Files
    <2>3. want' = [want EXCEPT ![i] = Result(proc[p])] /\ i \in Ifaces
      BY <1>2, LineParts DEF Rename, Result
    <2> HIDE DEF i, list
    <2>4. /\ live' \in Seq(Line) /\ Unique(live') /\ Says(live', i) = Result(proc[p])
          /\ \A j : j # i => Says(live', j) = Says(list, j)
      BY <1>2, <2>1, <2>2, UpdatedSays DEF i
    <2>5. \A j \in Ifaces : Recorded(j)' = Says(live', j)
      <3>1. \A j : Recorded(j)' = Says(Reverse(live'), j)
        BY DEF Recorded, ReadIfaceState, Says
      <3> QED  BY <2>4, <3>1, SaysReverse
    <2>6. \A j \in Ifaces : want'[j] = IF j = i THEN Result(proc[p]) ELSE want[j]
      BY <2>3 DEF Typed, Files
    <2>7. \A j \in Ifaces : Recorded(j)' = want'[j]
      BY <2>2, <2>4, <2>5, <2>6
    <2> QED  BY <2>4, <2>7 DEF Saved
  <1> QED  BY <1>6, <1>7

\* The other steps.
LEMMA OwnerRest ==
  ASSUME Typed, Owner, Saved, NEW p \in Procs,
         \/ Skip(p) \/ Begin(p) \/ RunStanza(p) \/ RunEnds(p) \/ Wait(p) \/ Crash(p) \/ RenameFails(p)
         \/ \E c \in Commands : Start(p, c)
  PROVE  Owner' /\ Saved'
  <1>1. live' = live /\ new' = new /\ want' = want /\ robbed' = robbed
    BY DEF Skip, Begin, RunStanza, RunEnds, Wait, Crash, RenameFails, Start, ghosts
  <1>2. proc[p] \in WellFormed /\ proc[p] \in Process
    BY AtWorkParts
  <1>3. proc[p].pc \in {"check", "run", "open"} => robbed \/ proc[p].fd = None
    BY <1>2 DEF WellFormed, AtWork, Owner, Held
  <1>4. PICK u : Step(p, u) /\ u.pc \in {"idle", "check", "run", "open"} /\ (robbed \/ u.fd = None)
    <2>1. CASE Crash(p) \/ RenameFails(p)
      BY <2>1 DEF Crash, RenameFails, Idle
    <2>2. CASE \E c \in Commands : Start(p, c)
      <3>1. PICK c : Step(p, [Idle EXCEPT !.pc = "check", !.cmd = c])
        BY <2>2 DEF Start
      <3>2. [Idle EXCEPT !.pc = "check", !.cmd = c].pc = "check"
        BY DEF Idle
      <3>3. [Idle EXCEPT !.pc = "check", !.cmd = c].fd = None
        BY DEF Idle
      <3> QED  BY <3>1, <3>2, <3>3
    <2>3. CASE Step(p, NextTarget(proc[p])) /\ proc[p].pc # "idle"
      BY <1>2, <2>3, NextTargetType DEF WellFormed, AtWork
    <2>4. CASE Begin(p)
      <3>1. PICK x : Step(p, [proc[p] EXCEPT !.pc = "run", !.at = x])
        BY <2>4 DEF Begin
      <3>2. [proc[p] EXCEPT !.pc = "run", !.at = x].pc = "run"
        BY <1>2 DEF Process
      <3>3. [proc[p] EXCEPT !.pc = "run", !.at = x].fd = proc[p].fd /\ proc[p].pc = "check"
        BY <1>2, <2>4 DEF Process, Begin
      <3> QED  BY <1>3, <3>1, <3>2, <3>3
    <2>5. CASE RunStanza(p)
      <3>1. CASE Step(p, [proc[p] EXCEPT !.k = @ + 1])
        BY <1>2, <1>3, <2>5, <3>1 DEF Process, RunStanza
      <3>2. CASE Step(p, [proc[p] EXCEPT !.k = @ + 1, !.failure = TRUE])
        <4> DEFINE u == [proc[p] EXCEPT !.k = @ + 1, !.failure = TRUE]
        <4>1. u.pc = proc[p].pc /\ u.fd = proc[p].fd /\ proc[p].pc = "run"
          BY <1>2, <2>5 DEF Process, RunStanza
        <4> QED  BY <1>3, <3>2, <4>1
      <3> QED  BY <2>5, <3>1, <3>2 DEF RunStanza
    <2>6. CASE Step(p, [proc[p] EXCEPT !.pc = "open"]) /\ proc[p].pc = "run"
      BY <1>2, <1>3, <2>6 DEF Process
    <2>7. CASE Wait(p)
      BY <1>2, <1>3, <2>7 DEF Process, Wait
    <2> QED  BY <2>1, <2>2, <2>3, <2>4, <2>5, <2>6, <2>7 DEF Skip, RunEnds
  <1> QED  BY <1>1, <1>4, OwnerAside DEF Owns

LEMMA NextOwner == Typed /\ Owner /\ Saved /\ [Next]_vars => Owner' /\ Saved'
  <1> SUFFICES ASSUME Typed, Owner, Saved, [Next]_vars  PROVE  Owner' /\ Saved'
    OBVIOUS
  <1>1. ASSUME NEW p \in Procs, Ifupdown(p) \/ Crash(p) \/ \E c \in Commands : Start(p, c)
        PROVE  Owner' /\ Saved'
    BY <1>1, OwnerOpens, OwnerWrites, OwnerRenames, OwnerRest DEF Ifupdown
  <1>2. CASE UNCHANGED vars
    <2>1. proc' = proc /\ live' = live /\ new' = new /\ want' = want /\ robbed' = robbed
      BY <1>2 DEF vars, ghosts
    <2>2. ASSUME NEW q \in Procs, Held(q)  PROVE  Held(q)'
      BY <2>1, <2>2, HeldSame
    <2>3. Owner'
      BY <2>1, <2>2 DEF Owner
    <2> QED  BY <2>1, <2>3, SavedSame
  <1> QED  BY <1>1, <1>2 DEF Next

LEMMA InitOwner == Init => Owner /\ Saved
  <1> SUFFICES ASSUME Init  PROVE  Owner /\ Saved
    OBVIOUS
  <1>1. Owner
    BY DEF Init, Idle, Owner, Held, Owns
  <1>2. Unique(live)
    BY DEF Init, Unique
  <1>3. live \in Seq(Line)
    BY InitTyped DEF Typed, Files
  <1>4. ASSUME NEW i \in Ifaces  PROVE  Says(live, i) = want[i]
    <2>1. CASE live = << >>
      <3>3. \A n \in 1..Len(live) : live[n][1] # i
        BY <2>1
      <3>1. Says(live, i) = None
        BY <1>2, <1>3, <3>3, SaysLine
      <3>2. want[i] = None
        BY <2>1 DEF Init
      <3> QED  BY <3>1, <3>2
    <2>2. CASE \E j \in Ifaces : live = << <<j, j>> >>
      <3>1. PICK j \in Ifaces : live = << <<j, j>> >>
        BY <2>2
      <3>2. Len(live) = 1 /\ live[1] = <<j, j>> /\ DOMAIN live = {1}
        BY <3>1
      <3>3. want[i] = IF i = j THEN i ELSE None
        <4>1. {live[n][1] : n \in DOMAIN live} = {j}
          BY <3>2
        <4> QED  BY <4>1 DEF Init
      <3>4. CASE i = j
        <4>1. 1 \in 1..Len(live) /\ live[1][1] = i /\ live[1][2] = i
          BY <3>2, <3>4
        <4>2. Says(live, live[1][1]) = live[1][2]
          BY <1>2, <1>3, <4>1, SaysLine
        <4> QED  BY <3>3, <3>4, <4>1, <4>2
      <3>5. CASE i # j
        <4>1. \A n \in 1..Len(live) : live[n][1] # i
          BY <3>2, <3>5
        <4> QED  BY <1>2, <1>3, <3>3, <3>5, <4>1, SaysLine
      <3> QED  BY <3>4, <3>5
    <2> QED  BY <2>1, <2>2 DEF Init
  <1> QED  BY <1>1, <1>2, <1>3, <1>4, RecordedSays DEF Saved

\* Saved says more than NoLostUpdate.
LEMMA SavedNoLoss == Typed /\ Saved => NoLostUpdate
  <1> SUFFICES ASSUME Typed, Saved, ~robbed, NEW i \in Ifaces
               PROVE  Recorded(i) = want[i] /\ Cardinality(Lines(live, i)) <= 1
    BY DEF NoLostUpdate
  <1>1. \A m, n \in Lines(live, i) : m = n
    BY DEF Saved, Unique, Lines
  <1>2. CASE Lines(live, i) = {}
    BY <1>2, FS_EmptySet DEF Saved
  <1>3. CASE Lines(live, i) # {}
    <2>1. PICK n : Lines(live, i) = {n}
      BY <1>1, <1>3
    <2>2. Cardinality(Lines(live, i)) = 1
      BY <2>1, FS_Singleton
    <2> QED  BY <2>2 DEF Saved
  <1> QED  BY <1>2, <1>3

\* The update of the state file: however many commands update it, it has one
\* line at most for an interface, which says what the last command that renamed
\* it recorded, unless ifstate.new was taken over from a process that used it.
THEOREM UpdatesKept == Spec => []NoLostUpdate
  <1> QED  BY InitTyped, NextTyped, InitOwner, NextOwner, SavedNoLoss, PTL DEF Spec

-----------------------------------------------------------------------------
(* What the file says of the interfaces.                                   *)
\* The stanzas before the k-th.
Before(l, k) == {<<l, j>> : j \in 1..(k - 1)}

\* Without a failure, an interface that no command works on has the stanzas of
\* the name it is recorded with, and no others.
Free(i) ==
  /\ want[i] # None => AllOf(want[i]) \subseteq conf[i]
  /\ i \notin failed => conf[i] = IF want[i] = None THEN {} ELSE AllOf(want[i])

\* What p has done to the interface so far.
Busy(i, p) ==
  LET l == proc[p].at[2]
      k == proc[p].k
  IN /\ want[i] \in {None, l}
     /\ proc[p].cmd.up =>
          /\ ~proc[p].failure => Before(l, k) \subseteq conf[i]
          /\ want[i] = l => AllOf(l) \subseteq conf[i]
          /\ i \notin failed => conf[i] \subseteq (IF want[i] = None THEN Before(l, k) ELSE AllOf(l))
     /\ ~proc[p].cmd.up => (i \notin failed => conf[i] \subseteq AllOf(l) \ Before(l, k))

Right(i) ==
  /\ \A p, q \in On(i) : p = q
  /\ On(i) = {} => Free(i)
  /\ \A p \in On(i) : Busy(i, p)

Truth == ~robbed => \A i \in Ifaces \ raced : Right(i)

\* A failure is noted.
Failures == \A p \in Procs : proc[p].failure => proc[p].at[1] \in failed

\* Nothing happens to an interface, nor to the processes on it.
LEMMA RightSame ==
  ASSUME NEW i, Right(i), On(i)' = On(i),
         \A q \in On(i) : /\ proc'[q].at = proc[q].at /\ proc'[q].cmd = proc[q].cmd
                          /\ proc'[q].k = proc[q].k /\ proc'[q].failure = proc[q].failure,
         conf'[i] = conf[i], want'[i] = want[i], i \in failed' <=> i \in failed
  PROVE  Right(i)'
  <1>1. Free(i) => Free(i)'
    BY DEF Free
  <1>2. ASSUME NEW q \in On(i), Busy(i, q)  PROVE  Busy(i, q)'
    BY <1>2 DEF Busy
  <1> QED  BY <1>1, <1>2 DEF Right

\* An interface that p has nothing to do with.
LEMMA RightOther ==
  ASSUME NEW p \in Procs, NEW i, Right(i), proc[p].at[1] # i, proc'[p].at[1] # i,
         \A q \in Procs : q # p =>
            /\ proc'[q].at = proc[q].at /\ proc'[q].cmd = proc[q].cmd
            /\ proc'[q].k = proc[q].k /\ proc'[q].failure = proc[q].failure,
         conf'[i] = conf[i], want'[i] = want[i], i \in failed' <=> i \in failed
  PROVE  Right(i)'
  <1>1. On(i)' = On(i) /\ p \notin On(i) /\ On(i) \subseteq Procs
    BY DEF On
  <1> QED  BY <1>1, RightSame

\* A process that is not at work is on no interface.
LEMMA NowhereOn ==
  ASSUME NEW i \in Ifaces
  PROVE  NoLine[1] # i
  BY IfUpDownAssumption DEF NoLine

\* A step that leaves what Truth is about alone.
LEMMA TruthSame ==
  ASSUME Typed, Truth, Failures, robbed => robbed',
         \A q \in Procs : proc'[q].at = proc[q].at,
         \A q \in Procs : proc[q].at # NoLine =>
            /\ proc'[q].cmd = proc[q].cmd /\ proc'[q].k = proc[q].k
            /\ proc'[q].failure = proc[q].failure,
         \A q \in Procs : proc'[q].failure => proc[q].failure,
         conf' = conf, want' = want, raced' = raced, failed' = failed
  PROVE  Truth' /\ Failures'
  <1>1. Failures'
    BY DEF Failures
  <1>2. ASSUME NEW i \in Ifaces \ raced, ~robbed  PROVE  Right(i)'
    <2>1. On(i)' = On(i) /\ On(i) \subseteq Procs
      BY DEF On
    <2>2. \A q \in On(i) : proc[q].at # NoLine
      BY NowhereOn DEF On
    <2>3. Right(i)
      BY <1>2 DEF Truth
    <2> QED  BY <2>1, <2>2, <2>3, RightSame
  <1> QED  BY <1>1, <1>2 DEF Truth

\* A command takes up an interface.
LEMMA TruthBegin ==
  ASSUME Typed, Owner, Saved, Truth, Failures, NEW p \in Procs, Begin(p)
  PROVE  Truth' /\ Failures'
  <1> DEFINE i == Head(proc[p].cmd.todo)[1]
             l == Head(proc[p].cmd.todo)[2]
             names == IF proc[p].cmd.up THEN Mapped(l) ELSE {l}
  <1>1. /\ proc[p].pc = "check" /\ i \in Ifaces /\ l \in Logicals /\ proc[p] \in Process
        /\ proc[p].at = NoLine /\ ~proc[p].failure /\ proc[p].k = 1
    BY AtWorkParts, LineParts DEF Begin, AtWork, WellFormed
  <1>2. names \subseteq Logicals
    BY <1>1, IfUpDownAssumption DEF Mapped
  <1>3. PICK m \in names :
          /\ Step(p, [proc[p] EXCEPT !.pc = "run", !.at = <<i, m>>])
          /\ raced' = raced \cup {j \in {i} : On(i) # {} \/ Recorded(i) \notin {None, m}}
    BY DEF Begin
  <1>4. conf' = conf /\ want' = want /\ robbed' = robbed /\ failed' = failed
    BY DEF Begin
  <1> HIDE DEF i, l, names
  <1>5. /\ proc'[p].at = <<i, m>> /\ proc'[p].cmd = proc[p].cmd /\ proc'[p].k = 1 /\ ~proc'[p].failure
        /\ \A q \in Procs : q # p => proc'[q] = proc[q]
    <2> DEFINE u == [proc[p] EXCEPT !.pc = "run", !.at = <<i, m>>]
    <2>1. u.at = <<i, m>> /\ u.cmd = proc[p].cmd /\ u.k = 1 /\ ~u.failure
      BY <1>1 DEF Process
    <2>2. Step(p, u)
      BY <1>3
    <2> HIDE DEF u
    <2> QED  BY <2>1, <2>2, SteppedTo
  <1>6. Failures'
    BY <1>4, <1>5 DEF Failures
  <1>7. SUFFICES ASSUME ~robbed, NEW j \in Ifaces \ raced'  PROVE  Right(j)'
    BY <1>4, <1>6 DEF Truth
  <1>8. j \in Ifaces \ raced /\ Right(j)
    BY <1>3, <1>7 DEF Truth
  <1>9. CASE j # i
    <2>1. proc[p].at[1] # j /\ proc'[p].at[1] # j
      BY <1>1, <1>5, <1>8, <1>9, NowhereOn
    <2> QED  BY <1>4, <1>5, <1>8, <2>1, RightOther
  <1>10. CASE j = i
    <2>1. On(j) = {} /\ Recorded(j) \in {None, m}
      BY <1>3, <1>7, <1>10
    <2>2. want[j] \in {None, m} /\ Free(j)
      BY <1>1, <1>7, <1>8, <1>10, <2>1 DEF Saved, Right
    <2>3. On(j)' = {p}
      BY <1>5, <1>10, <2>1 DEF On
    <2>4. Before(m, 1) = {}
      BY DEF Before
    <2>5. m # None
      BY <1>2, IfUpDownAssumption
    <2>6. Busy(j, p)'
      <3>1. proc'[p].at[2] = m /\ proc'[p].k = 1 /\ want'[j] = want[j] /\ conf'[j] = conf[j]
        BY <1>4, <1>5
      <3>2. j \notin failed => conf[j] = IF want[j] = None THEN {} ELSE AllOf(m)
        BY <2>2, <2>5 DEF Free
      <3>3. want[j] = m => AllOf(m) \subseteq conf[j]
        BY <2>2, <2>5 DEF Free
      <3>4. j \notin failed => conf[j] \subseteq AllOf(m) \ {}
        BY <3>2
      <3> QED  BY <1>4, <2>2, <2>4, <3>1, <3>2, <3>3, <3>4 DEF Busy
    <2> QED  BY <2>3, <2>6 DEF Right
  <1> QED  BY <1>9, <1>10

\* The stanzas up to the k-th, and up to the last.
LEMMA Stanzaed ==
  ASSUME NEW l \in Logicals, NEW k \in 1..(Stanzas[l] + 1)
  PROVE  /\ k <= Stanzas[l] => Before(l, k + 1) = Before(l, k) \cup {<<l, k>>} /\ <<l, k>> \in AllOf(l)
         /\ k > Stanzas[l] => Before(l, k) = AllOf(l)
  <1>1. Stanzas[l] \in Nat /\ k \in Nat
    BY IfUpDownAssumption
  <1>2. ASSUME k <= Stanzas[l]  PROVE  Before(l, k + 1) = Before(l, k) \cup {<<l, k>>} /\ <<l, k>> \in AllOf(l)
    <2>1. 1..((k + 1) - 1) = (1..(k - 1)) \cup {k} /\ k \in 1..Stanzas[l]
      BY <1>1, <1>2
    <2> QED  BY <2>1 DEF Before, AllOf
  <1>3. ASSUME k > Stanzas[l]  PROVE  Before(l, k) = AllOf(l)
    <2>1. k - 1 = Stanzas[l]
      BY <1>1, <1>3
    <2> QED  BY <2>1 DEF Before, AllOf
  <1> QED  BY <1>2, <1>3

\* The only process on an interface that is not raced.
LEMMA OnlyOn ==
  ASSUME Truth, ~robbed, NEW p \in Procs, NEW i \in Ifaces \ raced, proc[p].at[1] = i
  PROVE  On(i) = {p} /\ Busy(i, p)
  <1>1. p \in On(i)
    BY DEF On
  <1> QED  BY <1>1 DEF Truth, Right

\* It runs a stanza, which may fail.
LEMMA TruthRun ==
  ASSUME Typed, Truth, Failures, NEW p \in Procs, RunStanza(p)
  PROVE  Truth' /\ Failures'
  <1>1. /\ proc[p] \in Process /\ proc[p].pc = "run" /\ proc[p].k <= Stanzas[proc[p].at[2]]
        /\ proc[p].at[1] \in Ifaces /\ proc[p].at[2] \in Logicals
        /\ proc[p].k \in 1..(Stanzas[proc[p].at[2]] + 1)
    BY AtWorkParts DEF RunStanza, AtWork
  <1>2. PICK l, k : l = proc[p].at[2] /\ k = proc[p].k
    OBVIOUS
  <1>3. PICK b \in BOOLEAN :
          /\ Step(p, [proc[p] EXCEPT !.k = @ + 1, !.failure = b])
          /\ ~b => ~proc[p].failure
          /\ b => proc[p].at[1] \in failed'
          /\ \/ conf' = Configured(p) /\ failed' = failed
             \/ conf' \in {conf, Configured(p)} /\ failed' = failed \cup {proc[p].at[1]} /\ b
    <2>1. proc[p].failure \in BOOLEAN
      BY <1>1 DEF Process
    <2>2. [proc[p] EXCEPT !.k = @ + 1] = [proc[p] EXCEPT !.k = @ + 1, !.failure = proc[p].failure]
      BY <1>1 DEF Process
    <2>3. proc[p].failure => proc[p].at[1] \in failed
      BY DEF Failures
    <2>4. CASE /\ conf' = Configured(p)
               /\ Step(p, [proc[p] EXCEPT !.k = @ + 1])
               /\ UNCHANGED failed
      BY <2>1, <2>2, <2>3, <2>4, Zenon
    <2>5. CASE /\ conf' \in {conf, Configured(p)}
               /\ Step(p, [proc[p] EXCEPT !.k = @ + 1, !.failure = TRUE])
               /\ failed' = failed \cup {proc[p].at[1]}
      <3>1. proc[p].at[1] \in failed'
        BY <2>5
      <3> QED  BY <2>5, <3>1, Zenon
    <2> QED  BY <2>4, <2>5 DEF RunStanza
  <1>4. /\ proc'[p].at = proc[p].at /\ proc'[p].cmd = proc[p].cmd /\ proc'[p].k = k + 1
        /\ proc'[p].failure = b /\ \A q \in Procs : q # p => proc'[q] = proc[q]
    <2> DEFINE u == [proc[p] EXCEPT !.k = @ + 1, !.failure = b]
    <2>1. u.at = proc[p].at /\ u.cmd = proc[p].cmd /\ u.k = k + 1 /\ u.failure = b
      BY <1>1, <1>2 DEF Process
    <2>2. Step(p, u)
      BY <1>3
    <2> HIDE DEF u
    <2> QED  BY <2>1, <2>2, SteppedTo
  <1>5. want' = want /\ robbed' = robbed /\ raced' = raced
    BY DEF RunStanza
  <1>6. failed \subseteq failed' /\ \A j : j # proc[p].at[1] => (j \in failed' <=> j \in failed)
    BY <1>3
  <1>7. Failures'
    BY <1>3, <1>4, <1>6 DEF Failures
  <1>8. SUFFICES ASSUME ~robbed, NEW j \in Ifaces \ raced  PROVE  Right(j)'
    BY <1>5, <1>7 DEF Truth
  <1>9. Right(j)
    BY <1>8 DEF Truth
  <1>10. CASE j # proc[p].at[1]
    <2>1. conf'[j] = conf[j]
      BY <1>1, <1>3, <1>10 DEF Configured, Typed, Files
    <2> QED  BY <1>4, <1>5, <1>6, <1>9, <1>10, <2>1, RightOther
  <1>11. CASE j = proc[p].at[1]
    <2>1. On(j) = {p} /\ Busy(j, p)
      BY <1>8, <1>11, OnlyOn
    <2>2. On(j)' = {p}
      BY <1>4, <2>1 DEF On
    <2>3. l \in Logicals /\ k <= Stanzas[l] /\ k \in 1..(Stanzas[l] + 1)
      BY <1>1, <1>2
    <2>4. Before(l, k + 1) = Before(l, k) \cup {<<l, k>>} /\ <<l, k>> \in AllOf(l)
      BY <2>3, Stanzaed
    <2>5. Configured(p)[j] = IF proc[p].cmd.up THEN conf[j] \cup {<<l, k>>} ELSE conf[j] \ {<<l, k>>}
      BY <1>1, <1>2, <1>11 DEF Configured, Stanza, Typed, Files
    <2>6. \/ conf'[j] = Configured(p)[j] /\ (j \in failed' <=> j \in failed)
          \/ conf'[j] \in {conf[j], Configured(p)[j]} /\ j \in failed' /\ b
      BY <1>3, <1>11
    <2>7. /\ want[j] \in {None, l} /\ want'[j] = want[j]
          /\ proc'[p].at[2] = l /\ proc'[p].k = k + 1 /\ proc'[p].cmd.up = proc[p].cmd.up
      BY <1>2, <1>4, <1>5, <2>1 DEF Busy
    <2>8. CASE proc[p].cmd.up
      <3>1. /\ ~proc[p].failure => Before(l, k) \subseteq conf[j]
            /\ want[j] = l => AllOf(l) \subseteq conf[j]
            /\ j \notin failed => conf[j] \subseteq (IF want[j] = None THEN Before(l, k) ELSE AllOf(l))
        BY <1>2, <2>1, <2>8 DEF Busy
      <3>2. conf[j] \subseteq conf'[j] /\ conf'[j] \subseteq conf[j] \cup {<<l, k>>}
        BY <2>5, <2>6, <2>8
      <3>3. ~b => Before(l, k + 1) \subseteq conf'[j]
        BY <1>3, <2>4, <2>5, <2>6, <2>8, <3>1
      <3>4. want[j] = l => AllOf(l) \subseteq conf'[j]
        BY <3>1, <3>2
      <3>5. j \notin failed' => conf'[j] \subseteq (IF want[j] = None THEN Before(l, k + 1) ELSE AllOf(l))
        BY <1>6, <2>4, <3>1, <3>2
      <3>6. Busy(j, p)'
        BY <1>4, <2>7, <2>8, <3>3, <3>4, <3>5 DEF Busy
      <3> QED  BY <2>2, <3>6 DEF Right
    <2>9. CASE ~proc[p].cmd.up
      <3>1. j \notin failed => conf[j] \subseteq AllOf(l) \ Before(l, k)
        BY <1>2, <2>1, <2>9 DEF Busy
      <3>2. j \notin failed' => conf'[j] \subseteq AllOf(l) \ Before(l, k + 1)
        BY <1>6, <2>4, <2>5, <2>6, <2>9, <3>1
      <3>3. Busy(j, p)'
        BY <2>7, <2>9, <3>2 DEF Busy
      <3> QED  BY <2>2, <3>3 DEF Right
    <2> QED  BY <2>8, <2>9
  <1> QED  BY <1>10, <1>11

\* A process leaves its interface: to the next one, or because it is killed.
LEMMA TruthLeaves ==
  ASSUME Typed, Truth, Failures, NEW p \in Procs, proc'[p].at = NoLine, ~proc'[p].failure,
         \A q \in Procs : q # p =>
            /\ proc'[q].at = proc[q].at /\ proc'[q].cmd = proc[q].cmd
            /\ proc'[q].k = proc[q].k /\ proc'[q].failure = proc[q].failure,
         \A j \in Ifaces : j # proc[p].at[1] => want'[j] = want[j],
         conf' = conf, robbed' = robbed, raced \subseteq raced', failed' = failed,
         \A j \in Ifaces \ raced' : ~robbed /\ j = proc[p].at[1] => Free(j)'
  PROVE  Truth' /\ Failures'
  <1>1. Failures'
    BY DEF Failures
  <1>2. SUFFICES ASSUME ~robbed, NEW j \in Ifaces \ raced'  PROVE  Right(j)'
    BY <1>1 DEF Truth
  <1>3. Right(j) /\ j \in Ifaces \ raced /\ proc'[p].at[1] # j
    BY <1>2, NowhereOn DEF Truth
  <1>4. CASE j # proc[p].at[1]
    <2>1. conf'[j] = conf[j] /\ want'[j] = want[j] /\ (j \in failed' <=> j \in failed)
      BY <1>3, <1>4
    <2> QED  BY <1>3, <1>4, <2>1, RightOther
  <1>5. CASE j = proc[p].at[1]
    <2>1. On(j) = {p}
      BY <1>2, <1>3, <1>5, OnlyOn
    <2>2. On(j)' = {}
      BY <1>3, <2>1 DEF On
    <2>3. Free(j)'
      BY <1>2, <1>5
    <2> QED  BY <2>2, <2>3 DEF Right
  <1> QED  BY <1>4, <1>5

\* "ignoring unknown interface": nothing was done to it.
LEMMA TruthIgnores ==
  ASSUME Typed, Truth, Failures, NEW p \in Procs, RunEnds(p), Step(p, NextTarget(proc[p])),
         Stanzas[proc[p].at[2]] = 0
  PROVE  Truth' /\ Failures'
  <1>1. /\ proc[p].pc = "run" /\ proc[p].k = 1 /\ proc[p] \in WellFormed /\ proc[p].at[2] \in Logicals
        /\ proc[p].at[2] # None
    BY AtWorkParts, LineParts DEF RunEnds, AtWork
  <1>2. NextTarget(proc[p]).at = NoLine /\ ~NextTarget(proc[p]).failure
    BY <1>1, NextTargetType DEF WellFormed, AtWork
  <1>3. proc'[p] = NextTarget(proc[p]) /\ \A q \in Procs : q # p => proc'[q] = proc[q]
    BY SteppedTo
  <1>4. conf' = conf /\ want' = want /\ robbed' = robbed /\ raced' = raced /\ failed' = failed
    BY DEF RunEnds, ghosts
  <1>5. ASSUME NEW j \in Ifaces \ raced, ~robbed, j = proc[p].at[1]  PROVE  Free(j)'
    <2>1. Busy(j, p)
      BY <1>5, OnlyOn
    <2>2. AllOf(proc[p].at[2]) = {} /\ Before(proc[p].at[2], 1) = {}
      BY DEF AllOf, Before
    <2>3. want[j] \in {None, proc[p].at[2]} /\ (j \notin failed => conf[j] = {})
      BY <1>1, <2>1, <2>2 DEF Busy
    <2>4. Free(j)
      BY <1>1, <2>2, <2>3 DEF Free
    <2> QED  BY <1>4, <2>4 DEF Free
  <1> QED  BY <1>2, <1>3, <1>4, <1>5, TruthLeaves

\* It has recorded the interface.
LEMMA TruthRenames ==
  ASSUME Typed, Truth, Failures, NEW p \in Procs, Rename(p)
  PROVE  Truth' /\ Failures'
  <1>1. /\ proc[p].pc = "rename" /\ proc[p] \in WellFormed /\ proc[p].at \in Line
        /\ proc[p].at[1] \in Ifaces /\ proc[p].at[2] \in Logicals /\ proc[p].at[2] # None
        /\ proc[p].k \in 1..(Stanzas[proc[p].at[2]] + 1) /\ proc[p].k > Stanzas[proc[p].at[2]]
    BY AtWorkParts, LineParts DEF Rename, AtWork
  <1>2. NextTarget(proc[p]).at = NoLine /\ ~NextTarget(proc[p]).failure
    BY <1>1, NextTargetType DEF WellFormed, AtWork
  <1>3. proc'[p] = NextTarget(proc[p])
    BY DEF Rename
  <1>4. ASSUME NEW q \in Procs, q # p
        PROVE  /\ proc'[q].at = proc[q].at /\ proc'[q].cmd = proc[q].cmd
               /\ proc'[q].k = proc[q].k /\ proc'[q].failure = proc[q].failure
    <2>1. proc[q] \in Process
      BY AtWorkParts
    <2>2. proc'[q] = [proc[q] EXCEPT !.fd = Moved(@)]
      BY <1>4 DEF Rename
    <2> QED  BY <2>1, <2>2 DEF Process
  <1>5. conf' = conf /\ robbed' = robbed /\ raced' = raced /\ failed' = failed
    BY DEF Rename
  <1>6. \A j \in Ifaces : want'[j] = IF j = proc[p].at[1] THEN Result(proc[p]) ELSE want[j]
    BY DEF Rename, Typed, Files, Result
  <1>7. ASSUME NEW j \in Ifaces \ raced, ~robbed, j = proc[p].at[1]  PROVE  Free(j)'
    <2>1. Busy(j, p)
      BY <1>7, OnlyOn
    <2>2. Before(proc[p].at[2], proc[p].k) = AllOf(proc[p].at[2])
      BY <1>1, Stanzaed
    <2>3. want'[j] = Result(proc[p])
      BY <1>6, <1>7
    <2>4. CASE proc[p].cmd.up /\ ~proc[p].failure
      <3>1. Result(proc[p]) = proc[p].at[2]
        BY <2>4 DEF Result
      <3>2. AllOf(proc[p].at[2]) \subseteq conf[j] /\ (j \notin failed => conf[j] \subseteq AllOf(proc[p].at[2]))
        BY <2>1, <2>2, <2>4 DEF Busy
      <3> QED  BY <1>1, <1>5, <2>3, <3>1, <3>2 DEF Free
    <2>5. CASE proc[p].failure
      <3>1. Result(proc[p]) = None /\ j \in failed
        BY <1>7, <2>5 DEF Result, Failures
      <3> QED  BY <1>5, <2>3, <3>1 DEF Free
    <2>6. CASE ~proc[p].cmd.up
      <3>1. Result(proc[p]) = None /\ (j \notin failed => conf[j] = {})
        BY <2>1, <2>2, <2>6 DEF Result, Busy
      <3> QED  BY <1>5, <2>3, <3>1 DEF Free
    <2> QED  BY <2>4, <2>5, <2>6
  <1> QED  BY <1>2, <1>3, <1>4, <1>5, <1>6, <1>7, TruthLeaves

\* The process is killed, or finds ifstate.new renamed by another.
LEMMA TruthEnds ==
  ASSUME Typed, Owner, Truth, Failures, NEW p \in Procs, Crash(p) \/ RenameFails(p)
  PROVE  Truth' /\ Failures'
  <1>1. proc'[p] = Idle /\ \A q \in Procs : q # p => proc'[q] = proc[q]
    BY SteppedTo DEF Crash, RenameFails
  <1>2. Idle.at = NoLine /\ ~Idle.failure
    BY DEF Idle
  <1>3. conf' = conf /\ want' = want /\ robbed' = robbed /\ failed' = failed /\ raced \subseteq raced'
    BY DEF Crash, RenameFails, ghosts
  <1>4. ASSUME NEW j \in Ifaces \ raced', ~robbed, j = proc[p].at[1]  PROVE  FALSE
    <2>1. CASE Crash(p)
      BY <1>4, <2>1 DEF Crash
    <2>2. CASE RenameFails(p)
      BY <1>4, <2>2 DEF RenameFails, Owner, Held, Owns
    <2> QED  BY <2>1, <2>2
  <1> QED  BY <1>1, <1>2, <1>3, <1>4, TruthLeaves

\* The steps that change nothing Truth is about.
LEMMA TruthAside ==
  ASSUME Typed, Truth, Failures, NEW p \in Procs,
         \/ Skip(p) \/ Open(p) \/ Wait(p) \/ TakeOver(p) \/ Read(p) \/ Write(p)
         \/ (RunEnds(p) /\ Step(p, [proc[p] EXCEPT !.pc = "open"]))
         \/ \E c \in Commands : Start(p, c)
  PROVE  Truth' /\ Failures'
  <1>1. conf' = conf /\ want' = want /\ raced' = raced /\ failed' = failed
    BY DEF Skip, Open, Wait, TakeOver, Read, Write, RunEnds, Start, ghosts
  <1>2. robbed => robbed'
    <2>1. CASE TakeOver(p)
      BY <2>1, Zenon DEF TakeOver
    <2>2. CASE ~TakeOver(p)
      BY <2>2 DEF Skip, Open, Wait, Read, Write, RunEnds, Start, ghosts
    <2> QED  BY <2>1, <2>2
  <1>3. proc[p] \in WellFormed /\ proc[p] \in Process
    BY AtWorkParts
  <1>4. PICK u : /\ Step(p, u) /\ u.at = proc[p].at /\ (u.failure => proc[p].failure)
                 /\ proc[p].at # NoLine =>
                      u.cmd = proc[p].cmd /\ u.k = proc[p].k /\ u.failure = proc[p].failure
    <2>1. CASE Skip(p)
      <3>1. proc[p].pc = "check" /\ proc[p].at = NoLine
        BY <1>3, <2>1 DEF Skip, WellFormed, AtWork
      <3>2. NextTarget(proc[p]).at = NoLine /\ ~NextTarget(proc[p]).failure
        BY <1>3, <3>1, NextTargetType DEF WellFormed, AtWork
      <3> QED  BY <2>1, <3>1, <3>2 DEF Skip
    <2>2. CASE \E c \in Commands : Start(p, c)
      <3>1. PICK c : Step(p, [Idle EXCEPT !.pc = "check", !.cmd = c])
        BY <2>2 DEF Start
      <3> DEFINE u == [Idle EXCEPT !.pc = "check", !.cmd = c]
      <3>2. u.at = NoLine /\ ~u.failure
        BY DEF Idle
      <3>3. proc[p].at = NoLine
        BY <1>3, <2>2 DEF Start, WellFormed, AtWork
      <3> QED  BY <3>1, <3>2, <3>3
    <2>3. CASE Open(p) \/ TakeOver(p)
      <3> DEFINE u == [proc[p] EXCEPT !.pc = "read", !.fd = "new"]
      <3>1. Step(p, u)
        BY <2>3 DEF Open, TakeOver
      <3>2. u.at = proc[p].at /\ u.cmd = proc[p].cmd /\ u.k = proc[p].k /\ u.failure = proc[p].failure
        BY <1>3 DEF Process
      <3> QED  BY <3>1, <3>2
    <2>4. CASE Wait(p)
      BY <1>3, <2>4 DEF Wait, Process
    <2>5. CASE Read(p)
      <3> DEFINE list == Updated(ReadIfaceState, p)
                 u == [proc[p] EXCEPT !.pc = "write", !.list = list]
      <3>1. Step(p, u)
        BY <2>5 DEF Read
      <3> HIDE DEF list
      <3>2. u.at = proc[p].at /\ u.cmd = proc[p].cmd /\ u.k = proc[p].k /\ u.failure = proc[p].failure
        BY <1>3 DEF Process
      <3> QED  BY <3>1, <3>2
    <2>6. CASE Write(p)
      <3> DEFINE u == [proc[p] EXCEPT !.pc = "rename", !.list = << >>, !.fd = None]
      <3>1. Step(p, u)
        BY <2>6 DEF Write
      <3>2. u.at = proc[p].at /\ u.cmd = proc[p].cmd /\ u.k = proc[p].k /\ u.failure = proc[p].failure
        BY <1>3 DEF Process
      <3> QED  BY <3>1, <3>2
    <2>7. CASE Step(p, [proc[p] EXCEPT !.pc = "open"])
      BY <1>3, <2>7 DEF Process
    <2> QED  BY <2>1, <2>2, <2>3, <2>4, <2>5, <2>6, <2>7
  <1>5. proc'[p] = u /\ \A q \in Procs : q # p => proc'[q] = proc[q]
    BY <1>4, SteppedTo
  <1> QED  BY <1>1, <1>2, <1>4, <1>5, TruthSame

LEMMA NextTruth ==
  Typed /\ Owner /\ Saved /\ Truth /\ Failures /\ [Next]_vars => Truth' /\ Failures'
  <1> SUFFICES ASSUME Typed, Owner, Saved, Truth, Failures, [Next]_vars  PROVE  Truth' /\ Failures'
    OBVIOUS
  <1>1. ASSUME NEW p \in Procs, Ifupdown(p) \/ Crash(p) \/ \E c \in Commands : Start(p, c)
        PROVE  Truth' /\ Failures'
    <2>1. CASE RunEnds(p)
      BY <2>1, TruthIgnores, TruthAside DEF RunEnds
    <2> QED  BY <1>1, <2>1, TruthBegin, TruthRun, TruthRenames, TruthEnds, TruthAside DEF Ifupdown
  <1>2. CASE UNCHANGED vars
    BY <1>2, TruthSame DEF vars, ghosts
  <1> QED  BY <1>1, <1>2 DEF Next

LEMMA InitTruth == Init => Truth /\ Failures
  <1> SUFFICES ASSUME Init  PROVE  Truth /\ Failures
    OBVIOUS
  <1>1. \A p \in Procs : proc[p] = Idle /\ proc[p].at = NoLine /\ ~proc[p].failure
    BY DEF Init, Idle
  <1>2. ASSUME NEW i \in Ifaces  PROVE  Right(i)
    <2>1. On(i) = {}
      BY <1>1, NowhereOn DEF On
    <2>2. i # None
      BY IfUpDownAssumption
    <2>3. Free(i)
      BY <2>2 DEF Init, Free
    <2> QED  BY <2>1, <2>3 DEF Right
  <1> QED  BY <1>1, <1>2 DEF Truth, Failures

\* Truth says more than StateTruth.
LEMMA TruthShown == Typed /\ Saved /\ Truth => StateTruth
  <1> SUFFICES ASSUME Typed, Saved, Truth, ~robbed, NEW i \in Ifaces \ raced, On(i) = {}
               PROVE  /\ Recorded(i) # None => AllOf(Recorded(i)) \subseteq conf[i]
                      /\ Recorded(i) = None /\ i \notin failed => conf[i] = {}
    BY DEF StateTruth
  <1>1. Recorded(i) = want[i] /\ Free(i)
    BY DEF Saved, Truth, Right
  <1> QED  BY <1>1 DEF Free

\* ifupdown_main(): the state file tells the truth about every interface that no
\* command works on, except those that StateTruth names.
THEOREM FileTellsTruth == Spec => []StateTruth
  <1> QED  BY InitTyped, NextTyped, InitOwner, NextOwner, InitTruth, NextTruth, TruthShown, PTL DEF Spec
=============================================================================
