--------------------------- MODULE LogRing_proofs ---------------------------
(***************************************************************************)
(* What is proved of the circular buffer and its semaphores, for a buffer  *)
(* of any size, messages of any length and any number of logread processes.*)
(***************************************************************************)
EXTENDS LogRing, FiniteSetTheorems, SequenceTheorems, NaturalsInduction,
        WellFoundedInduction, TLAPS

USE DEF NUL

\* Where a logread may be.
Locs == {"start", "lock", "read", "unlock", "exit"}

\* Who holds the read semaphore.
Reading(r) == rpc[r] \in {"read", "unlock"}
Holders == {r \in Readers : Reading(r)}

\* What is still to be copied are bytes of messages; every message has a length.
CopyType == msg \in Seq(0..MaxMsgs) /\ lens \in Seq(Nat)

\* sem0 counts the readers that hold it, sem1 is 1 while the writer copies (and
\* for ever once it was killed then), and the two exclude each other.
Semaphores ==
  /\ sem0 = Cardinality(Holders)
  /\ wpc \in {"copy", "unlock"} => sem1 = 1
  /\ sem1 = 1 => Holders = {}

-----------------------------------------------------------------------------
LEMMA HoldersFinite ==
  IsFiniteSet(Holders) /\ Cardinality(Holders) \in 0..Cardinality(Readers)
  BY LogRingAssumption, FS_Subset, FS_CardinalityType DEF Holders

\* A reader comes to hold the semaphore.
LEMMA HolderAdded ==
  ASSUME NEW r \in Readers, rpc \in [Readers -> Locs], NEW l \in {"read", "unlock"},
         ~Reading(r), rpc' = [rpc EXCEPT ![r] = l]
  PROVE  Holders' = Holders \cup {r} /\ Cardinality(Holders') = Cardinality(Holders) + 1
  <1>1. Holders' = Holders \cup {r}
    BY DEF Holders, Reading
  <1>2. r \notin Holders
    BY DEF Holders
  <1> QED  BY <1>1, <1>2, HoldersFinite, FS_AddElement

\* It gives the semaphore back.
LEMMA HolderRemoved ==
  ASSUME NEW r \in Readers, rpc \in [Readers -> Locs], NEW l \in {"lock", "exit"},
         Reading(r), rpc' = [rpc EXCEPT ![r] = l]
  PROVE  Holders' = Holders \ {r} /\ Cardinality(Holders') = Cardinality(Holders) - 1
  <1>1. Holders' = Holders \ {r}
    BY DEF Holders, Reading
  <1>2. r \in Holders
    BY DEF Holders
  <1> QED  BY <1>1, <1>2, HoldersFinite, FS_RemoveElement

\* It does neither.
LEMMA HoldersSame ==
  ASSUME NEW r \in Readers, rpc \in [Readers -> Locs], NEW l,
         Reading(r) <=> l \in {"read", "unlock"}, rpc' = [rpc EXCEPT ![r] = l]
  PROVE  Holders' = Holders
  BY DEF Holders, Reading

-----------------------------------------------------------------------------
\* Bytes stored between tail and the end leave the last byte alone.
LEMMA StoredType ==
  ASSUME TypeOK, NEW m \in Seq(0..MaxMsgs), tail + Len(m) <= size
  PROVE  Stored(tail, m) \in [0..size -> 0..MaxMsgs] /\ Stored(tail, m)[size] = NUL
  <1>1. tail \in 0..(size - 1) /\ size \in Nat
    BY LogRingAssumption DEF TypeOK
  <1>2. ASSUME NEW k \in 0..size
        PROVE  (IF k \in tail..(tail + Len(m) - 1) THEN m[k - tail + 1] ELSE data[k]) \in 0..MaxMsgs
    <2>1. CASE k \in tail..(tail + Len(m) - 1)
      <3>1. k - tail + 1 \in 1..Len(m)
        BY <1>1, <2>1
      <3>2. m[k - tail + 1] \in 0..MaxMsgs
        BY <3>1, ElementOfSeq
      <3> QED  BY <2>1, <3>2
    <2>2. CASE k \notin tail..(tail + Len(m) - 1)
      BY <2>2 DEF TypeOK
    <2> QED  BY <2>1, <2>2
  <1>3. size \notin tail..(tail + Len(m) - 1) /\ size \in 0..size
    BY <1>1
  <1> QED  BY <1>2, <1>3 DEF Stored, TypeOK

\* The smaller one of two numbers.
LEMMA MinIs ==
  ASSUME NEW n \in Nat, NEW k \in Nat
  PROVE  Min({n, k}) = IF n <= k THEN n ELSE k
  <1> DEFINE IsLeast(x) == x \in {n, k} /\ \A y \in {n, k} : x <= y
  <1>1. IsLeast(IF n <= k THEN n ELSE k)
    OBVIOUS
  <1>2. IsLeast(CHOOSE x : IsLeast(x))
    BY <1>1
  <1>3. Min({n, k}) = CHOOSE x : IsLeast(x)
    BY DEF Min
  <1> QED  BY <1>2, <1>3

\* One turn of the loop in log_to_shmem().
LEMMA CopyTypes ==
  ASSUME TypeOK, CopyType, Copy
  PROVE  TypeOK' /\ CopyType'
  <1> tail \in 0..(size - 1) /\ size \in Nat \ {0} /\ msg \in Seq(0..MaxMsgs) /\ Len(msg) \in Nat
    BY LogRingAssumption DEF TypeOK, CopyType
  <1>1. /\ data' \in [0..size -> 0..MaxMsgs] /\ data'[size] = NUL /\ tail' \in 0..(size - 1)
        /\ wpc' \in {"idle", "lock", "copy", "unlock"}
        /\ msg' \in Seq(0..MaxMsgs) /\ Len(msg) - Len(msg') \in Nat
    <2>1. CASE Fits(Len(msg))
      <3>1. /\ data' = Stored(tail, msg) /\ tail' = tail + Len(msg) /\ msg' = << >>
            /\ wpc' = "unlock" /\ tail + Len(msg) < size
        BY <2>1 DEF Copy, Fits
      <3>2. msg' \in Seq(0..MaxMsgs) /\ Len(msg') = 0
        BY <3>1
      <3> QED  BY <3>1, <3>2, StoredType
    <2>2. CASE ~Fits(Len(msg))
      <3> DEFINE k == size - tail
      <3>1. k \in 1..Len(msg)
        BY <2>2 DEF Fits
      <3>2. /\ data' = Stored(tail, SubSeq(msg, 1, k)) /\ tail' = 0
            /\ msg' = SubSeq(msg, k + 1, Len(msg)) /\ wpc' = wpc
        BY <2>2 DEF Copy
      <3> HIDE DEF k
      <3>0. \A i \in 1..Len(msg) : msg[i] \in 0..MaxMsgs
        BY ElementOfSeq
      <3>3. SubSeq(msg, 1, k) \in Seq(0..MaxMsgs) /\ Len(SubSeq(msg, 1, k)) = k
        <4>1. k \in Int /\ 1 <= k /\ k - 1 + 1 = k /\ \A i \in 1..k : msg[i] \in 0..MaxMsgs
          BY <3>0, <3>1
        <4>2. /\ SubSeq(msg, 1, k) \in Seq(0..MaxMsgs)
              /\ Len(SubSeq(msg, 1, k)) = IF 1 <= k THEN k - 1 + 1 ELSE 0
          BY <4>1, SubSeqProperties
        <4> QED  BY <4>1, <4>2
      <3>4. /\ SubSeq(msg, k + 1, Len(msg)) \in Seq(0..MaxMsgs)
            /\ Len(SubSeq(msg, k + 1, Len(msg))) = Len(msg) - k
        <4>1. k + 1 \in Int /\ Len(msg) \in Int /\ \A i \in (k + 1)..Len(msg) : msg[i] \in 0..MaxMsgs
          BY <3>0, <3>1
        <4>2. /\ SubSeq(msg, k + 1, Len(msg)) \in Seq(0..MaxMsgs)
              /\ Len(SubSeq(msg, k + 1, Len(msg)))
                   = IF k + 1 <= Len(msg) THEN Len(msg) - (k + 1) + 1 ELSE 0
          BY <4>1, SubSeqProperties
        <4> QED  BY <3>1, <4>2
      <3>5. tail + k = size
        BY DEF k
      <3>6. data' \in [0..size -> 0..MaxMsgs] /\ data'[size] = NUL
        <4>1. tail + Len(SubSeq(msg, 1, k)) <= size
          BY <3>3, <3>5
        <4> QED  BY <3>2, <3>3, <4>1, StoredType
      <3> QED  BY <3>1, <3>2, <3>4, <3>6, SMTT(30) DEF TypeOK
    <2> QED  BY <2>1, <2>2
  <1>2. behind' \in [Readers -> 0..size]
    <2>1. ASSUME NEW r \in Readers
          PROVE  Min({size, behind[r] + Len(msg) - Len(msg')}) \in 0..size
      <3>1. behind[r] \in Nat /\ Len(msg') \in Nat /\ Len(msg) - Len(msg') \in Nat
        BY <1>1, LenProperties DEF TypeOK
      <3>2. behind[r] + Len(msg) - Len(msg') \in Nat
        BY <3>1
      <3> QED  BY <3>2, MinIs
    <2> QED  BY <2>1 DEF Copy
  <1> QED  BY <1>1, <1>2 DEF TypeOK, CopyType, Copy, reader

\* The readers' positions and their hold on the semaphore; sem0's bound comes
\* from Semaphores.
LEMMA TypesStep ==
  ASSUME TypeOK, CopyType, Semaphores, sem0' \in 0..Cardinality(Readers), [Next]_vars
  PROVE  TypeOK' /\ CopyType'
  <1> USE LogRingAssumption DEF TypeOK, CopyType
  <1>1. ASSUME NEW n \in Lens, Message(n)  PROVE  TypeOK' /\ CopyType'
    <2>1. n + 1 \in Nat /\ count + 1 \in 0..MaxMsgs
      BY <1>1 DEF Message
    <2>2. [k \in 1..(n + 1) |-> IF k = n + 1 THEN NUL ELSE count + 1] \in [1..(n + 1) -> 0..MaxMsgs]
      BY <2>1
    <2>3. msg' \in Seq(0..MaxMsgs)
      BY <1>1, <2>1, <2>2, SeqDef DEF Message
    <2>4. lens' \in Seq(Nat) /\ Len(lens') = count'
      <3>1. n \in Nat /\ lens' = Append(lens, n) /\ count' = count + 1
        BY <1>1 DEF Message
      <3>2. lens \in Seq(Nat) /\ Len(lens) = count
        OBVIOUS
      <3> HIDE DEF TypeOK, CopyType
      <3>3. Append(lens, n) \in Seq(Nat) /\ Len(Append(lens, n)) = Len(lens) + 1
        BY <3>1, <3>2, AppendProperties
      <3> QED  BY <3>1, <3>2, <3>3
    <2> QED  BY <1>1, <2>1, <2>3, <2>4 DEF Message, shbuf, reader, seen
  <1>2. CASE WriterLock
    BY <1>2 DEF WriterLock, shbuf, reader, seen
  <1>3. CASE Copy
    BY <1>3, CopyTypes
  <1>4. CASE WriterUnlock
    BY <1>4 DEF WriterUnlock, shbuf, reader, seen, Semaphores
  <1>5. CASE Killed
    BY <1>5, SMTT(30) DEF Killed, reader, seen
  <1>6. ASSUME NEW r \in Readers, Attach(r)  PROVE  TypeOK' /\ CopyType'
    <2>1. cur' \in [Readers -> 0..(size - 1)] /\ behind' \in [Readers -> 0..size]
      <3>1. cur' = [cur EXCEPT ![r] = tail] /\ behind' = [behind EXCEPT ![r] = 0]
        BY <1>6, Zenon DEF Attach
      <3> QED  BY <3>1, SMTT(30)
    <2>2. rpc' \in [Readers -> {"start", "lock", "read", "unlock", "exit"}]
      BY <1>6 DEF Attach, Goto
    <2>3. UNCHANGED <<data, tail, sem0, sem1, wpc, msg, count, lens>>
      BY <1>6 DEF Attach, shbuf, writer
    <2> QED  BY <2>1, <2>2, <2>3
  <1>7. ASSUME NEW r \in Readers, ReaderLock(r)  PROVE  TypeOK' /\ CopyType'
    BY <1>7 DEF ReaderLock, Goto, shbuf, writer, seen
  <1>8. ASSUME NEW r \in Readers, ReadDump(r)  PROVE  TypeOK' /\ CopyType'
    BY <1>8 DEF ReadDump, Goto, shbuf, writer, seen
  <1>9. ASSUME NEW r \in Readers, ReadNew(r)  PROVE  TypeOK' /\ CopyType'
    BY <1>9, SMTT(30) DEF ReadNew, Goto, shbuf, writer
  <1>10. ASSUME NEW r \in Readers, ReaderUnlock(r) \/ ReaderKilled(r)  PROVE  TypeOK' /\ CopyType'
    <2>1. CASE Goto(r, "lock") /\ UNCHANGED <<cur, upto, out, seen>>
      BY <1>10, <2>1 DEF ReaderUnlock, ReaderKilled, Goto, shbuf, writer, seen
    <2>2. CASE Exits(r)
      <3>1. /\ rpc' = [rpc EXCEPT ![r] = "exit"] /\ cur' = [cur EXCEPT ![r] = 0]
            /\ behind' = [behind EXCEPT ![r] = 0]
        BY <2>2 DEF Exits, Goto
      <3>2. UNCHANGED <<data, tail, sem1, wpc, msg, count, lens>>
        BY <1>10 DEF ReaderUnlock, ReaderKilled, shbuf, writer
      <3> QED  BY <3>1, <3>2, SMTT(30)
    <2> QED  BY <1>10, <2>1, <2>2 DEF ReaderUnlock, ReaderKilled
  <1>11. CASE UNCHANGED vars
    BY <1>11 DEF vars, shbuf, writer, reader, seen
  <1> QED  BY <1>1, <1>2, <1>3, <1>4, <1>5, <1>6, <1>7, <1>8, <1>9, <1>10, <1>11
           DEF Next, WriterStep, ReaderStep

\* Every semop() keeps sem0 the number of readers inside, and sem1 and the
\* readers apart.
LEMMA SemaphoresStep ==
  ASSUME TypeOK, Semaphores, [Next]_vars
  PROVE  Semaphores'
  <1> rpc \in [Readers -> Locs] /\ sem0 \in Nat /\ sem1 \in 0..1
    <2>1. Cardinality(Readers) \in Nat
      BY LogRingAssumption, FS_CardinalityType
    <2> QED  BY <2>1 DEF TypeOK, Locs
  <1>0. ASSUME rpc' = rpc  PROVE  Holders' = Holders
    BY <1>0 DEF Holders, Reading
  <1>1. ASSUME NEW n \in Lens, Message(n)  PROVE  Semaphores'
    BY <1>0, <1>1 DEF Semaphores, Message, reader
  <1>2. CASE WriterLock
    <2>1. Holders = {}
      <3>1. Cardinality(Holders) = 0
        BY <1>2 DEF WriterLock, Semaphores
      <3> QED  BY <3>1, HoldersFinite, FS_EmptySet
    <2>2. Holders' = Holders /\ sem1' = 1 /\ sem0' = sem0
      BY <1>0, <1>2 DEF WriterLock, reader
    <2> QED  BY <2>1, <2>2 DEF Semaphores
  <1>3. CASE Copy
    BY <1>0, <1>3 DEF Semaphores, Copy, reader
  <1>4. CASE WriterUnlock
    BY <1>0, <1>4 DEF Semaphores, WriterUnlock, reader
  <1>5. CASE Killed
    BY <1>0, <1>5 DEF Semaphores, Killed, reader
  <1>6. ASSUME NEW r \in Readers, Attach(r)  PROVE  Semaphores'
    <2>1. Holders' = Holders
      BY <1>6, HoldersSame DEF Attach, Goto, Reading
    <2> QED  BY <1>6, <2>1 DEF Semaphores, Attach, writer
  <1>7. ASSUME NEW r \in Readers, ReaderLock(r)  PROVE  Semaphores'
    <2>1. Cardinality(Holders') = Cardinality(Holders) + 1
      BY <1>7, HolderAdded DEF ReaderLock, Goto, Reading
    <2> QED  BY <1>7, <2>1 DEF Semaphores, ReaderLock, writer
  <1>8. ASSUME NEW r \in Readers, ReadDump(r) \/ ReadNew(r)  PROVE  Semaphores'
    <2>1. Holders' = Holders
      BY <1>8, HoldersSame DEF ReadDump, ReadNew, Goto, Reading
    <2> QED  BY <1>8, <2>1 DEF Semaphores, ReadDump, ReadNew, writer
  <1>9. ASSUME NEW r \in Readers, Reading(r), NEW l \in {"lock", "exit"},
               Goto(r, l), sem0' = sem0 - 1, UNCHANGED <<sem1, writer>>
        PROVE  Semaphores'
    <2>1. Holders' = Holders \ {r} /\ Cardinality(Holders') = Cardinality(Holders) - 1
      BY <1>9, HolderRemoved DEF Goto
    <2> QED  BY <1>9, <2>1 DEF Semaphores, writer
  <1>10. ASSUME NEW r \in Readers, ReaderUnlock(r)  PROVE  Semaphores'
    BY <1>9, <1>10 DEF ReaderUnlock, Exits, Reading
  <1>11. ASSUME NEW r \in Readers, ReaderKilled(r)  PROVE  Semaphores'
    <2>1. CASE rpc[r] = "lock"
      <3>1. Holders' = Holders
        BY <1>11, <2>1, HoldersSame DEF ReaderKilled, Exits, Goto, Reading
      <3> QED  BY <1>11, <2>1, <3>1 DEF Semaphores, ReaderKilled, writer
    <2>2. CASE rpc[r] # "lock"
      <3>1. Reading(r)
        BY <1>11, <2>2 DEF ReaderKilled, Attached, TypeOK, Reading
      <3> QED  BY <1>9, <1>11, <2>2, <3>1 DEF ReaderKilled, Exits
    <2> QED  BY <2>1, <2>2
  <1>12. CASE UNCHANGED vars
    BY <1>0, <1>12 DEF Semaphores, vars, writer, reader
  <1> QED  BY <1>1, <1>2, <1>3, <1>4, <1>5, <1>6, <1>7, <1>8, <1>10, <1>11, <1>12
           DEF Next, WriterStep, ReaderStep

-----------------------------------------------------------------------------
\* Types and semaphores together are inductive.
Inv == TypeOK /\ CopyType /\ Semaphores

LEMMA InvCorrect == Spec => []Inv
  <1>1. Init => Inv
    <2> SUFFICES ASSUME Init  PROVE  Inv
      OBVIOUS
    <2>1. Holders = {}
      BY DEF Init, Holders, Reading
    <2>2. Cardinality({}) = 0 /\ Cardinality(Readers) \in Nat
      BY LogRingAssumption, FS_EmptySet, FS_CardinalityType
    <2>3. Semaphores
      BY <2>1, <2>2 DEF Init, Semaphores
    <2>4. TypeOK /\ CopyType
      BY <2>2, LogRingAssumption DEF Init, TypeOK, CopyType
    <2> QED  BY <2>3, <2>4 DEF Inv
  <1>2. Inv /\ [Next]_vars => Inv'
    <2> SUFFICES ASSUME Inv, [Next]_vars  PROVE  Inv'
      OBVIOUS
    <2>1. Semaphores'
      BY SemaphoresStep DEF Inv
    <2>2. sem0' \in 0..Cardinality(Readers)
      <3>1. (IsFiniteSet(Holders) /\ Cardinality(Holders) \in 0..Cardinality(Readers))'
        BY HoldersFinite, PTL
      <3> QED  BY <2>1, <3>1 DEF Semaphores
    <2> QED  BY <2>1, <2>2, TypesStep DEF Inv
  <1> QED  BY <1>1, <1>2, PTL DEF Spec

\* The types; tail stays below size and the last byte of the buffer is NUL for
\* ever, as the comments in log_to_shmem() and ipcsyslog_init() say.
THEOREM TypeCorrect == Spec => []TypeOK
  <1>1. Inv => TypeOK
    BY DEF Inv
  <1> QED  BY <1>1, InvCorrect, PTL

\* No logread is between its two semop() calls while log_to_shmem() copies, for
\* any number of readers and whoever is killed.
THEOREM ReadsWhole == Spec => []NoTornRead
  <1>1. Inv => NoTornRead
    <2> SUFFICES ASSUME Inv, NEW r \in Readers, Reading(r)  PROVE  wpc # "copy"
      BY DEF NoTornRead, Reading
    <2>1. Holders # {}
      BY DEF Holders
    <2> QED  BY <2>1 DEF Inv, Semaphores
  <1> QED  BY <1>1, InvCorrect, PTL

-----------------------------------------------------------------------------
(* Induction and recursion, for sets of naturals and functions on them.    *)
\* A set of naturals has a least element; the library's induction theorems are
\* about predicates, and here induction is needed for sets.
LEMMA Least ==
  ASSUME NEW T \in SUBSET Nat, T # {}
  PROVE  \E x \in T : \A y \in T : x <= y
  <1> DEFINE R == {ss \in Nat \X Nat : ss[1] < ss[2]}
  <1>1. IsWellFoundedOn(R, Nat)
    BY NatLessThanWellFounded DEF OpToRel
  <1> HIDE DEF R
  <1>2. PICK x \in T : \A y \in T : ~(<<y, x>> \in R)
    BY <1>1, WFMin
  <1>3. ASSUME NEW y \in T  PROVE  x <= y
    <2>1. x \in Nat /\ y \in Nat
      OBVIOUS
    <2>2. ~(y < x)
      BY <1>2, <2>1 DEF R
    <2> QED  BY <2>1, <2>2
  <1> QED  BY <1>3

\* Hence a set with 0 that has the successor of each member has all naturals.
LEMMA Induction ==
  ASSUME NEW S \in SUBSET Nat, 0 \in S, \A n \in S : n + 1 \in S
  PROVE  \A n \in Nat : n \in S
  <1> SUFFICES ASSUME Nat \ S # {}  PROVE  FALSE
    OBVIOUS
  <1>1. PICK x \in Nat \ S : \A y \in Nat \ S : x <= y
    BY Least
  <1>2. x \in Nat /\ x # 0 /\ x - 1 \in Nat /\ ~(x <= x - 1)
    OBVIOUS
  <1>3. x - 1 \in S
    BY <1>1, <1>2
  <1> QED  BY <1>2, <1>3

\* From a first value, a step at a time.
Steps(g, n, T) == \A k \in 1..n : \A t \in T : g[<<k, t>>] \in T
Runs(f, g, n, z) == f[0] = z /\ \A k \in 1..n : f[k] = g[<<k, f[k - 1]>>]

\* There is a function whose values are those.
LEMMA Recursion ==
  ASSUME NEW T, NEW n \in Nat, NEW z \in T, NEW g, Steps(g, n, T)
  PROVE  \E f \in [0..n -> T] : Runs(f, g, n, z)
  <1> USE DEF Steps, Runs
  <1> DEFINE Has(i) == \E f \in [0..i -> T] : Runs(f, g, i, z)
             Good == {i \in Nat : i <= n => Has(i)}
  <1>1. 0 \in Good
    <2> DEFINE f == [k \in 0..0 |-> z]
    <2>1. f \in [0..0 -> T] /\ f[0] = z /\ \A k \in 1..0 : f[k] = g[<<k, f[k - 1]>>]
      OBVIOUS
    <2> HIDE DEF f
    <2>2. Has(0)
      BY <2>1
    <2> HIDE DEF Has
    <2> QED  BY <2>2
  <1>2. ASSUME NEW i \in Good  PROVE  i + 1 \in Good
    <2> HIDE DEF Has
    <2> SUFFICES ASSUME i + 1 <= n  PROVE  Has(i + 1)
      OBVIOUS
    <2>1. i \in Nat /\ i <= n /\ Has(i)
      OBVIOUS
    <2> USE DEF Has
    <2>2. PICK f \in [0..i -> T] : f[0] = z /\ \A k \in 1..i : f[k] = g[<<k, f[k - 1]>>]
      BY <2>1
    <2> DEFINE h == [k \in 0..(i + 1) |-> IF k = i + 1 THEN g[<<i + 1, f[i]>>] ELSE f[k]]
    <2>3. i + 1 \in 1..n /\ i \in 0..i /\ f[i] \in T
      BY <2>1
    <2>4. g[<<i + 1, f[i]>>] \in T
      BY <2>3
    <2>5. \A k \in 0..(i + 1) : k = i + 1 \/ k \in 0..i
      BY <2>1
    <2>6. h \in [0..(i + 1) -> T]
      BY <2>2, <2>4, <2>5
    <2>7. h[0] = z
      BY <2>1, <2>2
    <2>8. ASSUME NEW k \in 1..(i + 1)  PROVE  h[k] = g[<<k, h[k - 1]>>]
      <3>1. k - 1 \in 0..(i + 1) /\ k - 1 # i + 1 /\ h[k - 1] = f[k - 1]
        BY <2>1
      <3>2. CASE k = i + 1
        BY <2>1, <3>1, <3>2
      <3>3. CASE k # i + 1
        <4>1. k \in 1..i /\ k \in 0..(i + 1)
          BY <2>1, <3>3
        <4> QED  BY <2>2, <3>1, <3>3, <4>1
      <3> QED  BY <3>2, <3>3
    <2> HIDE DEF h
    <2> QED  BY <2>6, <2>7, <2>8
  <1>3. Good \in SUBSET Nat
    OBVIOUS
  <1>4. n \in Good
    <2> HIDE DEF Good
    <2> QED  BY <1>1, <1>2, <1>3, Induction
  <1> QED  BY <1>4

\* FlattenSeq computes what its recursion says.
Flattens(f, s, n) ==
  f[n] = FlattenSeq(s) /\ f[1] = s[1] /\ \A i \in 2..n : f[i] = f[i - 1] \o s[i]

\* It does, for sequences of sequences that are not empty.
LEMMA FlattenDef ==
  ASSUME NEW S, NEW s \in Seq(Seq(S)), NEW n, n = Len(s), n # 0
  PROVE  \E f : Flattens(f, s, n)
  <1> DEFINE Body_(f) == [i \in 1..n |-> IF i = 1 THEN s[i] ELSE f[i - 1] \o s[i]]
  <1> DEFINE J == CHOOSE f : f = Body_(f)
  <1>1. n \in Nat \ {0} /\ \A i \in 1..n : s[i] \in Seq(S)
    BY ElementOfSeq
  <1>2. FlattenSeq(s) = J[n]
    BY <1>1, Zenon DEF FlattenSeq
  <1>3. \E f : f = Body_(f)
    <2> DEFINE g == [kt \in (1..(n - 1)) \X Seq(S) |-> kt[2] \o s[kt[1] + 1]]
    <2>1. \A k \in 1..(n - 1) : \A t \in Seq(S) : g[<<k, t>>] \in Seq(S) /\ g[<<k, t>>] = t \o s[k + 1]
      <3> SUFFICES ASSUME NEW k \in 1..(n - 1), NEW t \in Seq(S)
                   PROVE  g[<<k, t>>] \in Seq(S) /\ g[<<k, t>>] = t \o s[k + 1]
        OBVIOUS
      <3>1. s[k + 1] \in Seq(S)
        BY <1>1
      <3>2. g[<<k, t>>] = t \o s[k + 1]
        OBVIOUS
      <3> QED  BY <3>1, <3>2, ConcatProperties
    <2>2. s[1] \in Seq(S) /\ n - 1 \in Nat
      BY <1>1
    <2> DEFINE m == n - 1
    <2>3. PICK h \in [0..m -> Seq(S)] : Runs(h, g, m, s[1])
      <3>1. m \in Nat /\ Steps(g, m, Seq(S))
        BY <2>1, <2>2 DEF Steps
      <3> HIDE DEF g, m, Body_, J
      <3> QED  BY <2>2, <3>1, Recursion
    <2> DEFINE f == [i \in 1..n |-> h[i - 1]]
    <2>4. ASSUME NEW i \in 1..n  PROVE  f[i] = IF i = 1 THEN s[i] ELSE f[i - 1] \o s[i]
      <3>1. CASE i = 1
        BY <2>3, <3>1 DEF Runs
      <3>2. CASE i # 1
        <4>1. i - 1 \in 1..(n - 1) /\ i - 1 \in 1..n /\ (i - 1) - 1 \in 0..(n - 1) /\ i - 1 + 1 = i
          BY <1>1, <3>2
        <4>2. h[i - 1] = h[i - 1 - 1] \o s[i]
          BY <2>1, <2>3, <4>1 DEF Runs
        <4>3. f[i] = h[i - 1] /\ f[i - 1] = h[i - 1 - 1]
          BY <4>1
        <4> QED  BY <3>2, <4>2, <4>3
      <3> QED  BY <3>1, <3>2
    <2>5. f = Body_(f)
      BY <2>4
    <2> QED  BY <2>5
  <1>4. J = Body_(J)
    <2> HIDE DEF Body_
    <2> QED  BY <1>3
  <1> HIDE DEF J
  <1>5. J[1] = s[1] /\ \A i \in 2..n : J[i] = J[i - 1] \o s[i]
    <2>1. 1 \in 1..n /\ \A i \in 2..n : i \in 1..n /\ i # 1
      OBVIOUS
    <2> QED  BY <1>4, <2>1
  <1> QED  BY <1>2, <1>5 DEF Flattens

\* A message without its NUL is a sequence of its length.
LEMMA BodyType ==
  ASSUME lens \in Seq(Nat), Len(lens) = count, NEW m \in 1..count
  PROVE  Body(m) \in Seq(Nat) /\ Len(Body(m)) = lens[m] /\ lens[m] \in Nat
  <1>1. lens[m] \in Nat /\ m \in Nat
    BY ElementOfSeq
  <1>2. Body(m) \in [1..lens[m] -> Nat]
    BY <1>1 DEF Body
  <1>3. Body(m) \in Seq(Nat)
    BY <1>1, <1>2, SeqDef
  <1> QED  BY <1>1, <1>2, <1>3

\* Messages a to b are those to b - 1, and b.
LEMMA MessagesNone ==
  ASSUME NEW a \in Nat
  PROVE  Messages(a, a - 1) = << >>
  <1>1. [k \in 1..((a - 1) - a + 1) |-> Body(a + k - 1)] = << >>
    BY (a - 1) - a + 1 = 0
  <1>2. Len(<< >>) = 0
    OBVIOUS
  <1> QED  BY <1>1, <1>2 DEF Messages, FlattenSeq

\* Messages up to b are those before b, and b.
LEMMA MessagesStep ==
  ASSUME lens \in Seq(Nat), Len(lens) = count, count \in Nat,
         NEW a \in 1..(count + 1), NEW b \in a..count
  PROVE  Messages(a, b) = Messages(a, b - 1) \o Body(b)
  <1> DEFINE n == b - a + 1
             s == [k \in 1..n |-> Body(a + k - 1)]
             t == [k \in 1..(n - 1) |-> Body(a + k - 1)]
  <1>1. n \in Nat \ {0} /\ s \in [1..n -> Seq(Nat)] /\ t \in [1..(n - 1) -> Seq(Nat)]
    <2>1. \A k \in 1..n : a + k - 1 \in 1..count
      OBVIOUS
    <2> QED  BY <2>1, BodyType
  <1>2. Messages(a, b) = FlattenSeq(s)
    BY DEF Messages
  <1>3. Messages(a, b - 1) = FlattenSeq(t)
    <2>1. (b - 1) - a + 1 = n - 1
      OBVIOUS
    <2> HIDE DEF n
    <2> QED  BY <2>1 DEF Messages
  <1>7. s \in Seq(Seq(Nat)) /\ Len(s) = n /\ t \in Seq(Seq(Nat)) /\ Len(t) = n - 1
    <2>1. n \in Nat /\ n - 1 \in Nat
      BY <1>1
    <2>2. Len(s) = n /\ Len(t) = n - 1
      BY <2>1
    <2> HIDE DEF s, t, n
    <2> QED  BY <1>1, <2>1, <2>2, SeqDef
  <1>4. PICK f : Flattens(f, s, n)
    <2> HIDE DEF n, s, t
    <2> QED  BY <1>1, <1>7, FlattenDef
  <1>5. CASE n = 1
    <2>1. b = a /\ f[1] = Body(b)
      BY <1>4, <1>5 DEF Flattens
    <2>2. Messages(a, b - 1) = << >>
      BY <2>1, MessagesNone
    <2>3. Body(b) \in Seq(Nat)
      BY BodyType
    <2> QED  BY <1>2, <1>4, <1>5, <2>1, <2>2, <2>3, ConcatEmptySeq DEF Flattens
  <1>6. CASE n # 1
    <2>1. n - 1 \in Nat \ {0} /\ n \in 2..n /\ n \in 1..n
      BY <1>1, <1>6
    <2>2. PICK g : Flattens(g, t, n - 1)
      <3> HIDE DEF n, s, t
      <3> QED  BY <1>1, <1>7, <2>1, FlattenDef
    <2>3. \A i \in 1..(n - 1) : s[i] = t[i]
      BY <1>1
    <2> DEFINE Same == {j \in Nat : j + 1 <= n - 1 => f[j + 1] = g[j + 1]}
    <2>4. 0 \in Same
      <3>1. 1 \in 1..(n - 1) /\ s[1] = t[1]
        BY <2>1, <2>3
      <3> HIDE DEF n, s, t
      <3> QED  BY <1>4, <2>2, <3>1 DEF Flattens
    <2>5. ASSUME NEW j \in Same  PROVE  j + 1 \in Same
      <3> SUFFICES ASSUME (j + 1) + 1 <= n - 1  PROVE  f[(j + 1) + 1] = g[(j + 1) + 1]
        OBVIOUS
      <3> DEFINE i == (j + 1) + 1
      <3>1. i \in 2..n /\ i \in 2..(n - 1) /\ i \in 1..(n - 1) /\ i - 1 = j + 1 /\ j + 1 <= n - 1
        BY <1>1
      <3>2. f[i - 1] = g[i - 1] /\ s[i] = t[i]
        <4>1. f[j + 1] = g[j + 1]
          BY <3>1
        <4>2. s[i] = t[i]
          BY <2>3, <3>1
        <4> QED  BY <3>1, <4>1, <4>2
      <3> HIDE DEF i, s, t, n
      <3>3. f[i] = g[i]
        BY <1>4, <2>2, <3>1, <3>2 DEF Flattens
      <3> QED  BY <3>3 DEF i
    <2>6. Same \in SUBSET Nat
      OBVIOUS
    <2>7. n - 2 \in Same
      <3>1. n - 2 \in Nat
        BY <2>1
      <3> HIDE DEF Same
      <3> QED  BY <2>4, <2>5, <2>6, <3>1, Induction
    <2>8. f[n - 1] = g[n - 1]
      <3>1. (n - 2) + 1 = n - 1 /\ n - 1 <= n - 1
        OBVIOUS
      <3> HIDE DEF n
      <3> QED  BY <2>7, <3>1
    <2>9. s[n] = Body(b)
      BY <1>1
    <2> HIDE DEF n, s, t
    <2> QED  BY <1>2, <1>3, <1>4, <2>1, <2>2, <2>8, <2>9 DEF Flattens
  <1> QED  BY <1>5, <1>6

\* Sequences put together in either order.
LEMMA Associative ==
  ASSUME NEW s \in Seq(Nat), NEW t \in Seq(Nat), NEW u \in Seq(Nat)
  PROVE  (s \o t) \o u = s \o (t \o u)
  BY ConcatAssociative, SMTT(30)

\* The bytes of messages are a sequence.
LEMMA MessagesType ==
  ASSUME lens \in Seq(Nat), Len(lens) = count, count \in Nat,
         NEW a \in 1..(count + 1), NEW b \in (a - 1)..count
  PROVE  Messages(a, b) \in Seq(Nat)
  <1> DEFINE Good == {k \in Nat : a - 1 + k <= count => Messages(a, a - 1 + k) \in Seq(Nat)}
  <1>1. 0 \in Good
    <2>1. a - 1 + 0 = a - 1 /\ a \in Nat
      OBVIOUS
    <2>2. Messages(a, a - 1) = << >> /\ << >> \in Seq(Nat)
      BY <2>1, MessagesNone, EmptySeq
    <2>3. Messages(a, a - 1 + 0) \in Seq(Nat)
      BY <2>1, <2>2
    <2> QED  BY <2>3
  <1>2. ASSUME NEW k \in Good  PROVE  k + 1 \in Good
    <2> SUFFICES ASSUME a - 1 + (k + 1) <= count  PROVE  Messages(a, a - 1 + (k + 1)) \in Seq(Nat)
      OBVIOUS
    <2> DEFINE c == a - 1 + (k + 1)
    <2>1. c \in a..count /\ c - 1 = a - 1 + k /\ c \in 1..count
      OBVIOUS
    <2>2. Messages(a, c - 1) \in Seq(Nat)
      BY <2>1
    <2> HIDE DEF c, Good
    <2>3. Messages(a, c) = Messages(a, c - 1) \o Body(c) /\ Body(c) \in Seq(Nat)
      BY <2>1, MessagesStep, BodyType
    <2>4. Messages(a, c) \in Seq(Nat)
      BY <2>2, <2>3, ConcatProperties
    <2> QED  BY <2>4 DEF c
  <1>3. Good \in SUBSET Nat
    OBVIOUS
  <1>4. b - (a - 1) \in Good
    <2>1. b - (a - 1) \in Nat
      OBVIOUS
    <2> HIDE DEF Good
    <2> QED  BY <1>1, <1>2, <1>3, <2>1, Induction
  <1>5. a - 1 + (b - (a - 1)) = b
    OBVIOUS
  <1> QED  BY <1>4, <1>5

\* Messages a to b, and those after them.
LEMMA MessagesJoin ==
  ASSUME lens \in Seq(Nat), Len(lens) = count, count \in Nat,
         NEW x \in 0..count, NEW a \in 1..(x + 1), NEW b \in x..count
  PROVE  Messages(a, x) \o Messages(x + 1, b) = Messages(a, b)
  <1> DEFINE Good == {k \in Nat : x + k <= count => Messages(a, x) \o Messages(x + 1, x + k) = Messages(a, x + k)}
  <1>0. x + 1 \in 1..(count + 1) /\ a \in 1..(count + 1)
    OBVIOUS
  <1>1. 0 \in Good
    <2>1. x + 0 = (x + 1) - 1 /\ x + 0 = x /\ x + 1 \in Nat /\ x \in (a - 1)..count
      OBVIOUS
    <2>2. Messages(x + 1, x + 0) = << >>
      BY <2>1, MessagesNone
    <2>3. Messages(a, x) \in Seq(Nat)
      BY <1>0, <2>1, MessagesType
    <2> QED  BY <2>1, <2>2, <2>3, ConcatEmptySeq
  <1>2. ASSUME NEW k \in Good  PROVE  k + 1 \in Good
    <2> SUFFICES ASSUME x + (k + 1) <= count
                 PROVE  Messages(a, x) \o Messages(x + 1, x + (k + 1)) = Messages(a, x + (k + 1))
      OBVIOUS
    <2> DEFINE c == x + (k + 1)
    <2>1. /\ c \in a..count /\ c \in (x + 1)..count /\ c - 1 = x + k /\ c \in 1..count
          /\ c - 1 \in ((x + 1) - 1)..count /\ x \in (a - 1)..count
      OBVIOUS
    <2>2. Messages(a, x) \o Messages(x + 1, c - 1) = Messages(a, c - 1)
      BY <2>1
    <2> HIDE DEF c, Good
    <2>3. /\ Messages(a, c) = Messages(a, c - 1) \o Body(c)
          /\ Messages(x + 1, c) = Messages(x + 1, c - 1) \o Body(c) /\ Body(c) \in Seq(Nat)
      BY <1>0, <2>1, MessagesStep, BodyType
    <2>4. Messages(a, x) \in Seq(Nat) /\ Messages(x + 1, c - 1) \in Seq(Nat)
      BY <1>0, <2>1, MessagesType
    <2>5. Messages(a, x) \o Messages(x + 1, c) = Messages(a, c)
      <3>1. (Messages(a, x) \o Messages(x + 1, c - 1)) \o Body(c)
              = Messages(a, x) \o (Messages(x + 1, c - 1) \o Body(c))
        BY <2>3, <2>4, Associative
      <3> QED  BY <2>2, <2>3, <3>1
    <2> QED  BY <2>5 DEF c
  <1>3. Good \in SUBSET Nat
    OBVIOUS
  <1>4. b - x \in Good
    <2>1. b - x \in Nat
      OBVIOUS
    <2> HIDE DEF Good
    <2> QED  BY <1>1, <1>2, <1>3, <2>1, Induction
  <1>5. x + (b - x) = b
    OBVIOUS
  <1> QED  BY <1>4, <1>5

-----------------------------------------------------------------------------
\* The byte that is printed as the k-th, and how many there are.
Byte(p, k) == IF p + k <= size THEN data[p + k - 1] ELSE data[p + k - 1 - size]
Span(p) == IF p <= tail THEN tail - p ELSE size - p + tail
\* What is printed of the first k bytes is t[k].
Prints(t, p) ==
  /\ Printed(p) = t[Span(p)] /\ t[0] = << >>
  /\ \A k \in 1..Span(p) : t[k] = IF Byte(p, k) = NUL THEN t[k - 1] ELSE Append(t[k - 1], Byte(p, k))

\* There is such a t: the recursion in Printed has a solution.
LEMMA PrintedDef ==
  ASSUME TypeOK, NEW p \in 0..(size - 1)
  PROVE  \E t : Prints(t, p)
  <1> DEFINE n == Span(p)
             Body_(f) == [k \in 0..n |-> IF k = 0 THEN << >>
                                         ELSE IF Byte(p, k) = NUL THEN f[k - 1]
                                         ELSE Append(f[k - 1], Byte(p, k))]
             J == CHOOSE f : f = Body_(f)
  <1>1. size \in Nat \ {0} /\ tail \in 0..(size - 1) /\ data \in [0..size -> Nat] /\ p \in Nat
    BY LogRingAssumption DEF TypeOK
  <1>2. n \in Nat /\ \A k \in 1..n : Byte(p, k) \in Nat
    BY <1>1 DEF Span, Byte
  <1>3. Printed(p) = J[n]
    BY Zenon DEF Printed, Span, Byte
  <1>4. \E f : f = Body_(f)
    <2> DEFINE g == [kt \in (1..n) \X Seq(Nat) |->
                       IF Byte(p, kt[1]) = NUL THEN kt[2] ELSE Append(kt[2], Byte(p, kt[1]))]
    <2>1. \A k \in 1..n : \A t \in Seq(Nat) :
            /\ g[<<k, t>>] \in Seq(Nat)
            /\ g[<<k, t>>] = IF Byte(p, k) = NUL THEN t ELSE Append(t, Byte(p, k))
      <3> HIDE DEF n
      <3> SUFFICES ASSUME NEW k \in 1..n, NEW t \in Seq(Nat)
                   PROVE  /\ g[<<k, t>>] \in Seq(Nat)
                          /\ g[<<k, t>>] = IF Byte(p, k) = NUL THEN t ELSE Append(t, Byte(p, k))
        OBVIOUS
      <3>1. g[<<k, t>>] = IF Byte(p, k) = NUL THEN t ELSE Append(t, Byte(p, k))
        OBVIOUS
      <3>2. Append(t, Byte(p, k)) \in Seq(Nat)
        BY <1>2, AppendProperties
      <3> QED  BY <3>1, <3>2
    <2>2. PICK f \in [0..n -> Seq(Nat)] : Runs(f, g, n, << >>)
      <3>1. Steps(g, n, Seq(Nat)) /\ << >> \in Seq(Nat)
        BY <2>1, EmptySeq DEF Steps
      <3> HIDE DEF g, n, Body_, J
      <3> QED  BY <1>2, <3>1, Recursion
    <2>3. ASSUME NEW k \in 0..n
          PROVE  f[k] = IF k = 0 THEN << >>
                        ELSE IF Byte(p, k) = NUL THEN f[k - 1] ELSE Append(f[k - 1], Byte(p, k))
      <3>1. CASE k = 0
        BY <2>2, <3>1 DEF Runs
      <3>2. CASE k # 0
        <4> HIDE DEF n, g
        <4>1. k \in 1..n /\ k - 1 \in 0..n
          BY <1>2, <3>2
        <4>2. f[k] = g[<<k, f[k - 1]>>] /\ f[k - 1] \in Seq(Nat)
          BY <2>2, <4>1 DEF Runs
        <4> QED  BY <2>1, <3>2, <4>1, <4>2
      <3> QED  BY <3>1, <3>2
    <2> HIDE DEF n, g
    <2>4. f = Body_(f)
      BY <2>3
    <2> QED  BY <2>4
  <1>5. J = Body_(J)
    <2> HIDE DEF Body_
    <2> QED  BY <1>4
  <1> HIDE DEF J
  <1>6. /\ J[0] = << >>
        /\ \A k \in 1..n : J[k] = IF Byte(p, k) = NUL THEN J[k - 1] ELSE Append(J[k - 1], Byte(p, k))
    <2> HIDE DEF n
    <2>1. 0 \in 0..n /\ \A k \in 1..n : k \in 0..n /\ k # 0
      BY <1>2
    <2> QED  BY <1>5, <2>1
  <1> QED  BY <1>3, <1>6 DEF Prints

-----------------------------------------------------------------------------
(* The buffer holds the end of one long text: all messages one after the   *)
(* other, each with its NUL.                                               *)
\* The position that is e bytes before tail.
At(e) == IF e <= tail THEN tail - e ELSE tail - e + size

\* Message m starts at st[m] in that text; the next one will at the end of st.
Starts(st) ==
  /\ st \in [1..(count + 1) -> Nat] /\ st[1] = 0
  /\ \A m \in 1..count : st[m + 1] = st[m] + lens[m] + 1
  /\ \A m, n \in 1..(count + 1) : m < n => st[m] < st[n]

\* How much of it has been copied.
Copied(st) == st[count + 1] - Len(msg)

\* Byte number w of it is c; there are NULs before it.
IsByte(st, w, c) ==
  /\ w < 0 => c = NUL
  /\ \A m \in 1..count : /\ st[m] <= w /\ w < st[m + 1] - 1 => c = m
                         /\ w = st[m + 1] - 1 => c = NUL

BufferHas(st) == \A e \in 1..size : IsByte(st, Copied(st) - e, data[At(e)])

\* Types that the proofs about the text use.
LEMMA Numbers ==
  ASSUME TypeOK, CopyType, NEW st, Starts(st)
  PROVE  /\ size \in Nat \ {0} /\ tail \in 0..(size - 1) /\ count \in Nat /\ Len(lens) = count
         /\ lens \in Seq(Nat) /\ \A m \in 1..count : lens[m] \in Nat
         /\ Len(msg) \in Nat /\ Copied(st) \in Int
         /\ \A m \in 1..(count + 1) : st[m] \in Nat
         /\ data \in [0..size -> Nat]
  <1>1. count \in Nat /\ Len(lens) = count /\ lens \in Seq(Nat) /\ Len(msg) \in Nat
    BY LogRingAssumption, LenProperties DEF TypeOK, CopyType
  <1>2. \A m \in 1..count : lens[m] \in Nat
    BY <1>1, ElementOfSeq
  <1>3. count + 1 \in 1..(count + 1)
    BY <1>1
  <1>4. st[count + 1] \in Nat
    BY <1>3 DEF Starts
  <1>5. data \in [0..size -> Nat]
    BY LogRingAssumption DEF TypeOK
  <1> QED  BY <1>1, <1>2, <1>4, <1>5, LogRingAssumption DEF TypeOK, Starts, Copied

\* k bytes of message m.
Rep(m, k) == [i \in 1..k |-> m]

\* One of them more.
LEMMA RepAppend ==
  ASSUME NEW s \in Seq(Nat), NEW m \in Nat, NEW k \in Nat
  PROVE  /\ Append(s \o Rep(m, k), m) = s \o Rep(m, k + 1)
         /\ s \o Rep(m, 0) = s
  <1>1. Rep(m, k) \in Seq(Nat) /\ Rep(m, k + 1) \in Seq(Nat) /\ Len(Rep(m, k)) = k /\ Rep(m, 0) = << >>
    <2>1. Rep(m, k) \in [1..k -> Nat] /\ Rep(m, k + 1) \in [1..(k + 1) -> Nat] /\ k + 1 \in Nat
      BY DEF Rep
    <2>2. Len(Rep(m, k)) = k /\ Rep(m, 0) = << >>
      BY DEF Rep
    <2> QED  BY <2>1, <2>2, SeqDef
  <1>2. Append(Rep(m, k), m) = Rep(m, k + 1)
    <2>1. /\ Append(Rep(m, k), m) \in Seq(Nat) /\ Len(Append(Rep(m, k), m)) = k + 1
          /\ \A i \in 1..k : Append(Rep(m, k), m)[i] = Rep(m, k)[i]
          /\ Append(Rep(m, k), m)[k + 1] = m
      <3>1. PICK r \in Seq(Nat) : r = Rep(m, k) /\ Len(r) = k
        BY <1>1
      <3>2. /\ Append(r, m) \in Seq(Nat) /\ Len(Append(r, m)) = Len(r) + 1
            /\ \A i \in 1..Len(r) : Append(r, m)[i] = r[i]
            /\ Append(r, m)[Len(r) + 1] = m
        BY AppendProperties
      <3> QED  BY ONLY <3>1, <3>2
    <2>2. Len(Rep(m, k + 1)) = k + 1 /\ \A i \in 1..(k + 1) : Rep(m, k + 1)[i] = m
      BY DEF Rep
    <2>3. \A i \in 1..k : Rep(m, k)[i] = m
      BY DEF Rep
    <2>4. \A i \in 1..(k + 1) : Append(Rep(m, k), m)[i] = Rep(m, k + 1)[i]
      BY <2>1, <2>2, <2>3
    <2> QED  BY <1>1, <2>1, <2>2, <2>4, SeqEqual
  <1>3. Append(s \o Rep(m, k), m) = s \o Append(Rep(m, k), m)
    <2>1. s \o Rep(m, k) \in Seq(Nat) /\ <<m>> \in Seq(Nat)
      BY <1>1, ConcatProperties
    <2>2. /\ Append(s \o Rep(m, k), m) = (s \o Rep(m, k)) \o <<m>>
          /\ Append(Rep(m, k), m) = Rep(m, k) \o <<m>>
      BY <1>1, <2>1, AppendIsConcat
    <2>3. (s \o Rep(m, k)) \o <<m>> = s \o (Rep(m, k) \o <<m>>)
      BY <1>1, <2>1, Associative
    <2> QED  BY <2>2, <2>3
  <1> QED  BY <1>1, <1>2, <1>3, ConcatEmptySeq

\* The same for bytes from b to w.
LEMMA RepNext ==
  ASSUME NEW s \in Seq(Nat), NEW m \in Nat, NEW b \in Nat, NEW w \in Nat, b <= w
  PROVE  Append(s \o Rep(m, w - b), m) = s \o Rep(m, (w + 1) - b)
  <1> DEFINE k == w - b
  <1>1. k \in Nat /\ (w + 1) - b = k + 1
    OBVIOUS
  <1> HIDE DEF k
  <1>2. Append(s \o Rep(m, k), m) = s \o Rep(m, k + 1)
    BY <1>1, RepAppend
  <1> QED  BY <1>1, <1>2 DEF k

\* What is printed of the text up to byte w, from the start of message a on.
Shows(st, a, u, w, t) ==
  \/ w < 0 /\ a = 1 /\ t = << >>
  \/ \E m \in a..u : /\ st[m] <= w /\ w < st[m + 1]
                     /\ t = Messages(a, m - 1) \o Rep(m, w - st[m])
  \/ w = st[u + 1] /\ t = Messages(a, u)

\* At the start of a message.
LEMMA ShowsStart ==
  ASSUME TypeOK, CopyType, NEW st, Starts(st), NEW u \in 0..count, NEW a \in 1..(u + 1),
         NEW m \in a..(u + 1)
  PROVE  Shows(st, a, u, st[m], Messages(a, m - 1))
  <1> lens \in Seq(Nat) /\ Len(lens) = count /\ count \in Nat
    BY Numbers
  <1>1. CASE m = u + 1
    BY <1>1 DEF Shows
  <1>2. CASE m # u + 1
    <2>0. count \in Nat /\ u \in 0..count /\ a \in 1..(u + 1) /\ m \in a..(u + 1)
      OBVIOUS
    <2>1. m \in a..u /\ m \in Nat /\ m \in 1..(count + 1) /\ m + 1 \in 1..(count + 1) /\ m < m + 1
          /\ a \in 1..(count + 1) /\ m - 1 \in (a - 1)..count
      BY ONLY <1>2, <2>0
    <2>2. st[m] <= st[m] /\ st[m] < st[m + 1] /\ st[m] - st[m] = 0
      <3>1. st[m] < st[m + 1] /\ st[m] \in Nat
        BY <2>1 DEF Starts
      <3> QED  BY ONLY <3>1
    <2>3. Messages(a, m - 1) \in Seq(Nat)
      BY <2>1, MessagesType
    <2>4. Messages(a, m - 1) = Messages(a, m - 1) \o Rep(m, 0)
      BY <2>1, <2>3, RepAppend
    <2>5. Messages(a, m - 1) = Messages(a, m - 1) \o Rep(m, st[m] - st[m])
      BY <2>2, <2>4
    <2> QED  BY <2>1, <2>2, <2>5 DEF Shows
  <1> QED  BY <1>1, <1>2

\* One byte more.
LEMMA ShowsNext ==
  ASSUME TypeOK, CopyType, NEW st, Starts(st), NEW u \in 0..count, NEW a \in 1..(u + 1),
         NEW w \in Int, w < st[u + 1], NEW c, IsByte(st, w, c), NEW t, Shows(st, a, u, w, t)
  PROVE  Shows(st, a, u, w + 1, IF c = NUL THEN t ELSE Append(t, c))
  <1>0. lens \in Seq(Nat) /\ Len(lens) = count
    BY Numbers
  <1> /\ count \in Nat
      /\ \A m \in 1..count : lens[m] \in Nat
      /\ \A m \in 1..(count + 1) : st[m] \in Nat
    BY Numbers
  <1>1. CASE w < 0 /\ a = 1 /\ t = << >>
    <2>1. c = NUL
      BY <1>1 DEF IsByte
    <2>2. CASE w + 1 < 0
      BY <1>1, <2>1, <2>2 DEF Shows
    <2>3. CASE w + 1 = 0
      <3>1. st[1] = 0 /\ 1 \in a..(u + 1) /\ Messages(1, 1 - 1) = << >>
        BY <1>1, MessagesNone DEF Starts
      <3>2. Shows(st, a, u, st[1], Messages(a, 1 - 1))
        BY <3>1, ShowsStart
      <3> QED  BY <1>1, <2>1, <2>3, <3>1, <3>2
    <2> QED  BY <1>1, <2>2, <2>3
  <1>2. ASSUME NEW m \in a..u, st[m] <= w, w < st[m + 1],
               t = Messages(a, m - 1) \o Rep(m, w - st[m])
        PROVE  Shows(st, a, u, w + 1, IF c = NUL THEN t ELSE Append(t, c))
    <2>1. /\ m \in 1..count /\ m \in Nat \ {0} /\ m + 1 \in 1..(count + 1) /\ m \in 1..(count + 1)
          /\ m + 1 \in a..(u + 1) /\ a \in 1..(count + 1) /\ m - 1 \in (a - 1)..count
          /\ m \in a..count /\ (m + 1) - 1 = m
      OBVIOUS
    <2>0. st[m] \in Nat /\ st[m + 1] \in Nat /\ lens[m] \in Nat /\ w \in Nat
      <3>1. st[m] \in Nat /\ st[m + 1] \in Nat /\ lens[m] \in Nat
        BY <2>1
      <3> QED  BY <1>2, <3>1
    <2>2. Messages(a, m - 1) \in Seq(Nat) /\ m \in Nat
      BY <1>0, <2>1, MessagesType
    <2>9. st[m] <= w /\ w < st[m + 1]
      BY <1>2
    <2>3. CASE w < st[m + 1] - 1
      <3>1. c = m
        <4>1. st[m] <= w /\ w < st[m + 1] - 1 => c = m
          BY <2>1 DEF IsByte
        <4> QED  BY <2>3, <2>9, <4>1
      <3>2. c # NUL
        BY ONLY <2>1, <3>1 DEF NUL
      <3>3. Append(Messages(a, m - 1) \o Rep(m, w - st[m]), m) = Messages(a, m - 1) \o Rep(m, (w + 1) - st[m])
        <4>1. PICK b \in Nat : b = st[m] /\ b <= w
          BY ONLY <2>0, <2>9
        <4>2. PICK s \in Seq(Nat) : s = Messages(a, m - 1)
          BY ONLY <2>2
        <4>3. m \in Nat /\ w \in Nat /\ b <= w
          BY ONLY <2>0, <2>2, <4>1
        <4>4. Append(s \o Rep(m, w - b), m) = s \o Rep(m, (w + 1) - b)
          BY ONLY <4>3, RepNext
        <4> QED  BY ONLY <4>1, <4>2, <4>4
      <3>4. Append(t, c) = Messages(a, m - 1) \o Rep(m, (w + 1) - st[m])
        BY <1>2, <3>1, <3>3
      <3>5. st[m] <= w + 1 /\ w + 1 < st[m + 1]
        BY ONLY <2>0, <2>3, <2>9
      <3> QED  BY <3>2, <3>4, <3>5 DEF Shows
    <2>4. CASE w = st[m + 1] - 1
      <3>1. c = NUL
        BY <2>1, <2>4 DEF IsByte
      <3>6. st[m + 1] = st[m] + lens[m] + 1
        BY <2>1 DEF Starts
      <3>2. w - st[m] = lens[m] /\ w + 1 = st[m + 1]
        BY ONLY <2>0, <2>4, <3>6
      <3>3. Rep(m, lens[m]) = Body(m)
        BY DEF Rep, Body
      <3>4. t = Messages(a, m)
        <4>1. Messages(a, m) = Messages(a, m - 1) \o Body(m)
          BY <1>0, <2>1, MessagesStep
        <4> QED  BY <1>2, <3>2, <3>3, <4>1
      <3>5. Shows(st, a, u, st[m + 1], Messages(a, (m + 1) - 1))
        BY <2>1, ShowsStart
      <3> QED  BY <2>1, <3>1, <3>2, <3>4, <3>5
    <2>5. w < st[m + 1] - 1 \/ w = st[m + 1] - 1
      BY ONLY <2>0, <2>9
    <2> QED  BY <2>3, <2>4, <2>5
  <1>3. st[u + 1] \in Nat
    <2>1. u + 1 \in 1..(count + 1)
      OBVIOUS
    <2> QED  BY <2>1
  <1>5. ~(w = st[u + 1])
    BY <1>3
  <1>4. \/ w < 0 /\ a = 1 /\ t = << >>
        \/ \E m \in a..u : /\ st[m] <= w /\ w < st[m + 1]
                           /\ t = Messages(a, m - 1) \o Rep(m, w - st[m])
    BY <1>5, Zenon DEF Shows
  <1> QED  BY <1>1, <1>2, <1>4

\* What the reader prints from a place d bytes before tail, if that is the
\* start of message a, or before all messages, and tail the end of message u.
LEMMA PrintsMessages ==
  ASSUME TypeOK, CopyType, NEW st, Starts(st), BufferHas(st), NEW u \in 0..count,
         Copied(st) = st[u + 1], NEW d \in 0..(size - 1), NEW a \in 1..(u + 1),
         Copied(st) - d = st[a] \/ (a = 1 /\ Copied(st) - d <= 0)
  PROVE  Printed(At(d)) = Messages(a, u)
  <1> DEFINE W == Copied(st)
             p == At(d)
  <1>1. /\ size \in Nat \ {0} /\ tail \in 0..(size - 1) /\ count \in Nat /\ W \in Int
        /\ \A m \in 1..(count + 1) : st[m] \in Nat
    BY Numbers
  <1>2. p \in 0..(size - 1) /\ Span(p) = d
    BY <1>1 DEF At, Span
  <1>3. \A k \in 1..d : Byte(p, k) = data[At(d - k + 1)] /\ d - k + 1 \in 1..size
    BY <1>1 DEF At, Byte
  <1>4. PICK t : Prints(t, p)
    BY <1>2, PrintedDef
  <1> HIDE DEF p, W
  <1>5. /\ Printed(p) = t[d] /\ t[0] = << >>
        /\ \A k \in 1..d : t[k] = IF Byte(p, k) = NUL THEN t[k - 1] ELSE Append(t[k - 1], Byte(p, k))
    BY <1>2, <1>4 DEF Prints
  <1> DEFINE Good == {k \in Nat : k <= d => Shows(st, a, u, W - d + k, t[k])}
  <1>6. 0 \in Good
    <2>0. W - d + 0 = W - d /\ d \in Nat
      BY <1>1
    <2>1. CASE W - d = st[a]
      <3>1. a \in a..(u + 1) /\ a \in Nat
        OBVIOUS
      <3>2. Shows(st, a, u, st[a], Messages(a, a - 1)) /\ Messages(a, a - 1) = << >>
        BY <3>1, ShowsStart, MessagesNone
      <3> QED  BY <1>5, <2>0, <2>1, <3>2
    <2>2. CASE a = 1 /\ W - d < 0
      BY <1>5, <2>0, <2>2 DEF Shows
    <2>3. CASE a = 1 /\ W - d = 0
      <3>1. W - d = st[a]
        BY <2>3 DEF Starts
      <3> QED  BY <2>1, <3>1
    <2> QED  BY <1>1, <2>1, <2>2, <2>3 DEF W
  <1>7. ASSUME NEW k \in Good  PROVE  k + 1 \in Good
    <2> SUFFICES ASSUME k + 1 <= d  PROVE  Shows(st, a, u, W - d + (k + 1), t[k + 1])
      OBVIOUS
    <2> DEFINE w == W - d + k
    <2>1. Shows(st, a, u, w, t[k]) /\ k \in Nat
      OBVIOUS
    <2> HIDE DEF Good
    <2>2. /\ k + 1 \in 1..d /\ (k + 1) - 1 = k /\ w + 1 = W - d + (k + 1) /\ w \in Int
          /\ d - (k + 1) + 1 = d - k /\ d - k \in 1..size /\ w = W - (d - k) /\ w < W
      BY <1>1, <2>1
    <2>3. Byte(p, k + 1) = data[At(d - k)]
      <3>1. Byte(p, k + 1) = data[At(d - (k + 1) + 1)]
        BY <1>3, <2>2
      <3> QED  BY <2>2, <3>1
    <2>4. IsByte(st, w, Byte(p, k + 1))
      BY <2>2, <2>3 DEF BufferHas, W
    <2>5. w < st[u + 1]
      BY <2>2 DEF W
    <2>6. t[k + 1] = IF Byte(p, k + 1) = NUL THEN t[k] ELSE Append(t[k], Byte(p, k + 1))
      BY <1>5, <2>2
    <2>7. w + 1 = W - d + (k + 1)
      BY <2>2
    <2> HIDE DEF w
    <2>8. Shows(st, a, u, w + 1, IF Byte(p, k + 1) = NUL THEN t[k] ELSE Append(t[k], Byte(p, k + 1)))
      BY <2>1, <2>2, <2>4, <2>5, ShowsNext
    <2> QED  BY <2>6, <2>7, <2>8
  <1>8. Good \in SUBSET Nat
    OBVIOUS
  <1>9. d \in Good
    <2>1. d \in Nat
      OBVIOUS
    <2> HIDE DEF Good
    <2> QED  BY <1>6, <1>7, <1>8, <2>1, Induction
  <1>10. Shows(st, a, u, W, t[d])
    <2>1. Shows(st, a, u, W - d + d, t[d]) /\ W - d + d = W
      BY <1>1, <1>9
    <2> QED  BY <2>1
  <1>11. t[d] = Messages(a, u)
    <2>1. u + 1 \in 1..(count + 1) /\ \A m \in a..u : m + 1 \in 1..(count + 1) /\ m + 1 <= u + 1
      BY <1>1
    <2>2. \A m \in a..u : st[m + 1] <= st[u + 1]
      <3> SUFFICES ASSUME NEW m \in a..u  PROVE  st[m + 1] <= st[u + 1]
        OBVIOUS
      <3>1. m + 1 \in 1..(count + 1) /\ (m + 1 = u + 1 \/ m + 1 < u + 1)
        BY <2>1
      <3>2. m + 1 < u + 1 => st[m + 1] < st[u + 1]
        BY <2>1, <3>1 DEF Starts
      <3>3. st[m + 1] \in Nat /\ st[u + 1] \in Nat
        BY <1>1, <2>1, <3>1
      <3> QED  BY <3>1, <3>2, <3>3
    <2>3. W = st[u + 1] /\ W \in Nat
      BY <1>1, <2>1 DEF W
    <2>4. \A m \in a..u : ~(W < st[m + 1])
      BY <1>1, <2>1, <2>2, <2>3
    <2> QED  BY <1>10, <2>3, <2>4 DEF Shows
  <1> QED  BY <1>5, <1>11 DEF p

-----------------------------------------------------------------------------
(* Where a dump begins.                                                    *)
\* strlen() finds the next NUL.
LEMMA StrLenIs ==
  ASSUME TypeOK, NEW p \in 0..size
  PROVE  /\ StrLen(p) \in 0..(size - p) /\ data[p + StrLen(p)] = NUL
         /\ \A l \in p..(p + StrLen(p) - 1) : data[l] # NUL
  <1> DEFINE T == {k \in p..size : data[k] = NUL}
             First(k) == k \in p..size /\ data[k] = NUL /\ \A l \in p..(k - 1) : data[l] # NUL
  <1>1. size \in Nat /\ p \in Nat
    BY LogRingAssumption
  <1>2. size \in T /\ T \in SUBSET Nat
    BY <1>1 DEF TypeOK
  <1>3. PICK k \in T : \A l \in T : k <= l
    <2> HIDE DEF T
    <2> QED  BY <1>2, Least
  <1>4. First(k)
    <2> SUFFICES ASSUME NEW l \in p..(k - 1)  PROVE  data[l] # NUL
      OBVIOUS
    <2>1. k \in p..size
      OBVIOUS
    <2>2. l \in p..size /\ ~(k <= l)
      BY <1>1, <2>1
    <2> QED  BY <1>3, <2>2
  <1> DEFINE c == CHOOSE x \in p..size : data[x] = NUL /\ \A l \in p..(x - 1) : data[l] # NUL
  <1>5. First(c)
    <2> HIDE DEF T
    <2> QED  BY <1>4, Zenon
  <1>6. StrLen(p) = c - p
    BY DEF StrLen
  <1> HIDE DEF c
  <1>7. c \in p..size /\ p + StrLen(p) = c /\ StrLen(p) \in 0..(size - p)
    BY <1>1, <1>5, <1>6
  <1> QED  BY <1>5, <1>7

\* Advance() finds a NUL at c and goes to the byte after it.
Found(p, c) ==
  /\ c \in 0..(size - 1) /\ data[c] = NUL
  /\ Advance(p) = IF c + 1 >= size THEN 0 ELSE c + 1
  /\ \/ c >= p /\ \A l \in p..(c - 1) : data[l] # NUL
     \/ c < tail /\ \A l \in (p..(size - 1)) \cup (0..(c - 1)) : data[l] # NUL

\* It does, unless there is no NUL from p to tail: "no complete messages".
LEMMA AdvanceIs ==
  ASSUME TypeOK, NEW p \in 0..(size - 1)
  PROVE  \/ Advance(p) = -1 /\ \A l \in (p..(size - 1)) \cup (0..(tail - 1)) : data[l] # NUL
         \/ \E c : Found(p, c)
  <1>1. size \in Nat /\ tail \in 0..(size - 1) /\ p \in 0..size /\ 0 \in 0..size
    BY LogRingAssumption DEF TypeOK
  <1> DEFINE q == p + StrLen(p)
             z == StrLen(0)
  <1>2. q \in p..size /\ data[q] = NUL /\ \A l \in p..(q - 1) : data[l] # NUL
    BY <1>1, StrLenIs
  <1>3. z \in 0..size /\ data[z] = NUL /\ \A l \in 0..(z - 1) : data[l] # NUL
    <2>1. z \in 0..(size - 0) /\ data[0 + z] = NUL /\ \A l \in 0..(0 + z - 1) : data[l] # NUL
      BY <1>1, StrLenIs
    <2> QED  BY <1>1, <2>1
  <1>4. Advance(p) = LET c == IF q >= size THEN (IF z < tail THEN z ELSE tail) ELSE q
                     IN  IF q >= size /\ c = tail THEN -1
                         ELSE IF c + 1 >= size THEN 0 ELSE c + 1
    BY DEF Advance
  <1> HIDE DEF q, z
  <1>5. CASE q < size
    <2>1. Advance(p) = IF q + 1 >= size THEN 0 ELSE q + 1
      BY <1>1, <1>2, <1>4, <1>5
    <2> QED  BY <1>1, <1>2, <1>5, <2>1 DEF Found
  <1>6. CASE q = size /\ z < tail
    <2>1. Advance(p) = IF z + 1 >= size THEN 0 ELSE z + 1
      BY <1>1, <1>3, <1>4, <1>6
    <2> QED  BY <1>1, <1>2, <1>3, <1>6, <2>1 DEF Found
  <1>7. CASE q = size /\ ~(z < tail)
    <2>1. Advance(p) = -1
      BY <1>1, <1>4, <1>7
    <2>2. \A l \in 0..(tail - 1) : l \in 0..(z - 1)
      BY <1>1, <1>3, <1>7
    <2> QED  BY <1>2, <1>3, <1>7, <2>1, <2>2
  <1> QED  BY <1>1, <1>2, <1>5, <1>6, <1>7

\* Every position is some distance before tail.
LEMMA Distance ==
  ASSUME TypeOK, NEW c \in 0..(size - 1)
  PROVE  \E e \in 1..size : c = At(e) /\ (IF c + 1 >= size THEN 0 ELSE c + 1) = At(e - 1)
  <1>1. size \in Nat /\ tail \in 0..(size - 1)
    BY LogRingAssumption DEF TypeOK
  <1>2. CASE c < tail
    <2>1. tail - c \in 1..size /\ At(tail - c) = c
      BY <1>1, <1>2 DEF At
    <2>2. At((tail - c) - 1) = IF c + 1 >= size THEN 0 ELSE c + 1
      BY <1>1, <1>2 DEF At
    <2> QED  BY <2>1, <2>2
  <1>3. CASE ~(c < tail)
    <2>1. tail - c + size \in 1..size /\ At(tail - c + size) = c
      BY <1>1, <1>3 DEF At
    <2>2. At((tail - c + size) - 1) = IF c + 1 >= size THEN 0 ELSE c + 1
      BY <1>1, <1>3 DEF At
    <2> QED  BY <2>1, <2>2
  <1> QED  BY <1>2, <1>3

\* After a NUL begins a message, unless it is before all of them.
LEMMA Boundary ==
  ASSUME TypeOK, CopyType, NEW st, Starts(st), NEW u \in 0..count, NEW w \in Nat,
         w < st[u + 1], IsByte(st, w, NUL)
  PROVE  \E a \in 1..(u + 1) : st[a] = w + 1
  <1>1. /\ count \in Nat /\ u + 1 \in 1..(count + 1) /\ \A m \in 1..(count + 1) : st[m] \in Nat
        /\ \A m \in 1..(u + 1) : m \in 1..(count + 1)
    BY Numbers
  <1> DEFINE T == {k \in 1..(u + 1) : w < st[k]}
  <1>2. u + 1 \in T /\ T \in SUBSET Nat
    BY <1>1
  <1>3. PICK k \in T : \A l \in T : k <= l
    <2> HIDE DEF T
    <2> QED  BY <1>2, Least
  <1>4. k \in 1..(u + 1) /\ w < st[k] /\ st[1] = 0 /\ k # 1 /\ count \in Nat
    BY <1>1, <1>3 DEF Starts
  <1> DEFINE m == k - 1
  <1>5. m \in 1..count /\ m \in 1..(u + 1) /\ m + 1 = k /\ m # NUL /\ ~(k <= m)
    BY ONLY <1>4, u \in 0..count DEF NUL
  <1>6. ~(w < st[m])
    BY <1>3, <1>5
  <1> HIDE DEF m, T
  <1>7. st[m] \in Nat /\ st[k] \in Nat
    BY <1>1, <1>4, <1>5
  <1>8. st[m] <= w
    BY ONLY <1>6, <1>7, w \in Nat
  <1>9. ~(w < st[k] - 1)
    BY <1>5, <1>8 DEF IsByte
  <1>10. st[k] = w + 1
    BY ONLY <1>4, <1>7, <1>9, w \in Nat
  <1> QED  BY <1>4, <1>10

\* The buffer holds a message, its NUL and the NUL before it: printbuf has
\* MAX_READ*2 + 128 bytes, 640 by default, and the buffer 16 KB.
Roomy == \A n \in Lens : n + 2 <= size

\* Where a dump that begins at p starts to print.
LEMMA DumpShows ==
  ASSUME Roomy, TypeOK, CopyType, NEW st, Starts(st), BufferHas(st), NEW u \in 0..count,
         Copied(st) = st[u + 1], \A m \in 1..count : lens[m] \in Lens,
         NEW p \in 0..(size - 1)
  PROVE  /\ Advance(p) # -1 =>
              \E a \in 1..(u + 1) : /\ Printed(Advance(p)) = Messages(a, u)
                                    /\ p = tail /\ u > 0 => a <= u
         /\ p = tail /\ u > 0 => Advance(p) # -1
  <1> DEFINE W == Copied(st)
  <1>1. /\ size \in Nat \ {0} /\ tail \in 0..(size - 1) /\ count \in Nat /\ W \in Int
        /\ \A m \in 1..(count + 1) : st[m] \in Nat
        /\ u + 1 \in 1..(count + 1)
    BY Numbers
  <1>2. W = st[u + 1] /\ W \in Nat
    BY <1>1
  <1>3. \A e \in 1..size : IsByte(st, W - e, data[At(e)]) /\ W - e \in Int
    BY <1>1 DEF BufferHas
  <1> HIDE DEF W
  <1>4. ASSUME u > 0
        PROVE  /\ data[At(1)] = NUL
               /\ \E y \in 2..size : data[At(y)] = NUL
    <2>1. u \in 1..count /\ 1 \in 1..size /\ count \in Nat
      BY <1>1, <1>4
    <2>2. data[At(1)] = NUL
      BY <1>2, <1>3, <2>1 DEF IsByte
    <2>3. /\ lens[u] \in Nat /\ lens[u] + 2 \in 2..size /\ st[u] \in Nat
          /\ st[u + 1] = st[u] + lens[u] + 1
      <3>1. lens[u] \in Lens
        BY <2>1
      <3>2. lens[u] \in Nat /\ lens[u] + 2 <= size
        BY <3>1, LogRingAssumption DEF Roomy
      <3>3. st[u + 1] = st[u] + lens[u] + 1
        BY <2>1 DEF Starts
      <3>4. u \in 1..(count + 1)
        BY <1>1, <2>1
      <3> QED  BY <1>1, <3>2, <3>3, <3>4
    <2> DEFINE y == lens[u] + 2
    <2>4. W - y = st[u] - 1 /\ y \in 2..size /\ y \in 1..size
      BY <1>1, <1>2, <2>3
    <2> HIDE DEF y
    <2>5. IsByte(st, st[u] - 1, data[At(y)])
      BY <1>3, <2>4
    <2>6. CASE u = 1
      <3>1. st[u] = 0
        BY <2>6 DEF Starts
      <3>2. data[At(y)] = NUL
        BY <2>5, <3>1 DEF IsByte
      <3> QED  BY <2>2, <2>4, <3>2
    <2>7. CASE u # 1
      <3>1. u - 1 \in 1..count /\ (u - 1) + 1 = u
        BY ONLY <2>1, <2>7
      <3>2. data[At(y)] = NUL
        BY <2>5, <3>1 DEF IsByte
      <3> QED  BY <2>2, <2>4, <3>2
    <2> QED  BY <2>6, <2>7
  <1>5. ASSUME p = tail, u > 0  PROVE  Advance(p) # -1
    <2>1. At(1) \in (p..(size - 1)) \cup (0..(tail - 1))
      BY <1>1, <1>5 DEF At
    <2>2. data[At(1)] = NUL
      BY <1>4, <1>5
    <2>3. CASE \E c : Found(p, c)
      <3>1. PICK c : Found(p, c)
        BY <2>3
      <3> QED  BY <1>1, <3>1 DEF Found
    <2> QED  BY <2>1, <2>2, <2>3, AdvanceIs
  <1>6. ASSUME Advance(p) # -1
        PROVE  \E a \in 1..(u + 1) : /\ Printed(Advance(p)) = Messages(a, u)
                                     /\ p = tail /\ u > 0 => a <= u
    <2>1. PICK c : Found(p, c)
      BY <1>6, AdvanceIs
    <2>2. PICK e \in 1..size : c = At(e) /\ Advance(p) = At(e - 1)
      BY <2>1, Distance DEF Found
    <2>3. IsByte(st, W - e, NUL) /\ W - e \in Int
      BY <1>3, <2>1, <2>2 DEF Found
    <2>4. /\ e - 1 \in 0..(size - 1) /\ W - (e - 1) = (W - e) + 1 /\ W - e < st[u + 1]
          /\ e \in Nat
      BY <1>1, <1>2
    <2>5. PICK a \in 1..(u + 1) : W - (e - 1) = st[a] \/ (a = 1 /\ W - (e - 1) <= 0)
      <3>1. CASE W - e < 0
        <4>1. 1 \in 1..(u + 1) /\ (W - e) + 1 <= 0
          BY <1>1, <2>3, <3>1
        <4> QED  BY <2>4, <4>1
      <3>2. CASE ~(W - e < 0)
        <4>1. W - e \in Nat
          BY <2>3, <3>2
        <4>2. PICK a \in 1..(u + 1) : st[a] = (W - e) + 1
          BY <2>3, <2>4, <4>1, Boundary
        <4> QED  BY <2>4, <4>2
      <3> QED  BY <3>1, <3>2
    <2>6. Printed(Advance(p)) = Messages(a, u)
      BY <2>2, <2>4, <2>5, PrintsMessages DEF W
    <2>7. ASSUME p = tail, u > 0  PROVE  a <= u
      <3> SUFFICES ASSUME a = u + 1  PROVE  FALSE
        BY <1>1
      <3>1. e = 1
        <4>1. W - (e - 1) = W
          BY <1>1, <1>2, <2>5, <2>7
        <4> QED  BY <1>2, <2>4, <4>1
      <3>2. PICK y \in 2..size : data[At(y)] = NUL
        BY <1>4, <2>7
      <3>3. CASE c >= p /\ \A l \in p..(c - 1) : data[l] # NUL
        <4>1. At(y) \in p..(c - 1)
          BY <1>1, <2>2, <2>7, <3>1, <3>3 DEF At
        <4> QED  BY <3>2, <3>3, <4>1
      <3>4. CASE c < tail /\ \A l \in (p..(size - 1)) \cup (0..(c - 1)) : data[l] # NUL
        <4>1. At(y) \in (p..(size - 1)) \cup (0..(c - 1))
          BY <1>1, <2>2, <2>7, <3>1, <3>4 DEF At
        <4> QED  BY <3>2, <3>4, <4>1
      <3> QED  BY <2>1, <3>3, <3>4 DEF Found
    <2> QED  BY <2>6, <2>7
  <1> QED  BY <1>5, <1>6

-----------------------------------------------------------------------------
(* The invariant.                                                          *)
\* Types of what TypeOK leaves out.
ReaderType ==
  /\ kills \in Nat /\ astray \in [Readers -> BOOLEAN] /\ upto \in [Readers -> Int]
  /\ DOMAIN out = Readers
  /\ \A m \in 1..count : lens[m] \in Lens

\* What log_to_shmem() has still to copy is the end of the last message.
Rest ==
  /\ wpc \in {"idle", "unlock"} => msg = << >>
  /\ wpc \in {"lock", "copy"} =>
        /\ count > 0 /\ Len(msg) <= lens[count] + 1
        /\ \A i \in 1..Len(msg) : msg[i] = IF i = Len(msg) THEN NUL ELSE count
  /\ wpc = "lock" => Len(msg) = lens[count] + 1

\* The last message in the buffer, while nobody copies.
Complete == IF wpc = "lock" THEN count - 1 ELSE count

\* A follower has printed all messages from one on, up to where it is in the text.
UpToDate(st, r) ==
  /\ behind[r] < size
  /\ \E x \in 0..count : /\ st[x + 1] = Copied(st) - behind[r]
                         /\ \E a \in 1..(x + 1) : out[r] = Messages(a, x)

\* A dump has printed all messages from one on, and at least one if none was
\* written since it looked at tail.
Dumped(r) ==
  \E a \in 1..(upto[r] + 1) : /\ out[r] = Messages(a, upto[r])
                              /\ upto[r] > 0 /\ behind[r] = 0 => a <= upto[r]

\* What a reader relies on: cur is "behind" bytes before tail, unless the buffer
\* went round since; a follower that kept up has missed nothing; and nothing is
\* written while it holds the semaphore.
Sees(st, r) ==
  /\ rpc[r] = "start" => out[r] = << >>
  /\ Attached(r) =>
       /\ behind[r] < size => cur[r] = At(behind[r])
       /\ r \in Follow /\ ~astray[r] => UpToDate(st, r)
       /\ r \in Follow /\ rpc[r] = "unlock" => behind[r] = 0
       /\ r \notin Follow => IF rpc[r] = "unlock" THEN Dumped(r) ELSE out[r] = << >>
       /\ Reading(r) => upto[r] = Complete

\* As long as syslogd is not killed, the buffer holds the end of the text, and
\* every reader is somewhere in it.
RingInv ==
  kills = 0 => \E st : /\ Starts(st) /\ Rest /\ BufferHas(st)
                       /\ \A r \in Readers : Sees(st, r)

-----------------------------------------------------------------------------
\* With the lengths of the messages, what they are stays the same.
LEMMA MessagesSame ==
  ASSUME NEW a \in Int, NEW b \in Int, \A m \in a..b : lens'[m] = lens[m]
  PROVE  Messages(a, b)' = Messages(a, b)
  <1>1. ASSUME NEW k \in 1..(b - a + 1)  PROVE  Body(a + k - 1)' = Body(a + k - 1)
    <2>1. a + k - 1 \in a..b
      OBVIOUS
    <2> QED  BY <2>1 DEF Body
  <1>2. [k \in 1..(b - a + 1) |-> Body(a + k - 1)]' = [k \in 1..(b - a + 1) |-> Body(a + k - 1)]
    BY <1>1
  <1> QED  BY <1>2 DEF Messages

\* What a reader sees does not change by what others do, nor with the writer's
\* place while it holds no lock.
LEMMA SeesSame ==
  ASSUME NEW st, NEW q \in Readers, UNCHANGED <<tail, msg, count, lens>>,
         rpc'[q] = rpc[q], cur'[q] = cur[q], upto'[q] = upto[q], out'[q] = out[q],
         behind'[q] = behind[q], astray'[q] = astray[q],
         Reading(q) => Complete' = Complete, Sees(st, q)
  PROVE  Sees(st, q)'
  <1>1. \A a, b : Messages(a, b)' = Messages(a, b)
    BY DEF Messages, Body
  <1>2. (Attached(q) <=> Attached(q)') /\ (Reading(q) <=> Reading(q)') /\ Copied(st)' = Copied(st)
    BY DEF Attached, Reading, Copied
  <1>3. At(behind[q])' = At(behind[q])
    BY DEF At
  <1>4. UpToDate(st, q) => UpToDate(st, q)'
    BY <1>1, <1>2 DEF UpToDate
  <1>5. Dumped(q) => Dumped(q)'
    BY <1>1 DEF Dumped
  <1> QED  BY <1>2, <1>3, <1>4, <1>5 DEF Sees

\* The text in the buffer does not change by what readers do.
LEMMA TextSame ==
  ASSUME NEW st, UNCHANGED <<data, tail, msg, count, lens>>, Starts(st), BufferHas(st)
  PROVE  Starts(st)' /\ BufferHas(st)'
  BY DEF Starts, BufferHas, IsByte, Copied, At

\* While nobody copies, the text ends with the end of a message.
LEMMA EndsWhole ==
  ASSUME TypeOK, CopyType, NEW st, Starts(st), Rest, wpc # "copy"
  PROVE  Complete \in 0..count /\ Copied(st) = st[Complete + 1]
  <1>1. count \in Nat /\ \A m \in 1..(count + 1) : st[m] \in Nat
    BY Numbers
  <1>2. CASE wpc = "lock"
    <2>1. count \in 1..count /\ count - 1 \in 0..count /\ (count - 1) + 1 = count
      BY <1>1, <1>2 DEF Rest
    <2>2. st[count + 1] = st[count] + lens[count] + 1 /\ Len(msg) = lens[count] + 1
      BY <1>2, <2>1 DEF Rest, Starts
    <2>3. st[count] \in Nat /\ lens[count] \in Nat
      BY <1>1, <2>1, Numbers
    <2>4. st[count + 1] - Len(msg) = st[count]
      BY <2>2, <2>3
    <2> QED  BY <1>2, <2>1, <2>4 DEF Complete, Copied
  <1>3. CASE wpc # "lock"
    <2>1. msg = << >>
      BY <1>3 DEF Rest, TypeOK
    <2>2. Len(msg) = 0 /\ count + 1 \in 1..(count + 1)
      BY <1>1, <2>1
    <2>3. st[count + 1] - Len(msg) = st[count + 1]
      BY <1>1, <2>2
    <2> QED  BY <1>1, <1>3, <2>3 DEF Complete, Copied
  <1> QED  BY <1>2, <1>3

\* Every step keeps those types.
LEMMA ReaderTypeStep ==
  ASSUME TypeOK, CopyType, ReaderType, [Next]_vars
  PROVE  ReaderType'
  <1> USE DEF ReaderType
  <1>0. ASSUME UNCHANGED <<kills, astray, upto, count, lens>>, DOMAIN out' = Readers
        PROVE  ReaderType'
    BY <1>0
  <1>1. ASSUME NEW n \in Lens, Message(n)  PROVE  ReaderType'
    <2>1. lens' = Append(lens, n) /\ count' = count + 1 /\ UNCHANGED <<kills, astray, upto, out>>
      BY <1>1 DEF Message, seen, reader
    <2>2. lens \in Seq(Nat) /\ Len(lens) = count /\ count \in Nat /\ n \in Nat
      BY LogRingAssumption DEF CopyType, TypeOK
    <2>3. /\ \A m \in 1..count : lens'[m] = lens[m]
          /\ lens'[count + 1] = n
      BY <2>1, <2>2, AppendProperties
    <2>4. \A m \in 1..(count + 1) : m = count + 1 \/ m \in 1..count
      BY <2>2
    <2> QED  BY <2>1, <2>3, <2>4
  <1>2. CASE WriterLock \/ WriterUnlock
    BY <1>0, <1>2 DEF WriterLock, WriterUnlock, reader, seen
  <1>3. CASE Copy
    <2>1. astray' \in [Readers -> BOOLEAN] /\ UNCHANGED <<kills, upto, out, count, lens>>
      BY <1>3 DEF Copy, reader
    <2> QED  BY <2>1
  <1>5. CASE Killed
    BY <1>5 DEF Killed, reader, seen
  <1>6. ASSUME NEW r \in Readers, Attach(r)  PROVE  ReaderType'
    <2>1. /\ astray' = [astray EXCEPT ![r] = wpc = "copy" /\ Len(msg) <= lens[count]]
          /\ UNCHANGED <<kills, upto, out, count, lens>>
      BY <1>6, Zenon DEF Attach, writer
    <2>2. astray' \in [Readers -> BOOLEAN]
      <3>1. (wpc = "copy" /\ Len(msg) <= lens[count]) \in BOOLEAN
        OBVIOUS
      <3> HIDE DEF ReaderType
      <3>2. astray \in [Readers -> BOOLEAN]
        BY DEF ReaderType
      <3> QED  BY <2>1, <3>1, <3>2, Zenon
    <2> QED  BY <2>1, <2>2
  <1>7. ASSUME NEW r \in Readers, ReaderLock(r)  PROVE  ReaderType'
    <2>1. upto' \in [Readers -> Int] /\ UNCHANGED <<kills, astray, out, count, lens>>
      BY <1>7, LogRingAssumption DEF ReaderLock, TypeOK, writer, seen
    <2> QED  BY <2>1
  <1>8. ASSUME NEW r \in Readers, ReadDump(r)  PROVE  ReaderType'
    <2>1. UNCHANGED <<kills, astray, upto, count, lens>> /\ DOMAIN out' = Readers
      BY <1>8 DEF ReadDump, writer, seen
    <2> QED  BY <1>0, <2>1
  <1>9. ASSUME NEW r \in Readers, ReadNew(r)  PROVE  ReaderType'
    <2>1. UNCHANGED <<kills, astray, upto, count, lens>> /\ DOMAIN out' = Readers
      BY <1>9 DEF ReadNew, writer
    <2> QED  BY <1>0, <2>1
  <1>10. ASSUME NEW r \in Readers, ReaderUnlock(r) \/ ReaderKilled(r)  PROVE  ReaderType'
    <2>1. UNCHANGED <<kills, count, lens>>
      BY <1>10 DEF ReaderUnlock, ReaderKilled, writer
    <2>2. CASE Exits(r)
      <3>1. /\ upto' = [upto EXCEPT ![r] = 0] /\ out' = [out EXCEPT ![r] = << >>]
            /\ astray' = [astray EXCEPT ![r] = FALSE]
        BY <2>2 DEF Exits
      <3>2. astray' \in [Readers -> BOOLEAN]
        BY <3>1
      <3>3. upto' \in [Readers -> Int] /\ DOMAIN out' = Readers
        BY <3>1
      <3> QED  BY <2>1, <3>2, <3>3
    <2>3. CASE UNCHANGED <<cur, upto, out, seen>>
      BY <2>1, <2>3 DEF seen
    <2> QED  BY <1>10, <2>2, <2>3 DEF ReaderUnlock, ReaderKilled
  <1>11. CASE UNCHANGED vars
    BY <1>11 DEF vars, writer, reader, seen
  <1> QED  BY <1>1, <1>2, <1>3, <1>5, <1>6, <1>7, <1>8, <1>9, <1>10, <1>11
           DEF Next, WriterStep, ReaderStep

-----------------------------------------------------------------------------
(* One turn of the loop in log_to_shmem().                                 *)
\* What Copy stores are the first L bytes of msg, from tail on.
LEMMA CopyIs ==
  ASSUME TypeOK, CopyType, Copy
  PROVE  \E L \in 0..Len(msg) :
           /\ tail + L <= size /\ tail' = IF tail + L = size THEN 0 ELSE tail + L
           /\ L = 0 => Len(msg) = 0
           /\ Len(msg') = Len(msg) - L /\ \A i \in 1..(Len(msg) - L) : msg'[i] = msg[i + L]
           /\ \A k \in 0..size : data'[k] = IF k \in tail..(tail + L - 1) THEN msg[k - tail + 1]
                                            ELSE data[k]
           /\ wpc' = (IF tail + L = size THEN "copy" ELSE "unlock")
           /\ wpc' = "unlock" => msg' = << >>
  <1>1. /\ tail \in 0..(size - 1) /\ size \in Nat \ {0} /\ msg \in Seq(0..MaxMsgs)
        /\ Len(msg) \in Nat /\ wpc = "copy"
    BY LogRingAssumption DEF TypeOK, CopyType, Copy
  <1>2. CASE Fits(Len(msg))
    <2>1. /\ data' = Stored(tail, msg) /\ tail' = tail + Len(msg) /\ msg' = << >>
          /\ wpc' = "unlock" /\ tail + Len(msg) < size
      BY <1>2 DEF Copy, Fits
    <2>2. /\ Len(msg) \in 0..Len(msg) /\ ~(tail + Len(msg) = size) /\ Len(msg) - Len(msg) = 0
          /\ tail + Len(msg) <= size
      BY <1>1, <2>1
    <2>3. \A k \in 0..size : data'[k] = IF k \in tail..(tail + Len(msg) - 1) THEN msg[k - tail + 1]
                                        ELSE data[k]
      BY <2>1, Zenon DEF Stored
    <2>4. Len(msg') = Len(msg) - Len(msg)
      BY <2>1, <2>2
    <2>5. 1..(Len(msg) - Len(msg)) = {}
      BY <2>2
    <2> QED  BY <2>1, <2>2, <2>3, <2>4, <2>5
  <1>3. CASE ~Fits(Len(msg))
    <2> DEFINE L == size - tail
               s == SubSeq(msg, 1, L)
    <2>1. L \in 1..Len(msg) /\ L \in 0..Len(msg) /\ L # 0 /\ tail + L = size /\ tail + L <= size
      BY <1>1, <1>3 DEF Fits
    <2>2. data' = Stored(tail, s) /\ tail' = 0 /\ msg' = SubSeq(msg, L + 1, Len(msg)) /\ wpc' = "copy"
      BY <1>1, <1>3 DEF Copy
    <2> HIDE DEF L
    <2>0. \A i \in 1..Len(msg) : msg[i] \in 0..MaxMsgs
      BY <1>1, ElementOfSeq
    <2>3. Len(s) = L /\ \A i \in 1..L : s[i] = msg[i]
      <3>1. L \in Int /\ 1 <= L /\ L - 1 + 1 = L /\ \A i \in 1..L : msg[i] \in 0..MaxMsgs
        <4>1. \A i \in 1..L : i \in 1..Len(msg)
          BY <1>1, <2>1
        <4> QED  BY <1>1, <2>0, <2>1, <4>1
      <3>2. /\ Len(s) = (IF 1 <= L THEN L - 1 + 1 ELSE 0)
            /\ \A i \in 1..(L - 1 + 1) : s[i] = msg[1 + i - 1]
        BY <3>1, SubSeqProperties
      <3>3. \A i \in 1..L : 1 + i - 1 = i
        BY <3>1
      <3> QED  BY <3>1, <3>2, <3>3
    <2>4. Len(msg') = Len(msg) - L /\ \A i \in 1..(Len(msg) - L) : msg'[i] = msg[i + L]
      <3>1. /\ L + 1 \in Int /\ Len(msg) \in Int
            /\ \A i \in (L + 1)..Len(msg) : msg[i] \in 0..MaxMsgs
        <4>1. \A i \in (L + 1)..Len(msg) : i \in 1..Len(msg)
          BY <1>1, <2>1
        <4> QED  BY <1>1, <2>0, <2>1, <4>1
      <3>2. /\ Len(msg') = IF L + 1 <= Len(msg) THEN Len(msg) - (L + 1) + 1 ELSE 0
            /\ \A i \in 1..(Len(msg) - (L + 1) + 1) : msg'[i] = msg[L + 1 + i - 1]
        BY <2>2, <3>1, SubSeqProperties
      <3>3. /\ \A i \in 1..(Len(msg) - L) : L + 1 + i - 1 = i + L
            /\ Len(msg) - (L + 1) + 1 = Len(msg) - L
            /\ (IF L + 1 <= Len(msg) THEN Len(msg) - (L + 1) + 1 ELSE 0) = Len(msg) - L
        BY <1>1, <2>1
      <3> QED  BY <3>2, <3>3
    <2>5. ASSUME NEW k \in 0..size
          PROVE  data'[k] = IF k \in tail..(tail + L - 1) THEN msg[k - tail + 1] ELSE data[k]
      <3>1. data'[k] = IF k \in tail..(tail + L - 1) THEN s[k - tail + 1] ELSE data[k]
        <4> HIDE DEF s
        <4> QED  BY <2>2, <2>3 DEF Stored
      <3>2. CASE k \in tail..(tail + L - 1)
        <4>1. k - tail + 1 \in 1..L
          BY <1>1, <2>1, <3>2
        <4>2. s[k - tail + 1] = msg[k - tail + 1]
          BY <2>3, <4>1
        <4> QED  BY <3>1, <3>2, <4>2
      <3>3. CASE k \notin tail..(tail + L - 1)
        BY <3>1, <3>3
      <3> QED  BY <3>2, <3>3
    <2> HIDE DEF s
    <2> QED  BY <2>1, <2>2, <2>4, <2>5
  <1> QED  BY <1>2, <1>3

\* The byte before the rest of msg is i bytes into it: it belongs there.
LEMMA NextByte ==
  ASSUME TypeOK, CopyType, NEW st, Starts(st), Rest, wpc = "copy", NEW i \in 1..Len(msg)
  PROVE  IsByte(st, st[count + 1] - Len(msg) + i - 1, msg[i])
  <1>1. /\ count \in 1..count /\ count \in Nat /\ Len(msg) <= lens[count] + 1
        /\ msg[i] = IF i = Len(msg) THEN NUL ELSE count
        /\ Len(msg) \in Nat
    BY Numbers DEF Rest
  <1>2. st[count + 1] = st[count] + lens[count] + 1
    <2>1. \A m \in 1..count : st[m + 1] = st[m] + lens[m] + 1
      BY DEF Starts
    <2> QED  BY ONLY <1>1, <2>1
  <1>3. st[count] \in Nat /\ lens[count] \in Nat /\ st[count + 1] \in Nat
    <2>1. /\ \A m \in 1..count : lens[m] \in Nat
          /\ \A m \in 1..(count + 1) : st[m] \in Nat
      BY Numbers
    <2>2. count \in 1..(count + 1) /\ count + 1 \in 1..(count + 1)
      BY ONLY <1>1
    <2> QED  BY ONLY <1>1, <2>1, <2>2
  <1> DEFINE w == st[count + 1] - Len(msg) + i - 1
  <1>4. /\ w \in Int /\ ~(w < 0) /\ st[count] <= w
        /\ w = st[count + 1] - 1 => i = Len(msg)
        /\ w < st[count + 1] - 1 => i # Len(msg)
    <2>1. ASSUME NEW s \in Nat, NEW t \in Nat, NEW n \in Nat, NEW k \in Nat, t = s + n + 1,
                 k <= n + 1, i \in 1..k
          PROVE  /\ t - k + i - 1 \in Int /\ ~(t - k + i - 1 < 0) /\ s <= t - k + i - 1
                 /\ t - k + i - 1 = t - 1 => i = k
                 /\ t - k + i - 1 < t - 1 => i # k
      BY ONLY <2>1
    <2> QED  BY <1>1, <1>2, <1>3, <2>1
  <1> HIDE DEF w
  <1>5. ASSUME NEW m \in 1..count
        PROVE  /\ st[m] <= w /\ w < st[m + 1] - 1 => msg[i] = m
               /\ w = st[m + 1] - 1 => msg[i] = NUL
    <2>1. CASE m = count
      BY <1>1, <1>4, <2>1
    <2>2. CASE m # count
      <3>1. m + 1 \in 1..(count + 1) /\ count \in 1..(count + 1) /\ (m + 1 = count \/ m + 1 < count)
        BY <1>1, <2>2
      <3>2. m + 1 < count => st[m + 1] < st[count]
        BY <3>1 DEF Starts
      <3>3. st[m + 1] \in Nat
        BY <3>1 DEF Starts
      <3>4. ~(w < st[m + 1] - 1) /\ ~(w = st[m + 1] - 1)
        <4>1. st[m + 1] <= st[count]
          <5>1. m + 1 = count => st[m + 1] = st[count]
            OBVIOUS
          <5> QED  BY ONLY <1>3, <3>1, <3>2, <3>3, <5>1
        <4>2. w \in Int /\ st[count] <= w
          BY <1>4
        <4> QED  BY ONLY <1>3, <3>3, <4>1, <4>2
      <3> QED  BY <3>4
    <2> QED  BY <2>1, <2>2
  <1>6. IsByte(st, w, msg[i])
    BY <1>4, <1>5 DEF IsByte
  <1> QED  BY <1>6 DEF w

\* What is stored extends the text, and moves every reader away from tail.
LEMMA CopyStep ==
  ASSUME TypeOK, CopyType, Semaphores, ReaderType, Copy, NEW st, Starts(st), Rest, BufferHas(st)
  PROVE  /\ Starts(st)' /\ Rest' /\ BufferHas(st)'
         /\ \A r \in Readers : Sees(st, r) => Sees(st, r)'
  <1>1. /\ tail \in 0..(size - 1) /\ size \in Nat \ {0} /\ Len(msg) \in Nat /\ count \in Nat
        /\ st[count + 1] \in Int /\ wpc = "copy" /\ UNCHANGED <<count, lens, rpc, cur, upto, out>>
        /\ Copied(st) \in Int
    <2>1. st[count + 1] \in Nat
      BY LogRingAssumption DEF Starts, TypeOK
    <2> QED  BY <2>1, Numbers DEF Copy, reader
  <1>2. PICK L \in 0..Len(msg) :
           /\ tail + L <= size /\ tail' = IF tail + L = size THEN 0 ELSE tail + L
           /\ L = 0 => Len(msg) = 0
           /\ Len(msg') = Len(msg) - L /\ \A i \in 1..(Len(msg) - L) : msg'[i] = msg[i + L]
           /\ \A k \in 0..size : data'[k] = IF k \in tail..(tail + L - 1) THEN msg[k - tail + 1]
                                            ELSE data[k]
           /\ wpc' = (IF tail + L = size THEN "copy" ELSE "unlock")
           /\ wpc' = "unlock" => msg' = << >>
    BY CopyIs
  <1>3. L \in Nat /\ L <= Len(msg) /\ tail + L <= size /\ Len(msg') = Len(msg) - L
    BY <1>1, <1>2
  <1>4. tail' = IF tail + L = size THEN 0 ELSE tail + L
    BY <1>2
  <1>5. Starts(st)'
    BY <1>1 DEF Starts
  <1>6. Copied(st)' = Copied(st) + L
    BY <1>1, <1>3 DEF Copied
  <1>7. Rest'
    <2>1. /\ count > 0 /\ Len(msg) <= lens[count] + 1
          /\ \A i \in 1..Len(msg) : msg[i] = IF i = Len(msg) THEN NUL ELSE count
      BY <1>1 DEF Rest
    <2>2. lens[count] \in Nat
      <3>1. count \in 1..count
        BY <1>1, <2>1
      <3> QED  BY <3>1, Numbers
    <2>3. Len(msg') <= lens[count] + 1
      BY <1>1, <1>3, <2>1, <2>2
    <2>4. ASSUME NEW i \in 1..Len(msg')  PROVE  msg'[i] = IF i = Len(msg') THEN NUL ELSE count
      <3>1. i + L \in 1..Len(msg) /\ i \in 1..(Len(msg) - L) /\ (i + L = Len(msg) <=> i = Len(msg'))
        BY <1>1, <1>3
      <3>2. msg'[i] = msg[i + L]
        BY <1>2, <3>1
      <3> QED  BY <2>1, <3>1, <3>2
    <2>5. wpc' = "copy" \/ (wpc' = "unlock" /\ msg' = << >>)
      BY <1>2
    <2> QED  BY <1>1, <2>1, <2>3, <2>4, <2>5 DEF Rest
  <1>8. BufferHas(st)'
    <2>1. ASSUME NEW e \in 1..size  PROVE  IsByte(st, Copied(st)' - e, data'[At(e)'])
      <3>1. CASE e <= L
        <4>1. /\ At(e)' = tail + L - e /\ tail + L - e \in 0..size
              /\ tail + L - e \in tail..(tail + L - 1)
              /\ (tail + L - e) - tail + 1 = L - e + 1 /\ L - e + 1 \in 1..Len(msg)
          BY <1>1, <1>3, <1>4, <3>1 DEF At
        <4>2. data'[At(e)'] = msg[L - e + 1]
          BY <1>2, <4>1
        <4>3. IsByte(st, st[count + 1] - Len(msg) + (L - e + 1) - 1, msg[L - e + 1])
          BY <1>1, <4>1, NextByte
        <4>4. Copied(st)' - e = st[count + 1] - Len(msg) + (L - e + 1) - 1
          BY <1>1, <1>3, <1>6 DEF Copied
        <4> QED  BY <4>2, <4>3, <4>4
      <3>2. CASE ~(e <= L)
        <4>1. /\ At(e)' = At(e - L) /\ At(e - L) \in 0..size /\ e - L \in 1..size
              /\ At(e - L) \notin tail..(tail + L - 1)
          BY <1>1, <1>3, <1>4, <3>2 DEF At
        <4>2. data'[At(e)'] = data[At(e - L)]
          BY <1>2, <4>1
        <4>3. IsByte(st, Copied(st) - (e - L), data[At(e - L)])
          BY <4>1 DEF BufferHas
        <4>4. Copied(st)' - e = Copied(st) - (e - L)
          BY <1>1, <1>3, <1>6
        <4> QED  BY <4>2, <4>3, <4>4
      <3> QED  BY <3>1, <3>2
    <2>2. \A w, c : IsByte(st, w, c)' <=> IsByte(st, w, c)
      BY <1>1 DEF IsByte
    <2> QED  BY <2>1, <2>2 DEF BufferHas
  <1>9. ASSUME NEW r \in Readers, Sees(st, r)  PROVE  Sees(st, r)'
    <2>1. ~Reading(r) /\ (Attached(r)' <=> Attached(r)) /\ (Reading(r)' <=> Reading(r))
      BY <1>1 DEF Semaphores, Holders, Attached, Reading
    <2>2. CASE ~Attached(r)
      BY <1>1, <1>9, <2>1, <2>2 DEF Sees
    <2>3. CASE Attached(r)
      <3>1. behind'[r] = (IF size <= behind[r] + L THEN size ELSE behind[r] + L) /\ behind[r] \in Nat
        <4>1. behind'[r] = Min({size, behind[r] + Len(msg) - Len(msg')})
          BY <2>3 DEF Copy
        <4>2. behind[r] \in Nat /\ behind[r] + L \in Nat /\ behind[r] + Len(msg) - Len(msg') = behind[r] + L
          <5>1. behind[r] \in Nat
            BY <1>1 DEF TypeOK
          <5> QED  BY <1>1, <1>3, <5>1
        <4> QED  BY <1>1, <4>1, <4>2, MinIs
      <3>2. ASSUME behind'[r] < size
            PROVE  /\ behind[r] < size /\ behind'[r] = behind[r] + L
                   /\ At(behind[r])' = At(behind[r])
        <4>1. behind[r] < size /\ behind'[r] = behind[r] + L /\ behind[r] + L < size
          BY <1>1, <1>3, <3>1, <3>2
        <4>2. ASSUME NEW b \in Nat, b + L < size  PROVE  At(b + L)' = At(b)
          BY <1>1, <1>3, <1>4, <4>2 DEF At
        <4>3. At(behind[r])' = At(behind[r])
          <5>1. PICK b \in Nat : b = behind[r]
            BY <3>1
          <5>2. At(b + L)' = At(b)
            BY <4>1, <4>2, <5>1
          <5>3. At(behind[r])' = At(b + L)'
            BY <4>1, <5>1 DEF At
          <5> QED  BY <5>1, <5>2, <5>3
        <4> QED  BY <4>1, <4>3
      <3>3. behind'[r] < size => cur'[r] = At(behind[r])'
        BY <1>1, <1>9, <2>3, <3>2 DEF Sees
      <3>4. ASSUME r \in Follow, ~astray'[r]  PROVE  UpToDate(st, r)'
        <4>1. ~astray[r] /\ behind'[r] # size
          BY <3>4 DEF Copy
        <4>2. behind'[r] < size
          BY <1>1, <1>3, <3>1, <4>1
        <4>3. UpToDate(st, r)
          BY <1>9, <2>3, <3>4, <4>1 DEF Sees
        <4>4. Copied(st)' - behind'[r] = Copied(st) - behind[r]
          BY <1>1, <1>3, <1>6, <3>1, <3>2, <4>2
        <4>5. \A a, x : Messages(a, x)' = Messages(a, x)
          BY <1>1 DEF Messages, Body
        <4> QED  BY <1>1, <4>2, <4>3, <4>4, <4>5 DEF UpToDate
      <3> QED  BY <1>1, <1>9, <2>1, <2>3, <3>3, <3>4 DEF Sees, Reading, Attached
    <2> QED  BY <2>2, <2>3
  <1> QED  BY <1>5, <1>7, <1>8, <1>9

-----------------------------------------------------------------------------
(* The other steps.                                                        *)
\* A message arrives: the text will be longer.
LEMMA MessageStep ==
  ASSUME TypeOK, CopyType, NEW n \in Lens, Message(n), NEW st, Starts(st), Rest, BufferHas(st),
         \A r \in Readers : Sees(st, r)
  PROVE  \E s : /\ Starts(s)' /\ Rest' /\ BufferHas(s)'
                /\ \A r \in Readers : Sees(s, r)'
  <1>1. /\ wpc = "idle" /\ wpc' = "lock" /\ count' = count + 1 /\ lens' = Append(lens, n)
        /\ msg' = [k \in 1..(n + 1) |-> IF k = n + 1 THEN NUL ELSE count + 1]
        /\ UNCHANGED <<data, tail, rpc, cur, upto, out, behind, astray>>
    BY DEF Message, shbuf, reader, seen
  <1>2. /\ count \in Nat /\ n \in Nat /\ lens \in Seq(Nat) /\ Len(lens) = count
        /\ \A m \in 1..(count + 1) : st[m] \in Nat
        /\ count + 1 \in 1..(count + 1)
    <2>1. n \in Nat
      BY LogRingAssumption
    <2>2. /\ count \in Nat /\ lens \in Seq(Nat) /\ Len(lens) = count
          /\ \A m \in 1..(count + 1) : st[m] \in Nat
      BY Numbers
    <2>3. count + 1 \in 1..(count + 1)
      BY ONLY <2>2
    <2> QED  BY <2>1, <2>2, <2>3
  <1>0. PICK s : s = [m \in 1..(count + 2) |-> IF m = count + 2 THEN st[count + 1] + n + 1 ELSE st[m]]
    OBVIOUS
  <1>3. /\ \A m \in 1..count : lens'[m] = lens[m]
        /\ lens'[count + 1] = n
    BY <1>1, <1>2, AppendProperties
  <1>4. /\ \A m \in 1..(count + 1) : s[m] = st[m] /\ m \in 1..(count + 2) /\ m # count + 2
        /\ s[count + 2] = st[count + 1] + n + 1 /\ count' + 1 = count + 2
    BY <1>0, <1>1, <1>2
  <1>5. s \in [1..(count + 2) -> Nat]
    <2>1. ASSUME NEW m \in 1..(count + 2)
          PROVE  (IF m = count + 2 THEN st[count + 1] + n + 1 ELSE st[m]) \in Nat
      <3>1. m = count + 2 \/ m \in 1..(count + 1)
        BY <1>2
      <3> QED  BY <1>2, <3>1
    <2> QED  BY <1>0, <2>1
  <1>6. Starts(s)'
    <2>1. s[1] = 0
      <3>1. 1 \in 1..(count + 1)
        BY <1>2
      <3> QED  BY <1>4, <3>1 DEF Starts
    <2>2. ASSUME NEW m \in 1..(count + 1)  PROVE  s[m + 1] = s[m] + lens'[m] + 1
      <3>1. CASE m = count + 1
        <4>1. m + 1 = count + 2
          BY <1>2, <3>1
        <4> QED  BY <1>3, <1>4, <3>1, <4>1
      <3>2. CASE m # count + 1
        <4>1. m \in 1..count /\ m + 1 \in 1..(count + 1)
          BY <1>2, <3>2
        <4>2. st[m + 1] = st[m] + lens[m] + 1
          BY <4>1 DEF Starts
        <4> QED  BY <1>3, <1>4, <4>1, <4>2
      <3> QED  BY <3>1, <3>2
    <2>3. ASSUME NEW m \in 1..(count + 2), NEW k \in 1..(count + 2), m < k  PROVE  s[m] < s[k]
      <3>1. m \in 1..(count + 1) /\ (k = count + 2 \/ k \in 1..(count + 1))
        BY <1>2, <2>3
      <3>2. CASE k \in 1..(count + 1)
        BY <1>4, <2>3, <3>1, <3>2 DEF Starts
      <3>3. CASE k = count + 2
        <4>1. m = count + 1 \/ m < count + 1
          BY <1>2, <3>1
        <4>2. m < count + 1 => st[m] < st[count + 1]
          BY <1>2, <3>1 DEF Starts
        <4>3. s[m] = st[m] /\ st[m] \in Nat /\ st[count + 1] \in Nat
          BY <1>2, <1>4, <3>1
        <4>4. s[k] = st[count + 1] + n + 1
          BY <1>4, <3>3
        <4>5. st[m] <= st[count + 1]
          BY ONLY <4>1, <4>2, <4>3
        <4> QED  BY <1>2, <4>3, <4>4, <4>5
      <3> QED  BY <3>1, <3>2, <3>3
    <2>4. 1..(count' + 1) = 1..(count + 2) /\ 1..count' = 1..(count + 1)
      BY <1>1, <1>2
    <2> QED  BY ONLY <1>5, <2>1, <2>2, <2>3, <2>4 DEF Starts
  <1>7. Rest'
    <2>1. Len(msg') = n + 1 /\ count' \in Nat /\ count' > 0 /\ lens'[count'] = n
      BY <1>1, <1>2, <1>3
    <2>2. \A i \in 1..(n + 1) : msg'[i] = IF i = n + 1 THEN NUL ELSE count'
      BY <1>1
    <2>3. Len(msg') <= lens'[count'] + 1 /\ Len(msg') = lens'[count'] + 1
      BY <1>2, <2>1
    <2>4. wpc' = "lock"
      BY <1>1
    <2> QED  BY ONLY <2>1, <2>2, <2>3, <2>4 DEF Rest
  <1>8. Copied(s)' = Copied(st) /\ Copied(st) = st[count + 1]
    <2>1. Len(msg) = 0 /\ Len(msg') = n + 1
      BY <1>1, <1>2 DEF Rest
    <2>2. st[count + 1] \in Nat
      BY <1>2
    <2> QED  BY <1>2, <1>4, <2>1, <2>2 DEF Copied
  <1>9. BufferHas(s)'
    <2>1. ASSUME NEW e \in 1..size  PROVE  IsByte(s, Copied(s) - e, data[At(e)])'
      <3> DEFINE w == Copied(st) - e
                 c == data[At(e)]
      <3>1. IsByte(st, w, c)
        BY DEF BufferHas
      <3>2. w \in Int /\ w < st[count + 1]
        BY <1>2, <1>8, LogRingAssumption
      <3> HIDE DEF w, c
      <3>3. ASSUME NEW m \in 1..(count + 1)
            PROVE  /\ s[m] <= w /\ w < s[m + 1] - 1 => c = m
                   /\ w = s[m + 1] - 1 => c = NUL
        <4>1. CASE m = count + 1
          <5>1. s[m] = st[count + 1] /\ s[m + 1] = st[count + 1] + n + 1 /\ st[count + 1] \in Nat
            <6>1. m + 1 = count + 2
              BY <1>2, <4>1
            <6> QED  BY <1>2, <1>4, <4>1, <6>1
          <5>2. ~(s[m] <= w) /\ ~(w = s[m + 1] - 1)
            BY <1>2, <3>2, <5>1
          <5> QED  BY <5>2
        <4>2. CASE m # count + 1
          <5>1. m \in 1..count /\ m + 1 \in 1..(count + 1)
            BY <1>2, <4>2
          <5> QED  BY <1>4, <3>1, <5>1 DEF IsByte
        <4> QED  BY <4>1, <4>2
      <3>4. w < 0 => c = NUL
        BY <3>1 DEF IsByte
      <3>5. Copied(s)' - e = w /\ data'[At(e)'] = c /\ count' = count + 1
        BY <1>1, <1>8 DEF w, c, At
      <3> QED  BY <3>3, <3>4, <3>5 DEF IsByte
    <2> QED  BY <2>1 DEF BufferHas
  <1>10. ASSUME NEW r \in Readers  PROVE  Sees(s, r)'
    <2>1. Sees(st, r)
      OBVIOUS
    <2>2. Complete' = Complete
      BY <1>1, <1>2 DEF Complete
    <2>3. UpToDate(st, r) => UpToDate(s, r)'
      <3> SUFFICES ASSUME UpToDate(st, r)  PROVE  UpToDate(s, r)'
        OBVIOUS
      <3>1. PICK x \in 0..count : /\ st[x + 1] = Copied(st) - behind[r]
                                  /\ \E a \in 1..(x + 1) : out[r] = Messages(a, x)
        BY DEF UpToDate
      <3>2. PICK a \in 1..(x + 1) : out[r] = Messages(a, x)
        BY <3>1
      <3>3. x \in 0..count' /\ x + 1 \in 1..(count + 1) /\ a \in Int /\ x \in Int
        BY <1>1, <1>2
      <3>4. \A m \in a..x : lens'[m] = lens[m]
        <4>1. \A m \in a..x : m \in 1..count
          BY <1>2
        <4> QED  BY <1>3, <4>1
      <3>5. Messages(a, x)' = Messages(a, x)
        BY <3>3, <3>4, MessagesSame
      <3>6. s[x + 1] = st[x + 1]
        BY <1>4, <3>3
      <3>7. behind[r] < size
        BY DEF UpToDate
      <3> QED  BY <1>1, <1>8, <3>1, <3>2, <3>3, <3>5, <3>6, <3>7 DEF UpToDate
    <2>4. Attached(r) /\ Reading(r) => upto[r] \in Int /\ upto[r] <= count
      BY <2>1, <1>1, <1>2 DEF Sees, Complete
    <2>5. Attached(r) /\ Reading(r) /\ Dumped(r) => Dumped(r)'
      <3> SUFFICES ASSUME Attached(r), Reading(r), Dumped(r)  PROVE  Dumped(r)'
        OBVIOUS
      <3>1. PICK a \in 1..(upto[r] + 1) : /\ out[r] = Messages(a, upto[r])
                                          /\ upto[r] > 0 /\ behind[r] = 0 => a <= upto[r]
        BY DEF Dumped
      <3>2. \A m \in a..upto[r] : lens'[m] = lens[m]
        <4>1. \A m \in a..upto[r] : m \in 1..count
          BY <1>2, <2>4
        <4> QED  BY <1>3, <4>1
      <3>3. Messages(a, upto[r])' = Messages(a, upto[r])
        <4>1. PICK u \in Int : u = upto[r]
          BY <2>4
        <4>2. a \in Int /\ \A m \in a..u : lens'[m] = lens[m]
          BY <3>2, <4>1
        <4>3. Messages(a, u)' = Messages(a, u)
          BY <4>2, MessagesSame
        <4> QED  BY <1>1, <4>1, <4>3
      <3> QED  BY <1>1, <3>1, <3>3 DEF Dumped
    <2>6. /\ (Attached(r) <=> Attached(r)') /\ (Reading(r) <=> Reading(r)')
          /\ At(behind[r])' = At(behind[r])
      BY <1>1 DEF Attached, Reading, At
    <2>7. rpc[r] = "unlock" => Reading(r)
      BY DEF Reading
    <2> QED  BY <1>1, <2>1, <2>2, <2>3, <2>5, <2>6, <2>7 DEF Sees
  <1> QED  BY <1>6, <1>7, <1>9, <1>10

\* A step of one reader.
Others(r) ==
  \A q \in Readers \ {r} :
    /\ rpc'[q] = rpc[q] /\ cur'[q] = cur[q] /\ upto'[q] = upto[q] /\ out'[q] = out[q]
    /\ behind'[q] = behind[q] /\ astray'[q] = astray[q]

\* The other readers see what they saw.
LEMMA OthersSee ==
  ASSUME NEW st, NEW r \in Readers, UNCHANGED <<shbuf, writer>>, Others(r),
         \A q \in Readers : Sees(st, q), Sees(st, r)'
  PROVE  \A q \in Readers : Sees(st, q)'
  <1> SUFFICES ASSUME NEW q \in Readers \ {r}  PROVE  Sees(st, q)'
    OBVIOUS
  <1>1. Complete' = Complete
    BY DEF Complete, writer
  <1> QED  BY <1>1, SeesSame DEF Others, shbuf, writer

\* logread attaches, with nothing printed.
LEMMA AttachStep ==
  ASSUME TypeOK, CopyType, ReaderType, NEW r \in Readers, Attach(r), NEW st, Starts(st), Rest,
         Sees(st, r)
  PROVE  Sees(st, r)' /\ Others(r)
  <1>1. /\ cur'[r] = tail /\ behind'[r] = 0 /\ rpc'[r] = "lock" /\ Others(r)
        /\ out' = out /\ UNCHANGED <<shbuf, writer>> /\ rpc[r] = "start"
        /\ astray'[r] = (wpc = "copy" /\ Len(msg) <= lens[count])
    <2>1. /\ rpc' = [rpc EXCEPT ![r] = "lock"] /\ cur' = [cur EXCEPT ![r] = tail]
          /\ behind' = [behind EXCEPT ![r] = 0]
          /\ astray' = [astray EXCEPT ![r] = wpc = "copy" /\ Len(msg) <= lens[count]]
          /\ UNCHANGED <<upto, out, shbuf, writer>> /\ rpc[r] = "start"
      BY Zenon DEF Attach, Goto
    <2>2. /\ rpc \in [Readers -> Locs] /\ cur \in [Readers -> 0..(size - 1)]
          /\ behind \in [Readers -> 0..size] /\ astray \in [Readers -> BOOLEAN]
      BY DEF TypeOK, ReaderType, Locs
    <2>3. astray'[r] = (wpc = "copy" /\ Len(msg) <= lens[count])
      BY <2>1, <2>2, Zenon
    <2>4. \A q \in Readers \ {r} : astray'[q] = astray[q]
      BY <2>1, <2>2, Zenon
    <2> QED  BY <2>1, <2>2, <2>3, <2>4 DEF Others
  <1>2. /\ size \in Nat \ {0} /\ tail \in 0..(size - 1) /\ count \in Nat
        /\ \A m \in 1..(count + 1) : st[m] \in Nat
        /\ Copied(st) \in Int
    BY Numbers
  <1>3. cur'[r] = At(behind[r])'
    BY <1>1, <1>2 DEF At, shbuf
  <1>4. ASSUME ~astray'[r]  PROVE  UpToDate(st, r)'
    <2>1. PICK x \in 0..count : st[x + 1] = Copied(st)
      <3>1. CASE wpc = "copy"
        <4>0. /\ count > 0 /\ Len(msg) <= lens[count] + 1 /\ ~(Len(msg) <= lens[count])
              /\ count \in Nat
          BY <1>1, <1>2, <1>4, <3>1 DEF Rest
        <4>1. /\ count \in 1..count /\ Len(msg) <= lens[count] + 1 /\ ~(Len(msg) <= lens[count])
              /\ count - 1 \in 0..count /\ (count - 1) + 1 = count /\ count \in 1..(count + 1)
          BY ONLY <4>0
        <4>2. lens[count] \in Nat /\ Len(msg) \in Nat
          BY <4>1, Numbers
        <4>3. Len(msg) = lens[count] + 1
          BY ONLY <4>1, <4>2
        <4>4. st[count + 1] = st[count] + lens[count] + 1
          BY <4>1 DEF Starts
        <4>5. st[count] \in Nat
          BY <1>2, <4>1
        <4>6. Copied(st) = st[count]
          BY <4>2, <4>3, <4>4, <4>5 DEF Copied
        <4> QED  BY <4>1, <4>6
      <3>2. CASE wpc # "copy"
        BY <3>2, EndsWhole
      <3> QED  BY <3>1, <3>2
    <2>2. /\ x + 1 \in 1..(x + 1) /\ (x + 1) - 1 = x /\ x + 1 \in Nat
          /\ Copied(st) - 0 = Copied(st) /\ 0 < size
      BY <1>2
    <2>3. Messages(x + 1, x) = << >>
      BY <2>2, MessagesNone
    <2>4. out[r] = Messages(x + 1, x)
      BY <1>1, <2>3 DEF Sees
    <2>5. \A a, b : Messages(a, b)' = Messages(a, b)
      BY <1>1 DEF Messages, Body, writer
    <2>6. UNCHANGED <<msg, count>>
      BY <1>1 DEF writer
    <2> QED  BY <1>1, <2>1, <2>2, <2>4, <2>5, <2>6 DEF UpToDate, Copied
  <1>5. Attached(r)' /\ ~Reading(r)' /\ rpc'[r] # "unlock" /\ rpc'[r] # "start" /\ out'[r] = << >>
    BY <1>1 DEF Attached, Reading, Sees
  <1> QED  BY <1>1, <1>3, <1>4, <1>5 DEF Sees

\* A dump.
LEMMA DumpStep ==
  ASSUME Roomy, TypeOK, CopyType, ReaderType, wpc # "copy", NEW r \in Readers, ReadDump(r),
         NEW st, Starts(st), Rest, BufferHas(st), Sees(st, r)
  PROVE  Sees(st, r)' /\ Others(r)
  <1>1. /\ rpc' = [rpc EXCEPT ![r] = "unlock"] /\ rpc[r] = "read" /\ r \notin Follow
        /\ UNCHANGED <<shbuf, writer, cur, upto, behind, astray>>
        /\ IF Advance(cur[r]) = -1 THEN UNCHANGED out
           ELSE out' = [out EXCEPT ![r] = Printed(Advance(cur[r]))]
    BY DEF ReadDump, Goto, seen
  <1>2. rpc'[r] = "unlock" /\ Others(r)
    BY <1>1 DEF Others, TypeOK, ReaderType
  <1>3. out'[r] = IF Advance(cur[r]) = -1 THEN out[r] ELSE Printed(Advance(cur[r]))
    BY <1>1 DEF ReaderType
  <1>4. upto[r] = Complete /\ out[r] = << >> /\ (behind[r] < size => cur[r] = At(behind[r]))
    BY <1>1 DEF Sees, Attached, Reading
  <1>5. /\ upto[r] \in 0..count /\ Copied(st) = st[upto[r] + 1] /\ cur[r] \in 0..(size - 1)
        /\ size \in Nat \ {0} /\ tail \in 0..(size - 1)
    BY <1>4, EndsWhole, LogRingAssumption DEF TypeOK
  <1>6. behind[r] = 0 => cur[r] = tail
    BY <1>4, <1>5 DEF At
  <1>7. /\ Advance(cur[r]) # -1 =>
             \E a \in 1..(upto[r] + 1) : /\ Printed(Advance(cur[r])) = Messages(a, upto[r])
                                         /\ cur[r] = tail /\ upto[r] > 0 => a <= upto[r]
        /\ cur[r] = tail /\ upto[r] > 0 => Advance(cur[r]) # -1
    BY <1>5, DumpShows DEF ReaderType
  <1>8. \E a \in 1..(upto[r] + 1) : /\ out'[r] = Messages(a, upto[r])
                                    /\ upto[r] > 0 /\ behind[r] = 0 => a <= upto[r]
    <2>1. CASE Advance(cur[r]) = -1
      <3>1. /\ upto[r] + 1 \in 1..(upto[r] + 1) /\ (upto[r] + 1) - 1 = upto[r]
            /\ upto[r] + 1 \in Nat
        BY <1>5
      <3>2. Messages(upto[r] + 1, upto[r]) = << >>
        BY <3>1, MessagesNone
      <3> QED  BY <1>3, <1>4, <1>6, <1>7, <2>1, <3>1, <3>2
    <2>2. CASE Advance(cur[r]) # -1
      BY <1>3, <1>6, <1>7, <2>2
    <2> QED  BY <2>1, <2>2
  <1>9. \A a, b : Messages(a, b)' = Messages(a, b)
    BY <1>1 DEF Messages, Body, writer
  <1>10. Dumped(r)'
    BY <1>1, <1>8, <1>9 DEF Dumped
  <1>11. upto'[r] = Complete' /\ (behind'[r] < size => cur'[r] = At(behind[r])')
    BY <1>1, <1>4 DEF Complete, At, writer, shbuf
  <1> QED  BY <1>1, <1>2, <1>10, <1>11 DEF Sees, Reading, Attached

\* A follower prints what is new.
LEMMA NewStep ==
  ASSUME TypeOK, CopyType, ReaderType, wpc # "copy", NEW r \in Readers, ReadNew(r),
         NEW st, Starts(st), Rest, BufferHas(st), Sees(st, r)
  PROVE  Sees(st, r)' /\ Others(r)
  <1>1. /\ rpc' = [rpc EXCEPT ![r] = "unlock"] /\ rpc[r] = "read" /\ r \in Follow
        /\ UNCHANGED <<shbuf, writer, upto, astray>>
        /\ cur' = [cur EXCEPT ![r] = tail] /\ behind' = [behind EXCEPT ![r] = 0]
        /\ out' = [out EXCEPT ![r] = out[r] \o Printed(cur[r])]
    BY DEF ReadNew, Goto
  <1>2. rpc'[r] = "unlock" /\ cur'[r] = tail /\ behind'[r] = 0 /\ Others(r)
    BY <1>1 DEF Others, TypeOK, ReaderType
  <1>3. out'[r] = out[r] \o Printed(cur[r])
    BY <1>1 DEF ReaderType
  <1>4. upto[r] = Complete /\ (behind[r] < size => cur[r] = At(behind[r]))
    BY <1>1 DEF Sees, Attached, Reading
  <1>5. /\ size \in Nat \ {0} /\ tail \in 0..(size - 1) /\ count \in Nat /\ Len(lens) = count
        /\ lens \in Seq(Nat) /\ \A m \in 1..(count + 1) : st[m] \in Nat
        /\ behind[r] \in Nat
    BY Numbers DEF TypeOK
  <1>6. PICK u \in 0..count : u = Complete /\ Copied(st) = st[u + 1]
    BY EndsWhole
  <1>7. \A a, b : Messages(a, b)' = Messages(a, b)
    BY <1>1 DEF Messages, Body, writer
  <1>8. Copied(st)' = Copied(st) /\ Copied(st) \in Int /\ u \in Nat /\ st[u + 1] \in Nat
    <2>1. u + 1 \in 1..(count + 1)
      BY <1>5
    <2> QED  BY <1>1, <1>5, <1>6, <2>1 DEF Copied, writer
  <1>9. ASSUME ~astray'[r]  PROVE  UpToDate(st, r)'
    <2>1. UpToDate(st, r)
      BY <1>1, <1>9 DEF Sees, Attached
    <2>2. PICK x \in 0..count : /\ st[x + 1] = Copied(st) - behind[r]
                                /\ \E a \in 1..(x + 1) : out[r] = Messages(a, x)
      BY <2>1 DEF UpToDate
    <2>3. PICK a \in 1..(x + 1) : out[r] = Messages(a, x)
      BY <2>2
    <2>4. x <= u
      <3> SUFFICES ASSUME u < x  PROVE  FALSE
        BY <1>8, <2>2
      <3>1. u + 1 \in 1..(count + 1) /\ x + 1 \in 1..(count + 1) /\ u + 1 < x + 1
        BY <1>5
      <3>2. st[u + 1] < st[x + 1] /\ st[x + 1] \in Nat
        BY <3>1 DEF Starts
      <3>3. st[x + 1] = st[u + 1] - behind[r]
        BY <1>6, <2>2
      <3> QED  BY ONLY <1>5, <1>8, <3>2, <3>3
    <2>5. /\ x + 1 \in 1..(u + 1) /\ a \in 1..(u + 1) /\ u \in x..count
          /\ behind[r] \in 0..(size - 1) /\ cur[r] = At(behind[r])
      <3>1. behind[r] < size
        BY <2>1 DEF UpToDate
      <3> QED  BY <1>4, <1>5, <1>8, <2>4, <3>1
    <2>6. Copied(st) - behind[r] = st[x + 1]
      BY <2>2
    <2>7. Printed(cur[r]) = Messages(x + 1, u)
      BY <1>6, <2>5, <2>6, PrintsMessages
    <2>8. Messages(a, x) \o Messages(x + 1, u) = Messages(a, u)
      BY <1>5, <2>5, MessagesJoin
    <2>9. out'[r] = Messages(a, u)
      BY <1>3, <2>3, <2>7, <2>8
    <2>10. st[u + 1] = Copied(st)' - 0 /\ 0 < size
      BY <1>5, <1>6, <1>8
    <2>11. u \in 0..count'
      BY <1>1 DEF writer
    <2> QED  BY <1>2, <1>7, <2>5, <2>9, <2>10, <2>11 DEF UpToDate
  <1>10. upto'[r] = Complete' /\ cur'[r] = At(behind[r])'
    BY <1>1, <1>2, <1>4, <1>5 DEF Complete, At, writer, shbuf
  <1> QED  BY <1>1, <1>2, <1>9, <1>10 DEF Sees, Reading, Attached

\* Every step keeps the invariant; Killed does because it counts in kills.
LEMMA RingStep ==
  ASSUME Roomy, Inv, ReaderType, RingInv, [Next]_vars
  PROVE  RingInv'
  <1> SUFFICES ASSUME kills' = 0
               PROVE  (\E st : /\ Starts(st) /\ Rest /\ BufferHas(st)
                               /\ \A r \in Readers : Sees(st, r))'
    BY DEF RingInv
  <1> DEFINE Goal(st) == Starts(st)' /\ Rest' /\ BufferHas(st)' /\ \A r \in Readers : Sees(st, r)'
  <1>0. kills = 0 /\ ~Killed /\ kills \in Nat
    <2>1. kills \in Nat
      BY DEF ReaderType
    <2>2. ~Killed
      BY <2>1 DEF Killed
    <2>3. kills' = kills
      BY <2>2 DEF Next, WriterStep, Message, WriterLock, Copy, WriterUnlock, ReaderStep, Attach,
                  ReaderLock, ReadDump, ReadNew, ReaderUnlock, ReaderKilled, vars
    <2> QED  BY <2>1, <2>2, <2>3
  <1>1. PICK st : Starts(st) /\ Rest /\ BufferHas(st) /\ \A r \in Readers : Sees(st, r)
    BY <1>0 DEF RingInv
  <1> USE DEF Inv
  <1>2. \A r \in Readers : Reading(r) => wpc # "copy" /\ sem1 # 1
    BY DEF Semaphores, Holders
  <1>3. ASSUME NEW n \in Lens, Message(n)  PROVE  \E s : Goal(s)
    BY <1>1, <1>3, MessageStep
  <1>4. CASE WriterLock
    <2>1. /\ wpc = "lock" /\ wpc' = "copy" /\ UNCHANGED <<shbuf, msg, count, lens, reader, seen>>
          /\ Holders = {}
      <3>1. Cardinality(Holders) = 0
        BY <1>4 DEF WriterLock, Semaphores
      <3>2. Holders = {}
        BY <3>1, HoldersFinite, FS_EmptySet
      <3> QED  BY <1>4, <3>2 DEF WriterLock
    <2>2. Rest'
      BY <1>1, <2>1 DEF Rest
    <2>3. ASSUME NEW q \in Readers  PROVE  Sees(st, q)'
      <3>1. ~Reading(q)
        BY <2>1 DEF Holders
      <3> QED  BY <1>1, <2>1, <3>1, SeesSame DEF shbuf, reader, seen
    <2>4. Starts(st)' /\ BufferHas(st)'
      BY <1>1, <2>1, TextSame DEF shbuf
    <2> QED  BY <2>2, <2>3, <2>4
  <1>5. CASE Copy
    BY <1>1, <1>5, CopyStep
  <1>6. CASE WriterUnlock
    <2>1. wpc = "unlock" /\ wpc' = "idle" /\ UNCHANGED <<shbuf, msg, count, lens, reader, seen>>
      BY <1>6 DEF WriterUnlock
    <2>2. Rest' /\ Complete' = Complete
      BY <1>1, <2>1 DEF Rest, Complete
    <2>3. ASSUME NEW q \in Readers  PROVE  Sees(st, q)'
      BY <1>1, <2>1, <2>2, SeesSame DEF shbuf, reader, seen
    <2>4. Starts(st)' /\ BufferHas(st)'
      BY <1>1, <2>1, TextSame DEF shbuf
    <2> QED  BY <2>2, <2>3, <2>4
  <1>7. ASSUME NEW r \in Readers, UNCHANGED <<shbuf, writer>>, Others(r), Sees(st, r)'
        PROVE  \E s : Goal(s)
    <2>1. UNCHANGED <<data, tail, msg, count, lens, wpc>>
      BY <1>7 DEF shbuf, writer
    <2>2. Starts(st)' /\ BufferHas(st)'
      BY <1>1, <2>1, TextSame
    <2>3. Rest'
      BY <1>1, <2>1 DEF Rest
    <2>4. \A q \in Readers : Sees(st, q)'
      BY <1>1, <1>7, OthersSee
    <2> QED  BY <2>2, <2>3, <2>4
  <1>8. ASSUME NEW r \in Readers, Attach(r)  PROVE  \E s : Goal(s)
    <2>1. Sees(st, r)' /\ Others(r)
      BY <1>1, <1>8, AttachStep
    <2> QED  BY <1>7, <1>8, <2>1 DEF Attach
  <1>9. ASSUME NEW r \in Readers, ReaderLock(r)  PROVE  \E s : Goal(s)
    <2>1. /\ rpc' = [rpc EXCEPT ![r] = "read"] /\ upto' = [upto EXCEPT ![r] = Complete]
          /\ rpc[r] = "lock" /\ UNCHANGED <<shbuf, writer, cur, out, behind, astray>>
      BY <1>9 DEF ReaderLock, Goto, Complete, seen
    <2>2. Others(r) /\ rpc'[r] = "read" /\ upto'[r] = Complete
      BY <2>1 DEF Others, TypeOK, ReaderType
    <2>3. /\ behind[r] < size => cur[r] = At(behind[r])
          /\ r \in Follow /\ ~astray[r] => UpToDate(st, r)
          /\ r \notin Follow => out[r] = << >>
      BY <1>1, <2>1 DEF Sees, Attached
    <2>4. Complete' = Complete /\ At(behind[r])' = At(behind[r]) /\ Copied(st)' = Copied(st)
      BY <2>1 DEF Complete, At, Copied, shbuf, writer
    <2>5. \A a, b : Messages(a, b)' = Messages(a, b)
      BY <2>1 DEF Messages, Body, writer
    <2>6. UpToDate(st, r) => UpToDate(st, r)'
      BY <2>1, <2>4, <2>5 DEF UpToDate, writer
    <2>7. Sees(st, r)'
      BY <2>1, <2>2, <2>3, <2>4, <2>6 DEF Sees
    <2> QED  BY <1>7, <2>1, <2>2, <2>7
  <1>10. ASSUME NEW r \in Readers, ReadDump(r)  PROVE  \E s : Goal(s)
    <2>1. wpc # "copy"
      BY <1>2, <1>10 DEF ReadDump, Reading
    <2>2. Sees(st, r)' /\ Others(r)
      BY <1>1, <1>10, <2>1, DumpStep
    <2> QED  BY <1>7, <1>10, <2>2 DEF ReadDump
  <1>11. ASSUME NEW r \in Readers, ReadNew(r)  PROVE  \E s : Goal(s)
    <2>1. wpc # "copy"
      BY <1>2, <1>11 DEF ReadNew, Reading
    <2>2. Sees(st, r)' /\ Others(r)
      BY <1>1, <1>11, <2>1, NewStep
    <2> QED  BY <1>7, <1>11, <2>2 DEF ReadNew
  <1>12. ASSUME NEW r \in Readers, Exits(r), UNCHANGED <<shbuf, writer>>  PROVE  \E s : Goal(s)
    <2>1. /\ rpc' = [rpc EXCEPT ![r] = "exit"]
          /\ cur' = [cur EXCEPT ![r] = 0] /\ upto' = [upto EXCEPT ![r] = 0]
          /\ out' = [out EXCEPT ![r] = << >>]
          /\ behind' = [behind EXCEPT ![r] = 0] /\ astray' = [astray EXCEPT ![r] = FALSE]
      BY <1>12 DEF Exits, Goto
    <2>2. Others(r) /\ rpc'[r] = "exit"
      BY <2>1 DEF Others, TypeOK, ReaderType
    <2>3. Sees(st, r)'
      BY <2>2 DEF Sees, Attached
    <2> QED  BY <1>7, <1>12, <2>2, <2>3
  <1>13. ASSUME NEW r \in Readers, ReaderUnlock(r) \/ ReaderKilled(r)  PROVE  \E s : Goal(s)
    <2>1. CASE Exits(r)
      BY <1>12, <1>13, <2>1 DEF ReaderUnlock, ReaderKilled
    <2>2. CASE ~Exits(r)
      <3>1. /\ r \in Follow /\ rpc[r] = "unlock" /\ rpc' = [rpc EXCEPT ![r] = "lock"]
            /\ UNCHANGED <<cur, upto, out, behind, astray, shbuf, writer>>
        BY <1>13, <2>2 DEF ReaderUnlock, ReaderKilled, Goto, seen
      <3>2. Others(r) /\ rpc'[r] = "lock"
        BY <3>1 DEF Others, TypeOK
      <3>3. /\ behind[r] < size => cur[r] = At(behind[r])
            /\ ~astray[r] => UpToDate(st, r)
        BY <1>1, <3>1 DEF Sees, Attached
      <3>4. Complete' = Complete /\ At(behind[r])' = At(behind[r]) /\ Copied(st)' = Copied(st)
        BY <3>1 DEF Complete, At, Copied, shbuf, writer
      <3>5. \A a, b : Messages(a, b)' = Messages(a, b)
        BY <3>1 DEF Messages, Body, writer
      <3>6. UpToDate(st, r) => UpToDate(st, r)'
        BY <3>1, <3>4, <3>5 DEF UpToDate, writer
      <3>7. Sees(st, r)'
        BY <3>1, <3>2, <3>3, <3>4, <3>6 DEF Sees, Reading
      <3> QED  BY <1>7, <3>1, <3>2, <3>7
    <2> QED  BY <2>1, <2>2
  <1>14. CASE UNCHANGED vars
    <2>1. UNCHANGED <<data, tail, wpc, msg, count, lens, reader, seen>>
      BY <1>14 DEF vars, shbuf, writer
    <2>2. Starts(st)' /\ BufferHas(st)' /\ Rest' /\ Complete' = Complete
      BY <1>1, <2>1, TextSame DEF Rest, Complete
    <2>3. ASSUME NEW q \in Readers  PROVE  Sees(st, q)'
      BY <1>1, <2>1, <2>2, SeesSame DEF reader, seen
    <2> QED  BY <2>2, <2>3
  <1>15. \E s : Goal(s)
    BY <1>0, <1>3, <1>4, <1>5, <1>6, <1>8, <1>9, <1>10, <1>11, <1>13, <1>14
       DEF Next, WriterStep, ReaderStep
  <1> QED  BY <1>15

\* The invariant holds.
LEMMA RingCorrect ==
  ASSUME Roomy
  PROVE  Spec => [](ReaderType /\ RingInv)
  <1>1. Init => ReaderType /\ RingInv
    <2> SUFFICES ASSUME Init  PROVE  ReaderType /\ RingInv
      OBVIOUS
    <2>1. ReaderType
      BY DEF Init, ReaderType
    <2>2. PICK st : st = [m \in 1..1 |-> 0]
      OBVIOUS
    <2>3. /\ size \in Nat /\ data = [k \in 0..size |-> NUL] /\ tail = 0 /\ count = 0 /\ msg = << >>
          /\ wpc = "idle" /\ count + 1 = 1
      BY LogRingAssumption DEF Init
    <2>4. Starts(st)
      BY <2>2, <2>3 DEF Starts
    <2>5. Rest
      BY <2>3 DEF Rest
    <2>6. ASSUME NEW e \in 1..size  PROVE  IsByte(st, Copied(st) - e, data[At(e)])
      <3>1. At(e) \in 0..size
        BY <2>3 DEF At
      <3>2. data[At(e)] = NUL /\ 1..count = {}
        BY <2>3, <3>1
      <3> QED  BY <3>2 DEF IsByte
    <2>7. \A r \in Readers : Sees(st, r)
      BY DEF Init, Sees, Attached
    <2> QED  BY <2>1, <2>4, <2>5, <2>6, <2>7 DEF RingInv, BufferHas
  <1>2. Inv /\ ReaderType /\ RingInv /\ [Next]_vars => ReaderType' /\ RingInv'
    BY RingStep, ReaderTypeStep DEF Inv
  <1> QED  BY <1>1, <1>2, InvCorrect, PTL DEF Spec

\* What logread prints consists of whole messages in order, up to the last one in
\* the buffer when it took the lock: for a buffer of any size that has room for more
\* than a message, however often log_to_shmem() wrapped, and any number of readers.
THEOREM ReadersShowCorrect ==
  ASSUME Roomy
  PROVE  Spec => []ReadersShow
  <1>1. Inv /\ ReaderType /\ RingInv => ReadersShow
    <2> SUFFICES ASSUME Inv, RingInv, kills = 0, NEW r \in Readers, rpc[r] = "unlock",
                        r \in Follow => ~astray[r]
                 PROVE  \E a \in 1..(upto[r] + 1) :
                          /\ out[r] = Messages(a, upto[r])
                          /\ r \notin Follow /\ upto[r] > 0 /\ behind[r] = 0 => a <= upto[r]
      BY DEF ReadersShow
    <2>1. PICK st : Starts(st) /\ Rest /\ Sees(st, r)
      BY DEF RingInv
    <2>2. Reading(r) /\ Attached(r) /\ wpc # "copy"
      BY DEF Reading, Attached, Inv, Semaphores, Holders
    <2>3. CASE r \notin Follow
      BY <2>1, <2>2, <2>3 DEF Sees, Dumped
    <2>4. CASE r \in Follow
      <3>1. upto[r] = Complete /\ UpToDate(st, r) /\ behind[r] = 0
        BY <2>1, <2>2, <2>4 DEF Sees
      <3>2. PICK x \in 0..count : /\ st[x + 1] = Copied(st) - 0
                                  /\ \E a \in 1..(x + 1) : out[r] = Messages(a, x)
        BY <3>1 DEF UpToDate
      <3>3. /\ Complete \in 0..count /\ Copied(st) = st[Complete + 1] /\ count \in Nat
            /\ Copied(st) \in Int
        BY <2>1, <2>2, EndsWhole, Numbers DEF Inv
      <3>4. x = Complete
        <4>1. PICK u \in 0..count : u = Complete
          BY <3>3
        <4>2. x + 1 \in 1..(count + 1) /\ u + 1 \in 1..(count + 1)
          BY <3>3
        <4>3. st[x + 1] = st[u + 1] /\ st[u + 1] \in Int
          BY <3>2, <3>3, <4>1
        <4>4. ~(x + 1 < u + 1) /\ ~(u + 1 < x + 1)
          BY <2>1, <4>2, <4>3 DEF Starts
        <4>5. x = u
          BY <3>3, <4>4
        <4> QED  BY <4>1, <4>5
      <3> QED  BY <2>4, <3>1, <3>2, <3>4
    <2> QED  BY <2>3, <2>4
  <1> QED  BY <1>1, InvCorrect, RingCorrect, PTL
=============================================================================
