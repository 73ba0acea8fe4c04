--------------------------- MODULE Syslogd_proofs ---------------------------
(***************************************************************************)
(* What is proved of syslogd's log file and of its duplicate suppression,  *)
(* for any messages, sizes, numbers of old files, crashes and meddling.    *)
(***************************************************************************)
EXTENDS Syslogd, SequenceTheorems, WellFoundedInduction, TLAPS

USE DEF F, None

\* log_file->size is the size of the file that is open; syslogd writes only to
\* an open file, and rotates only names that exist.
OpenFile ==
  /\ fd # None => size = Len(inodes[fd])
  /\ pc = "check" => fd # None
  /\ pc = "shift" => i \in 0..(logFileRotate - 1)

\* No inode is too long, whether it has a name or not.
InodesBounded == \A j \in 1..Len(inodes) : Len(inodes[j]) <= logFileSize + 1

-----------------------------------------------------------------------------
(* Types.                                                                  *)
Content == Seq(0..Len(sent))

\* A new message is one that the files may hold from now on.
LEMMA ContentGrows ==
  ASSUME NEW a \in Nat, NEW b \in Nat, a <= b
  PROVE  /\ \A s \in Seq(0..a) : s \in Seq(0..b)
         /\ \A s \in Seq(1..a) : s \in Seq(1..b)
         /\ \A s \in Seq(Seq(0..a)) : s \in Seq(Seq(0..b))
  <1>1. 0..a \subseteq 0..b /\ 1..a \subseteq 1..b
    OBVIOUS
  <1>2. \A s \in Seq(0..a) : s \in Seq(0..b)
    BY <1>1, SeqMonotonic
  <1>3. \A s \in Seq(1..a) : s \in Seq(1..b)
    BY <1>1, SeqMonotonic
  <1>4. Seq(0..a) \subseteq Seq(0..b)
    BY <1>2
  <1>5. \A s \in Seq(Seq(0..a)) : s \in Seq(Seq(0..b))
    BY <1>4, SeqMonotonic
  <1> QED  BY <1>2, <1>3, <1>5

LEMMA SendTypes ==
  ASSUME TypeOK, NEW t \in Texts \cup {Empty}, Send(t)
  PROVE  TypeOK'
  <1> DEFINE n == Len(sent)
  <1>1. sent \in Seq(Texts \cup {Empty}) /\ n \in Nat
    BY LenProperties DEF TypeOK
  <1>2. sent' \in Seq(Texts \cup {Empty}) /\ Len(sent') = n + 1
    BY <1>1, AppendProperties DEF Send
  <1> HIDE DEF n
  <1>3. queue' \in Seq(1..Len(sent'))
    <2>1. queue \in Seq(1..(n + 1)) /\ n + 1 \in 1..(n + 1)
      BY <1>1, ContentGrows DEF TypeOK, n
    <2>2. queue' = Append(queue, n + 1)
      BY DEF Send, n
    <2> QED  BY <1>2, <2>1, <2>2, AppendProperties
  <1>4. inodes' \in Seq(Seq(0..Len(sent'))) /\ written' \in Seq(0..Len(sent'))
    <2>1. n + 1 \in Nat /\ n <= n + 1 /\ inodes \in Seq(Seq(0..n)) /\ written \in Seq(0..n)
      BY <1>1 DEF TypeOK, n
    <2>2. inodes' = inodes /\ written' = written
      BY DEF Send, disk
    <2> QED  BY <1>1, <1>2, <2>1, <2>2, ContentGrows
  <1>5. msg' \in 0..Len(sent')
    BY <1>1, <1>2 DEF TypeOK, Send, n
  <1>6. UNCHANGED <<buf, half, last_sz, pc, i, fd, size, recent, names, inodes, dir, meddled, crashes>>
    BY DEF Send, recv, disk, env
  <1> QED  BY <1>2, <1>3, <1>4, <1>5, <1>6 DEF TypeOK

LEMMA ReadTypes ==
  ASSUME TypeOK, ReadEmpty \/ Read
  PROVE  TypeOK'
  <1> DEFINE n == Len(sent)
  <1>1. sent \in Seq(Texts \cup {Empty}) /\ n \in Nat /\ queue \in Seq(1..n) /\ queue # << >>
    BY LenProperties DEF TypeOK, ReadEmpty, Read
  <1> HIDE DEF n
  <1>2. Head(queue) \in 1..n /\ Tail(queue) \in Seq(1..n)
    BY <1>1, HeadTailProperties
  <1>3. Text(Head(queue)) \in Texts \cup {Empty}
    BY <1>1, <1>2, ElementOfSeq DEF Text, n
  <1>4. queue' \in Seq(1..Len(sent')) /\ msg' \in 0..Len(sent')
    <2>1. queue' = Tail(queue) /\ sent' = sent /\ (msg' = msg \/ msg' = Head(queue))
      BY DEF ReadEmpty, Read
    <2>2. msg \in 0..n
      BY DEF TypeOK, n
    <2> QED  BY <1>1, <1>2, <2>1, <2>2 DEF n
  <1>5. Other(half) \in 1..2 /\ half' \in 1..2
    BY SMTT(30) DEF TypeOK, ReadEmpty, Read, Other
  <1>6. buf' \in [1..2 -> Texts \cup {Empty}]
    BY <1>3, <1>5 DEF TypeOK, ReadEmpty, Read
  <1>7. last_sz' \in BOOLEAN /\ pc' \in {"read", "log", "open", "check", "shift", "unlink"}
    BY DEF TypeOK, ReadEmpty, Read
  <1>8. UNCHANGED <<sent, i, fd, size, recent, names, inodes, written, dir, meddled, crashes>>
    BY DEF ReadEmpty, Read, disk, env
  <1> QED  BY <1>4, <1>5, <1>6, <1>7, <1>8 DEF TypeOK

\* The file that reopening finds or creates.
LEMMA OpenTypes ==
  ASSUME TypeOK, Open
  PROVE  /\ inodes' \in Seq(Content) /\ fd' \in 1..Len(inodes') /\ size' \in Nat
         /\ names' \in [Names -> 0..Len(inodes')]
         /\ \A j \in 1..Len(inodes') :
              \/ j \in 1..Len(inodes) /\ inodes'[j] = inodes[j]
              \/ inodes'[j] = << >>
  <1>1. /\ inodes \in Seq(Content) /\ Len(inodes) \in Nat /\ F \in Names
        /\ names \in [Names -> 0..Len(inodes)]
    BY LenProperties, SyslogdAssumption DEF TypeOK, Content, Names
  <1>2. CASE names[F] # None
    <2>1. inodes' = inodes /\ names' = names /\ fd' = names[F]
      BY <1>2 DEF Open
    <2>2. fd' \in 1..Len(inodes')
      BY <1>1, <1>2, <2>1
    <2> QED  BY <1>1, <2>1, <2>2 DEF Open, Content
  <1>3. CASE names[F] = None
    <2>1. /\ inodes' = Append(inodes, << >>) /\ names' = [names EXCEPT ![F] = Len(inodes')]
          /\ fd' = Len(inodes')
      BY <1>3 DEF Open
    <2>2. << >> \in Content /\ Len(<< >>) = 0
      BY DEF Content
    <2>3. inodes' \in Seq(Content) /\ Len(inodes') = Len(inodes) + 1
      BY <1>1, <2>1, <2>2, AppendProperties
    <2>4. \A j \in 1..Len(inodes) : inodes'[j] = inodes[j]
      BY <1>1, <2>1, <2>2, AppendProperties
    <2>5. inodes'[Len(inodes) + 1] = << >>
      BY <1>1, <2>1, <2>2, AppendProperties
    <2>6. size' = 0 /\ fd' \in 1..Len(inodes')
      BY <1>1, <2>1, <2>2, <2>3, <2>5 DEF Open
    <2>7. names' \in [Names -> 0..Len(inodes')]
      BY <1>1, <2>1, <2>3
    <2> QED  BY <1>1, <2>3, <2>4, <2>5, <2>6, <2>7
  <1> QED  BY <1>2, <1>3

\* A message appended to the open file.
LEMMA WriteTypes ==
  ASSUME TypeOK, OpenFile, Write
  PROVE  /\ inodes' \in Seq(Content) /\ Len(inodes') = Len(inodes)
         /\ written' \in Content /\ size' \in Nat /\ fd \in 1..Len(inodes)
         /\ size' = Len(inodes'[fd]) /\ size' <= logFileSize + 1
         /\ \A j \in 1..Len(inodes) : j # fd => inodes'[j] = inodes[j]
  <1>1. /\ inodes \in Seq(Content) /\ written \in Content /\ msg \in 0..Len(sent) /\ Len(inodes) \in Nat
        /\ fd \in 1..Len(inodes) /\ size \in Nat /\ logFileSize \in Nat
    BY LenProperties, SyslogdAssumption DEF TypeOK, OpenFile, Write, Content
  <1>2. inodes[fd] \in Content /\ size = Len(inodes[fd]) /\ size <= logFileSize
    BY <1>1, ElementOfSeq DEF OpenFile, Write, TooLarge
  <1>3. CASE UNCHANGED <<inodes, written, size>>
    BY <1>1, <1>2, <1>3
  <1>4. CASE /\ inodes' = [inodes EXCEPT ![fd] = Append(@, msg)]
             /\ written' = Append(written, msg) /\ size' = size + 1
    <2>1. /\ Append(inodes[fd], msg) \in Content /\ Append(written, msg) \in Content
          /\ Len(Append(inodes[fd], msg)) = size + 1
      BY <1>1, <1>2, AppendProperties DEF Content
    <2>2. inodes' = [inodes EXCEPT ![fd] = Append(inodes[fd], msg)]
      BY <1>4
    <2>3. inodes' \in Seq(Content) /\ Len(inodes') = Len(inodes)
      BY <1>1, <2>1, <2>2, ExceptSeq
    <2>4. \A j \in 1..Len(inodes) : inodes'[j] = IF j = fd THEN Append(inodes[fd], msg) ELSE inodes[j]
      BY <1>1, <2>1, <2>2, ExceptSeq
    <2> QED  BY <1>1, <1>2, <1>4, <2>1, <2>3, <2>4
  <1> QED  BY <1>3, <1>4 DEF Write

LEMMA Removed ==
  ASSUME NEW k \in Nat, NEW nm \in [Names -> 0..k]
  PROVE  [nm EXCEPT ![F] = None] \in [Names -> 0..k]
  <1>1. None \in 0..k
    OBVIOUS
  <1> HIDE DEF F, None
  <1> QED  BY <1>1

LEMMA RenamedTypes ==
  ASSUME TypeOK, NEW a \in Names, NEW b \in Names
  PROVE  Renamed(a, b) \in [Names -> 0..Len(inodes)]
  <1>1. Len(inodes) \in Nat /\ names \in [Names -> 0..Len(inodes)]
    BY LenProperties DEF TypeOK
  <1>2. [names EXCEPT ![b] = names[a], ![a] = None] \in [Names -> 0..Len(inodes)]
    BY <1>1
  <1> QED  BY <1>1, <1>2 DEF Renamed

LEMMA TypesStep ==
  ASSUME TypeOK, OpenFile, [Next]_vars
  PROVE  TypeOK'
  <1> USE SyslogdAssumption
  <1> DEFINE Quiet == UNCHANGED <<sent, queue, buf, half, last_sz, msg, dir, meddled, crashes>>
             Names2 == [Names -> 0..Len(inodes)]
  <1>0. ASSUME NEW l, Local(l)  PROVE  Quiet /\ pc' = l
    BY <1>0 DEF Local, net, recv, env
  <1>1. ASSUME NEW t \in Texts \cup {Empty}, Send(t)  PROVE  TypeOK'
    BY <1>1, SendTypes
  <1>2. CASE ReadEmpty \/ Read
    BY <1>2, ReadTypes
  <1>3. CASE Log
    <2>1. Quiet /\ pc' \in {"check", "open"} /\ fd' \in {fd, None} /\ recent' \in BOOLEAN
      BY <1>0, <1>3 DEF Log, TypeOK
    <2>2. UNCHANGED <<i, size, names, inodes, written>>
      BY <1>3 DEF Log, disk
    <2>3. fd' \in 0..Len(inodes)
      <3>1. Len(inodes) \in Nat
        BY LenProperties DEF TypeOK
      <3> QED  BY <2>1, <3>1 DEF TypeOK
    <2> QED  BY <2>1, <2>2, <2>3 DEF TypeOK
  <1>4. CASE Open
    <2>1. Quiet /\ pc' = "check" /\ UNCHANGED <<i, recent, written>>
      BY <1>0, <1>4 DEF Open
    <2>2. /\ inodes' \in Seq(Seq(0..Len(sent))) /\ fd' \in 0..Len(inodes') /\ size' \in Nat
          /\ names' \in [Names -> 0..Len(inodes')]
      BY <1>4, OpenTypes DEF Content
    <2> QED  BY <2>1, <2>2 DEF TypeOK
  <1>5. CASE OpenFails
    <2>1. Quiet /\ pc' = "read" /\ fd' = None /\ UNCHANGED <<i, size, recent, names, inodes, written>>
      BY <1>0, <1>5 DEF OpenFails, disk
    <2>2. Len(inodes) \in Nat
      BY LenProperties DEF TypeOK
    <2> QED  BY <2>1, <2>2 DEF TypeOK
  <1>6. CASE Rotate
    <2>1. Quiet /\ pc' \in {"unlink", "shift"} /\ i' = logFileRotate - 1
      BY <1>0, <1>6 DEF Rotate
    <2>2. UNCHANGED <<fd, size, recent, names, inodes, written>>
      BY <1>6 DEF Rotate, disk
    <2> QED  BY <2>1, <2>2 DEF TypeOK
  <1>7. CASE Shift
    <2>1. Quiet /\ pc' \in {"unlink", "shift"} /\ UNCHANGED <<fd, size, recent, inodes, written>>
      BY <1>0, <1>7 DEF Shift
    <2>2. i \in 0..(logFileRotate - 1) /\ i' \in -1..logFileRotate
      BY <1>7 DEF Shift, OpenFile
    <2>3. i - 1 \in Names /\ i \in Names
      BY <2>2 DEF Names
    <2>4. names' \in Names2
      BY <1>7, <2>3, RenamedTypes DEF Shift
    <2> QED  BY <2>1, <2>2, <2>4 DEF TypeOK
  <1>8. CASE Unlink
    <2>1. Quiet /\ pc' = "open" /\ fd' = None /\ UNCHANGED <<i, size, recent, inodes, written>>
      BY <1>0, <1>8 DEF Unlink
    <2>2. Len(inodes) \in Nat /\ names \in [Names -> 0..Len(inodes)]
      BY LenProperties DEF TypeOK
    <2>3. names' \in Names2
      <3>1. names' = names \/ names' = [names EXCEPT ![F] = None]
        BY <1>8 DEF Unlink
      <3> QED  BY <2>2, <3>1, Removed
    <2> QED  BY <2>1, <2>2, <2>3 DEF TypeOK
  <1>9. CASE Write
    <2>1. Quiet /\ pc' = "read" /\ UNCHANGED <<i, fd, recent, names>>
      BY <1>0, <1>9 DEF Write
    <2>2. /\ inodes' \in Seq(Seq(0..Len(sent))) /\ Len(inodes') = Len(inodes)
          /\ written' \in Seq(0..Len(sent)) /\ size' \in Nat
      BY <1>9, WriteTypes DEF Content
    <2> QED  BY <2>1, <2>2 DEF TypeOK
  <1>10. CASE Tick
    BY <1>10 DEF Tick, TypeOK, net, recv, disk, env
  <1>11. CASE AdminDeletes
    <2>1. Len(inodes) \in Nat /\ names \in [Names -> 0..Len(inodes)]
      BY LenProperties DEF TypeOK
    <2>2. names' \in Names2
      <3>1. names' = [names EXCEPT ![F] = None]
        BY <1>11 DEF AdminDeletes
      <3> QED  BY <2>1, <3>1, Removed
    <2>3. UNCHANGED <<sent, queue, buf, half, last_sz, msg, pc, i, fd, size, recent, inodes, written, dir, crashes>>
      BY <1>11 DEF AdminDeletes, net, recv
    <2> QED  BY <1>11, <2>2, <2>3 DEF TypeOK, AdminDeletes
  <1>12. CASE DirFails \/ DirRepaired
    <2>1. /\ UNCHANGED <<sent, queue, buf, half, last_sz, msg, pc, i, fd, size, recent, names, inodes, written, crashes>>
          /\ dir' \in BOOLEAN /\ meddled' \in BOOLEAN
      BY <1>12 DEF DirFails, DirRepaired, net, recv, disk, TypeOK
    <2> QED  BY <2>1 DEF TypeOK
  <1>13. CASE Crash
    <2>1. /\ queue' = << >> /\ buf' = <<Empty, Empty>> /\ half' = 1 /\ last_sz' = FALSE
          /\ msg' = 0 /\ pc' = "read" /\ i' = 0 /\ fd' = None /\ size' = 0 /\ recent' = FALSE
          /\ UNCHANGED <<sent, inodes, written, dir, meddled>> /\ crashes' \in 0..MaxCrashes
      BY <1>13 DEF Crash, TypeOK
    <2>2. Len(inodes) \in Nat /\ Len(sent) \in Nat
      BY LenProperties DEF TypeOK
    <2>3. names' \in Names2
      <3>1. CASE names' = names
        BY <3>1 DEF TypeOK
      <3>2. CASE pc = "shift" /\ names' = [names EXCEPT ![i] = names[i - 1]]
        <4>1. i - 1 \in Names /\ i \in Names
          BY <3>2 DEF OpenFile, Names
        <4> QED  BY <3>2, <4>1 DEF TypeOK
      <3> QED  BY <1>13, <3>1, <3>2 DEF Crash
    <2>4. buf' \in [1..2 -> Texts \cup {Empty}]
      BY <2>1
    <2>5. queue' \in Seq(1..Len(sent'))
      BY <2>1
    <2>6. i' \in -1..logFileRotate /\ fd' \in 0..Len(inodes') /\ msg' \in 0..Len(sent') /\ size' \in Nat
      BY <2>1, <2>2
    <2>7. half' \in 1..2
      BY <2>1
    <2>10. last_sz' \in BOOLEAN /\ recent' \in BOOLEAN /\ dir' \in BOOLEAN /\ meddled' \in BOOLEAN
      <3>1. last_sz' = FALSE /\ recent' = FALSE /\ dir' = dir /\ meddled' = meddled
        BY <2>1
      <3> QED  BY <3>1, Zenon DEF TypeOK
    <2>8. sent' = sent /\ inodes' = inodes /\ written' = written /\ pc' = "read"
      BY <2>1
    <2>9. crashes' \in 0..MaxCrashes
      BY <2>1
    <2> QED  BY <2>3, <2>4, <2>5, <2>6, <2>7, <2>8, <2>9, <2>10 DEF TypeOK
  <1>14. CASE UNCHANGED vars
    BY <1>14 DEF vars, net, recv, disk, env, TypeOK
  <1> QED  BY <1>1, <1>2, <1>3, <1>4, <1>5, <1>6, <1>7, <1>8, <1>9, <1>10, <1>11, <1>12, <1>13, <1>14
           DEF Next, Step

-----------------------------------------------------------------------------
(* The open file, and the bound on every file.                             *)
LEMMA OpenFileStep ==
  ASSUME TypeOK, OpenFile, InodesBounded, [Next]_vars
  PROVE  OpenFile' /\ InodesBounded'
  <1> USE SyslogdAssumption
  <1>0. ASSUME UNCHANGED <<fd, size, inodes>>, pc' # "shift", pc' = "check" => fd # None
        PROVE  OpenFile' /\ InodesBounded'
    BY <1>0 DEF OpenFile, InodesBounded
  <1>1. ASSUME UNCHANGED <<pc, i, fd, size, inodes>>
        PROVE  OpenFile' /\ InodesBounded'
    BY <1>1 DEF OpenFile, InodesBounded
  <1>2. ASSUME fd' = None, inodes' = inodes, pc' \notin {"check", "shift"}
        PROVE  OpenFile' /\ InodesBounded'
    BY <1>2 DEF OpenFile, InodesBounded
  <1>3. ASSUME NEW t \in Texts \cup {Empty}, Send(t)  PROVE  OpenFile' /\ InodesBounded'
    BY <1>1, <1>3 DEF Send, disk
  <1>4. CASE ReadEmpty \/ Read
    <2>1. UNCHANGED <<fd, size, inodes>> /\ pc' \in {"read", "log"}
      BY <1>4 DEF ReadEmpty, Read, disk
    <2> QED  BY <1>0, <2>1
  <1>5. CASE Log
    <2>1. CASE fd # None /\ recent
      BY <1>0, <1>5, <2>1 DEF Log, Local, disk
    <2>2. CASE ~(fd # None /\ recent)
      BY <1>2, <1>5, <2>2 DEF Log, Local, disk
    <2> QED  BY <2>1, <2>2
  <1>6. CASE Open
    <2>1. fd' \in 1..Len(inodes') /\ size' = Len(inodes'[fd']) /\ pc' = "check"
      BY <1>6, OpenTypes DEF Open, Local
    <2>2. OpenFile'
      BY <2>1 DEF OpenFile
    <2>3. ASSUME NEW j \in 1..Len(inodes')  PROVE  Len(inodes'[j]) <= logFileSize + 1
      <3>1. (j \in 1..Len(inodes) /\ inodes'[j] = inodes[j]) \/ inodes'[j] = << >>
        BY <1>6, OpenTypes
      <3> QED  BY <3>1 DEF InodesBounded
    <2> QED  BY <2>2, <2>3 DEF InodesBounded
  <1>7. CASE OpenFails
    BY <1>2, <1>7 DEF OpenFails, Local, disk
  <1>8. CASE Rotate
    <2>1. UNCHANGED <<fd, size, inodes>> /\ i' = logFileRotate - 1
      BY <1>8 DEF Rotate, disk
    <2>2. pc' = IF logFileRotate = 0 THEN "unlink" ELSE "shift"
      BY <1>8 DEF Rotate, Local
    <2> QED  BY <2>1, <2>2 DEF OpenFile, InodesBounded
  <1>9. CASE Shift
    <2>1. UNCHANGED <<fd, size, inodes>>
      BY <1>9 DEF Shift
    <2>2. CASE i = 0
      BY <1>0, <1>9, <2>1, <2>2 DEF Shift, Local
    <2>3. CASE i # 0
      BY <1>9, <2>1, <2>3 DEF Shift, Local, OpenFile, InodesBounded
    <2> QED  BY <2>2, <2>3
  <1>10. CASE Unlink
    BY <1>2, <1>10 DEF Unlink, Local
  <1>11. CASE Write
    <2>1. /\ Len(inodes') = Len(inodes) /\ fd \in 1..Len(inodes)
          /\ size' = Len(inodes'[fd]) /\ size' <= logFileSize + 1
          /\ \A j \in 1..Len(inodes) : j # fd => inodes'[j] = inodes[j]
      BY <1>11, WriteTypes
    <2>2. fd' = fd /\ pc' = "read"
      BY <1>11 DEF Write, Local
    <2> QED  BY <2>1, <2>2 DEF OpenFile, InodesBounded
  <1>12. CASE Tick \/ AdminDeletes \/ DirFails \/ DirRepaired \/ UNCHANGED vars
    BY <1>1, <1>12 DEF Tick, AdminDeletes, DirFails, DirRepaired, disk, vars
  <1>13. CASE Crash
    BY <1>2, <1>13 DEF Crash
  <1> QED  BY <1>3, <1>4, <1>5, <1>6, <1>7, <1>8, <1>9, <1>10, <1>11, <1>12, <1>13 DEF Next, Step

Inv == TypeOK /\ OpenFile /\ InodesBounded

LEMMA InvCorrect == Spec => []Inv
  <1>1. Init => Inv
    <2> SUFFICES ASSUME Init  PROVE  Inv
      OBVIOUS
    <2> USE SyslogdAssumption
    <2>1. PICK k \in 0..logFileRotate :
            /\ names = [n \in Names |-> IF n \in 0..(k - 1) THEN n + 1 ELSE None]
            /\ inodes = [j \in 1..k |-> Older(logFileSize + 1)]
            /\ written = Older(k * (logFileSize + 1))
      BY DEF Init
    <2>2. ASSUME NEW n \in Nat
          PROVE  Older(n) \in Seq(0..0) /\ Len(Older(n)) = n
      <3>1. Older(n) \in [1..n -> 0..0]
        BY DEF Older
      <3> QED  BY <3>1, SeqDef DEF Older
    <2>3. logFileSize + 1 \in Nat /\ k \in Nat /\ k * (logFileSize + 1) \in Nat
      BY <2>1
    <2>4. written \in Seq(0..0)
      BY <2>1, <2>2, <2>3
    <2>5. inodes \in Seq(Seq(0..0)) /\ Len(inodes) = k /\ \A j \in 1..k : Len(inodes[j]) = logFileSize + 1
      <3>1. Older(logFileSize + 1) \in Seq(0..0) /\ Len(Older(logFileSize + 1)) = logFileSize + 1
        BY <2>2, <2>3
      <3>2. inodes \in [1..k -> Seq(0..0)]
        BY <2>1, <3>1
      <3>3. inodes \in Seq(Seq(0..0)) /\ Len(inodes) = k
        BY <2>1, <2>3, <3>2, SeqDef
      <3> QED  BY <2>1, <3>1, <3>3
    <2>6. names \in [Names -> 0..k]
      BY <2>1, <2>3
    <2>7. sent = << >> /\ Len(sent) = 0
      BY DEF Init
    <2>8. sent \in Seq(Texts \cup {Empty}) /\ queue \in Seq(1..0) /\ buf \in [1..2 -> Texts \cup {Empty}]
      BY DEF Init
    <2>9. TypeOK
      <3>1. /\ half \in 1..2 /\ msg \in 0..Len(sent) /\ i \in -1..logFileRotate
            /\ fd \in 0..Len(inodes) /\ size \in Nat /\ crashes \in 0..MaxCrashes
        BY <2>3, <2>5, <2>7 DEF Init
      <3>2. last_sz \in BOOLEAN /\ recent \in BOOLEAN /\ dir \in BOOLEAN /\ meddled \in BOOLEAN
        BY Zenon DEF Init
      <3>3. pc \in {"read", "log", "open", "check", "shift", "unlink"}
        BY DEF Init
      <3> QED  BY <2>4, <2>5, <2>6, <2>7, <2>8, <3>1, <3>2, <3>3 DEF TypeOK
    <2>10. OpenFile /\ InodesBounded
      BY <2>5 DEF OpenFile, InodesBounded, Init
    <2> QED  BY <2>9, <2>10 DEF Inv
  <1>2. Inv /\ [Next]_vars => Inv'
    BY TypesStep, OpenFileStep DEF Inv
  <1> QED  BY <1>1, <1>2, PTL DEF Spec

\* The types of do_syslogd()'s and log_locally()'s state, and of the files.
THEOREM TypeCorrect == Spec => []TypeOK
  <1>1. Inv => TypeOK
    BY DEF Inv
  <1> QED  BY <1>1, InvCorrect, PTL

\* log_locally(): no file outgrows -s by more than one message, for any -s and
\* -b, whatever crashes, failing calls and administrators do.
THEOREM SizesBounded == Spec => []SizeBounded
  <1>1. Inv => SizeBounded
    <2> SUFFICES ASSUME Inv, NEW n \in Names, names[n] # None
                 PROVE  Len(inodes[names[n]]) <= logFileSize + 1
      BY DEF SizeBounded
    <2>1. names[n] \in 1..Len(inodes)
      <3>1. Len(inodes) \in Nat
        BY LenProperties DEF Inv, TypeOK
      <3> QED  BY <3>1 DEF Inv, TypeOK
    <2> QED  BY <2>1 DEF Inv, InodesBounded
  <1> QED  BY <1>1, InvCorrect, PTL

-----------------------------------------------------------------------------
(* The two halves of the receive buffer.                                   *)
\* How many messages have left the socket, read or lost.
Got == Len(sent) - Len(queue)

\* The socket delivers in order.
InOrder == Got \in Nat /\ \A k \in 1..Len(queue) : queue[k] = Got + k

\* recvbuf is the half that holds the last message that was not empty.
LastInHalf ==
  last_sz => \E k \in 1..Got : /\ sent[k] = buf[half] /\ sent[k] # Empty
                               /\ \A l \in (k + 1)..Got : sent[l] = Empty

LEMMA Dequeue ==
  ASSUME TypeOK, InOrder, queue # << >>, queue' = Tail(queue), sent' = sent
  PROVE  InOrder' /\ Got' = Got + 1 /\ Head(queue) = Got + 1 /\ Len(queue') = Len(queue) - 1
  <1>1. /\ queue \in Seq(1..Len(sent)) /\ Len(queue) \in Nat /\ Len(sent) \in Nat
        /\ Len(queue) # 0
    BY LenProperties, EmptySeq DEF TypeOK
  <1>2. Len(Tail(queue)) = Len(queue) - 1
    BY <1>1, HeadTailProperties
  <1>3. \A k \in 1..(Len(queue) - 1) : Tail(queue)[k] = queue[k + 1]
    BY <1>1, <1>2, HeadTailProperties
  <1>4. Head(queue) = queue[1]
    BY <1>1
  <1>5. Got' = Got + 1
    BY <1>1, <1>2 DEF Got
  <1>6. ASSUME NEW k \in 1..(Len(queue) - 1)  PROVE  queue'[k] = Got + 1 + k
    <2>1. k + 1 \in 1..Len(queue)
      BY <1>1
    <2> QED  BY <1>1, <1>3, <2>1 DEF InOrder
  <1>7. InOrder'
    BY <1>2, <1>5, <1>6 DEF InOrder
  <1> QED  BY <1>1, <1>2, <1>4, <1>5, <1>7 DEF InOrder

LEMMA ReceiveStep ==
  ASSUME TypeOK, InOrder, LastInHalf, [Next]_vars
  PROVE  InOrder' /\ LastInHalf'
  <1>1. ASSUME NEW t \in Texts \cup {Empty}, Send(t)  PROVE  InOrder' /\ LastInHalf'
    <2>1. /\ queue \in Seq(1..Len(sent)) /\ sent \in Seq(Texts \cup {Empty})
          /\ Len(queue) \in Nat /\ Len(sent) \in Nat
      BY LenProperties DEF TypeOK
    <2>2. /\ sent' = Append(sent, t) /\ queue' = Append(queue, Len(sent) + 1)
          /\ UNCHANGED <<buf, half, last_sz>>
      BY <1>1 DEF Send, recv
    <2>3. Len(sent') = Len(sent) + 1 /\ \A k \in 1..Len(sent) : sent'[k] = sent[k]
      BY <2>1, <2>2
    <2>4. /\ Len(queue') = Len(queue) + 1 /\ \A k \in 1..Len(queue) : queue'[k] = queue[k]
          /\ queue'[Len(queue) + 1] = Len(sent) + 1
      BY <2>1, <2>2
    <2>5. Got' = Got
      BY <2>1, <2>3, <2>4 DEF Got
    <2>6. InOrder'
      <3>1. ASSUME NEW k \in 1..(Len(queue) + 1)  PROVE  queue'[k] = Got + k
        <4>1. CASE k \in 1..Len(queue)
          BY <2>4, <4>1 DEF InOrder
        <4>2. CASE k = Len(queue) + 1
          BY <2>1, <2>4, <4>2 DEF Got
        <4> QED  BY <2>1, <4>1, <4>2
      <3> QED  BY <2>4, <2>5, <3>1 DEF InOrder
    <2>7. LastInHalf'
      <3>1. \A k \in 1..Got : sent'[k] = sent[k]
        BY <2>1, <2>3 DEF Got
      <3>2. SUFFICES ASSUME last_sz
            PROVE  \E k \in 1..Got : /\ sent'[k] = buf[half] /\ sent'[k] # Empty
                                     /\ \A l \in (k + 1)..Got : sent'[l] = Empty
        BY <2>2, <2>5 DEF LastInHalf
      <3>3. PICK k \in 1..Got : /\ sent[k] = buf[half] /\ sent[k] # Empty
                                /\ \A l \in (k + 1)..Got : sent[l] = Empty
        BY <3>2 DEF LastInHalf
      <3>4. \A l \in (k + 1)..Got : l \in 1..Got
        BY DEF InOrder
      <3> QED  BY <3>1, <3>3, <3>4
    <2> QED  BY <2>6, <2>7
  <1>2. CASE ReadEmpty
    <2>1. /\ queue # << >> /\ queue' = Tail(queue) /\ sent' = sent /\ sent[Head(queue)] = Empty
          /\ half' = half /\ last_sz' = last_sz /\ buf' = [buf EXCEPT ![Other(half)] = Empty]
      BY <1>2 DEF ReadEmpty, Text
    <2>2. InOrder' /\ Got' = Got + 1 /\ Head(queue) = Got + 1
      BY <2>1, Dequeue
    <2>3. buf'[half] = buf[half]
      BY <2>1 DEF TypeOK, Other
    <2>4. LastInHalf'
      <3>1. SUFFICES ASSUME last_sz
            PROVE  \E k \in 1..(Got + 1) : /\ sent[k] = buf[half] /\ sent[k] # Empty
                                           /\ \A l \in (k + 1)..(Got + 1) : sent[l] = Empty
        BY <2>1, <2>2, <2>3 DEF LastInHalf
      <3>2. PICK k \in 1..Got : /\ sent[k] = buf[half] /\ sent[k] # Empty
                                /\ \A l \in (k + 1)..Got : sent[l] = Empty
        BY <3>1 DEF LastInHalf
      <3>3. \A l \in (k + 1)..(Got + 1) : l \in (k + 1)..Got \/ l = Got + 1
        BY DEF InOrder
      <3>4. k \in 1..(Got + 1)
        BY DEF InOrder
      <3> QED  BY <2>1, <2>2, <3>2, <3>3, <3>4
    <2> QED  BY <2>2, <2>4
  <1>3. CASE Read
    <2>1. /\ queue # << >> /\ queue' = Tail(queue) /\ sent' = sent /\ sent[Head(queue)] # Empty
          /\ half' = Other(half) /\ buf' = [buf EXCEPT ![half'] = sent[Head(queue)]]
      BY <1>3 DEF Read, Text
    <2>2. InOrder' /\ Got' = Got + 1 /\ Head(queue) = Got + 1
      BY <2>1, Dequeue
    <2>3. buf'[half'] = sent[Got + 1]
      BY <2>1, <2>2 DEF TypeOK, Other
    <2>4. Got + 1 \in 1..(Got + 1) /\ \A l \in (Got + 1 + 1)..(Got + 1) : FALSE
      BY DEF InOrder
    <2>5. LastInHalf'
      BY <2>1, <2>2, <2>3, <2>4 DEF LastInHalf
    <2> QED  BY <2>2, <2>5
  <1>4. CASE Crash
    <2>1. queue' = << >> /\ sent' = sent /\ last_sz' = FALSE
      BY <1>4 DEF Crash
    <2>2. Len(queue') = 0 /\ Len(sent) \in Nat
      BY <2>1, LenProperties DEF TypeOK
    <2> QED  BY <2>1, <2>2 DEF InOrder, LastInHalf, Got
  <1>5. CASE UNCHANGED <<net, recv>>
    BY <1>5 DEF net, recv, InOrder, LastInHalf, Got
  <1> QED  BY <1>1, <1>2, <1>3, <1>4, <1>5
           DEF Next, Step, Log, Open, OpenFails, Rotate, Shift, Unlink, Write, Local,
               Tick, AdminDeletes, DirFails, DirRepaired, vars

\* do_syslogd(): -D drops only what repeats the message before it.
THEOREM DropsAreRepeats == Spec => DropsOnlyRepeats
  <1> DEFINE All == TypeOK /\ InOrder /\ LastInHalf
             m == Head(queue)
             Drop == pc = "read" /\ Len(queue') < Len(queue) /\ pc' = "read" /\ crashes' = crashes
             Repeat == \/ Text(m) = Empty
                       \/ \E k \in Previous(m) : /\ \A l \in Previous(m) : l <= k
                                                 /\ Text(k) = Text(m)
  <1>1. Init => InOrder /\ LastInHalf
    <2>1. Init => Got = 0 /\ Len(queue) = 0 /\ ~last_sz
      BY DEF Init, Got
    <2> QED  BY <2>1 DEF InOrder, LastInHalf
  <1>2. TypeOK /\ InOrder /\ LastInHalf /\ [Next]_vars => InOrder' /\ LastInHalf'
    BY ReceiveStep
  <1>3. All /\ [Next]_vars => [Drop => Repeat]_vars
    <2> SUFFICES ASSUME All, [Next]_vars, Drop  PROVE  Repeat
      OBVIOUS
    <2>1. Len(queue) \in Nat /\ queue \in Seq(1..Len(sent))
      BY LenProperties DEF TypeOK
    <2>2. ReadEmpty \/ Read
      <3>1. ~Crash
        BY DEF Crash, TypeOK
      <3>2. ASSUME NEW t \in Texts \cup {Empty}, Send(t)  PROVE  FALSE
        <4>1. queue' = Append(queue, Len(sent) + 1) /\ Len(queue') = Len(queue) + 1
          BY <2>1, <3>2 DEF Send
        <4> QED  BY <2>1, <4>1
      <3>3. queue' # queue
        BY <2>1
      <3> QED  BY <3>1, <3>2, <3>3
               DEF Next, Step, Log, Open, OpenFails, Rotate, Shift, Unlink, Write, Local,
                   Tick, AdminDeletes, DirFails, DirRepaired, vars, net
    <2>3. CASE ReadEmpty
      BY <2>3 DEF ReadEmpty
    <2>4. CASE Read
      <3>1. Text(m) # Empty /\ Repeated(Text(m)) /\ queue # << >> /\ queue' = Tail(queue) /\ sent' = sent
        BY <2>4 DEF Read
      <3>2. m = Got + 1
        BY <3>1, Dequeue
      <3>3. PICK k \in 1..Got : /\ sent[k] = buf[half] /\ sent[k] # Empty
                                /\ \A l \in (k + 1)..Got : sent[l] = Empty
        BY <3>1 DEF LastInHalf, Repeated
      <3>4. 1..(m - 1) = 1..Got
        BY <3>2 DEF InOrder
      <3>5. k \in Previous(m) /\ Text(k) = Text(m)
        BY <3>1, <3>3, <3>4 DEF Previous, Text, Repeated
      <3>6. ASSUME NEW l \in Previous(m)  PROVE  l <= k
        <4>1. l \in 1..Got /\ sent[l] # Empty
          BY <3>4, <3>6 DEF Previous, Text
        <4> QED  BY <3>3, <4>1 DEF InOrder
      <3> QED  BY <3>5, <3>6
    <2> QED  BY <2>2, <2>3, <2>4
  <1> QED  BY <1>1, <1>2, <1>3, TypeCorrect, PTL DEF Spec, DropsOnlyRepeats

-----------------------------------------------------------------------------
(* What Joined computes.  The library's induction theorems are about       *)
(* predicates; here induction is needed for sets.                          *)
LEMMA Least ==
  ASSUME NEW T \in SUBSET Nat, T # {}
  PROVE  \E x \in T : \A y \in T : x <= y
  <1> DEFINE R == {ss \in Nat \X Nat : ss[1] < ss[2]}
  <1>1. IsWellFoundedOn(R, Nat)
    BY NatLessThanWellFounded DEF OpToRel
  <1> HIDE DEF R
  <1>2. PICK x \in T : \A y \in T : ~(<<y, x>> \in R)
    BY <1>1, WFMin
  <1>3. ASSUME NEW y \in T  PROVE  x <= y
    <2>1. x \in Nat /\ y \in Nat
      OBVIOUS
    <2>2. ~(y < x)
      BY <1>2, <2>1 DEF R
    <2> QED  BY <2>1, <2>2
  <1> QED  BY <1>3

LEMMA Induction ==
  ASSUME NEW S \in SUBSET Nat, 0 \in S, \A n \in S : n + 1 \in S
  PROVE  \A n \in Nat : n \in S
  <1> SUFFICES ASSUME Nat \ S # {}  PROVE  FALSE
    OBVIOUS
  <1>1. PICK x \in Nat \ S : \A y \in Nat \ S : x <= y
    BY Least
  <1>2. x \in Nat /\ x # 0 /\ x - 1 \in Nat /\ ~(x <= x - 1)
    OBVIOUS
  <1>3. x - 1 \in S
    BY <1>1, <1>2
  <1> QED  BY <1>2, <1>3

\* Joined is defined by its recursion.
LEMMA JoinedDef ==
  ASSUME NEW S, NEW f \in [Names -> Seq(S)]
  PROVE  /\ Joined(f) \in [Names -> Seq(S)]
         /\ Joined(f)[F] = f[F]
         /\ \A k \in Names : k # F => Joined(f)[k] = f[k] \o Joined(f)[k - 1]
  <1> DEFINE Upto(n) == F..(n - 1)
             Rec(n, g) == [k \in Upto(n) |-> IF k = F THEN f[k] ELSE f[k] \o g[k - 1]]
             Has(n) == \E g \in [Upto(n) -> Seq(S)] : g = Rec(n, g)
             Good == {n \in Nat : n <= logFileRotate => Has(n)}
  <1> USE SyslogdAssumption
  <1>1. 0 \in Good
    <2> DEFINE g == [k \in Upto(0) |-> f[F]]
    <2>1. Upto(0) = {F} /\ f[F] \in Seq(S)
      BY DEF Names
    <2>2. g \in [Upto(0) -> Seq(S)] /\ g = Rec(0, g)
      BY <2>1
    <2> QED  BY <2>2
  <1>2. ASSUME NEW n \in Good  PROVE  n + 1 \in Good
    <2> HIDE DEF Has
    <2> SUFFICES ASSUME n + 1 <= logFileRotate  PROVE  Has(n + 1)
      OBVIOUS
    <2>1. n \in Nat /\ n <= logFileRotate /\ Has(n)
      OBVIOUS
    <2> USE DEF Has
    <2>2. PICK g \in [Upto(n) -> Seq(S)] : g = Rec(n, g)
      BY <2>1
    <2> DEFINE h == [k \in Upto(n + 1) |-> IF k = n THEN f[n] \o g[n - 1] ELSE g[k]]
    <2>3. n \in Names /\ n # F /\ n - 1 \in Upto(n) /\ n + 1 - 1 = n
      BY <2>1 DEF Names
    <2>4. f[n] \o g[n - 1] \in Seq(S)
      BY <2>2, <2>3, ConcatProperties
    <2>5. \A k \in Upto(n + 1) : k = n \/ k \in Upto(n)
      BY <2>1
    <2>6. h \in [Upto(n + 1) -> Seq(S)]
      BY <2>2, <2>4, <2>5
    <2>7. ASSUME NEW k \in Upto(n + 1)
          PROVE  h[k] = IF k = F THEN f[k] ELSE f[k] \o h[k - 1]
      <3>1. CASE k = n
        <4>1. h[k] = f[n] \o g[n - 1]
          BY <3>1
        <4>2. n - 1 \in Upto(n + 1) /\ n - 1 # n /\ h[n - 1] = g[n - 1]
          BY <2>1
        <4> QED  BY <2>3, <3>1, <4>1, <4>2
      <3>2. CASE k # n
        <4>1. k \in Upto(n) /\ h[k] = g[k]
          BY <2>5, <3>2
        <4>2. g[k] = IF k = F THEN f[k] ELSE f[k] \o g[k - 1]
          <5>1. g[k] = Rec(n, g)[k]
            BY <2>2
          <5> QED  BY <4>1, <5>1
        <4>3. k # F => k - 1 \in Upto(n + 1) /\ k - 1 # n /\ h[k - 1] = g[k - 1]
          BY <2>1, <4>1
        <4> QED  BY <4>1, <4>2, <4>3
      <3> QED  BY <3>1, <3>2
    <2>8. h = Rec(n + 1, h)
      BY <2>7
    <2> QED  BY <2>6, <2>8
  <1>3. Has(logFileRotate)
    <2> HIDE DEF Has
    <2>1. Good \in SUBSET Nat
      OBVIOUS
    <2>2. logFileRotate \in Good
      <3> HIDE DEF Good
      <3> QED  BY <1>1, <1>2, <2>1, Induction
    <2> QED  BY <2>2
  <1>4. \E g : g = [k \in Names |-> IF k = F THEN f[k] ELSE f[k] \o g[k - 1]]
    <2>1. Upto(logFileRotate) = Names
      BY DEF Names
    <2> HIDE DEF Upto
    <2> QED  BY <1>3, <2>1
  <1> DEFINE J == CHOOSE g : g = [k \in Names |-> IF k = F THEN f[k] ELSE f[k] \o g[k - 1]]
  <1>5. Joined(f) = J
    BY DEF Joined
  <1>6. J = [k \in Names |-> IF k = F THEN f[k] ELSE f[k] \o J[k - 1]]
    BY <1>4
  <1> HIDE DEF J
  <1>7. J[F] = f[F] /\ \A k \in Names : k # F => J[k] = f[k] \o J[k - 1]
    <2>1. F \in Names
      BY DEF Names
    <2> QED  BY <1>6, <2>1
  <1>8. \A k \in Names : J[k] \in Seq(S)
    <2> DEFINE Fine == {n \in Nat : \A k \in Names : k + 1 = n => J[k] \in Seq(S)}
    <2>1. 0 \in Fine
      BY <1>7 DEF Names
    <2>2. ASSUME NEW n \in Fine  PROVE  n + 1 \in Fine
      <3> SUFFICES ASSUME NEW k \in Names, k + 1 = n + 1  PROVE  J[k] \in Seq(S)
        OBVIOUS
      <3>1. k # F /\ k - 1 \in Names /\ (k - 1) + 1 = n
        BY DEF Names
      <3>2. J[k - 1] \in Seq(S) /\ f[k] \in Seq(S)
        BY <3>1
      <3>3. J[k] = f[k] \o J[k - 1]
        BY <1>7, <3>1
      <3>4. f[k] \o J[k - 1] \in Seq(S)
        BY <3>2, ConcatProperties
      <3> QED  BY <3>3, <3>4
    <2>3. Fine \in SUBSET Nat
      OBVIOUS
    <2>4. ASSUME NEW k \in Names  PROVE  J[k] \in Seq(S)
      <3>1. k + 1 \in Nat
        BY DEF Names
      <3>2. k + 1 \in Fine
        <4> HIDE DEF Fine
        <4> QED  BY <2>1, <2>2, <2>3, <3>1, Induction
      <3> QED  BY <3>2
    <2> QED  BY <2>4
  <1> QED  BY <1>5, <1>6, <1>7, <1>8

\* v is u with t at its end.
Extends(u, v, t) == v = u \o t

\* What is appended at a shows at the end, if nothing else is different above a.
LEMMA JoinedAppend ==
  ASSUME NEW S, NEW f \in [Names -> Seq(S)], NEW g \in [Names -> Seq(S)],
         NEW a \in Names, NEW t \in Seq(S), Extends(Joined(f)[a], Joined(g)[a], t),
         NEW b \in Names, b >= a, \A k \in (a + 1)..b : g[k] = f[k]
  PROVE  Extends(Joined(f)[b], Joined(g)[b], t)
  <1> DEFINE U == Joined(f)
             V == Joined(g)
             Good == {n \in Nat : \A k \in a..b : k = a + n => V[k] = U[k] \o t}
  <1>1. a \in Int /\ b \in Int /\ a >= F /\ a..b \subseteq Names
    BY SyslogdAssumption DEF Names
  <1>2. /\ U \in [Names -> Seq(S)] /\ \A k \in Names : k # F => U[k] = f[k] \o U[k - 1]
        /\ V \in [Names -> Seq(S)] /\ \A k \in Names : k # F => V[k] = g[k] \o V[k - 1]
    BY JoinedDef
  <1> HIDE DEF U, V
  <1>3. 0 \in Good
    BY <1>1 DEF U, V, Extends
  <1>4. ASSUME NEW n \in Good  PROVE  n + 1 \in Good
    <2> SUFFICES ASSUME NEW k \in a..b, k = a + (n + 1)  PROVE  V[k] = U[k] \o t
      OBVIOUS
    <2>1. k \in Names /\ k # F /\ k \in (a + 1)..b /\ k - 1 \in a..b /\ k - 1 \in Names /\ k - 1 = a + n
      BY <1>1
    <2>2. V[k - 1] = U[k - 1] \o t
      BY <2>1
    <2>3. V[k] = f[k] \o (U[k - 1] \o t) /\ U[k] = f[k] \o U[k - 1]
      BY <1>2, <2>1, <2>2
    <2>4. f[k] \in Seq(S) /\ U[k - 1] \in Seq(S)
      BY <1>2, <2>1
    <2>5. (f[k] \o U[k - 1]) \o t = f[k] \o (U[k - 1] \o t)
      <3> DEFINE y == U[k - 1]
                 x == f[k]
      <3>1. x \in Seq(S) /\ y \in Seq(S) /\ t \in Seq(S)
        BY <2>4
      <3> HIDE DEF Good, x, y
      <3>2. (x \o y) \o t = x \o (y \o t)
        BY <3>1, SMTT(30)
      <3> QED  BY <3>2 DEF x, y
    <2> QED  BY <2>3, <2>5
  <1>5. Good \in SUBSET Nat
    OBVIOUS
  <1>6. b - a \in Nat /\ b \in a..b /\ b = a + (b - a)
    BY <1>1
  <1>7. b - a \in Good
    <2> HIDE DEF Good
    <2> QED  BY <1>3, <1>4, <1>5, <1>6, Induction
  <1> QED  BY <1>6, <1>7 DEF U, V, Extends

\* Files whose concatenation up to a is equal, and that are equal above it.
LEMMA JoinedSame ==
  ASSUME NEW S, NEW f \in [Names -> Seq(S)], NEW g \in [Names -> Seq(S)],
         NEW a \in Names, Joined(g)[a] = Joined(f)[a],
         NEW b \in Names, b >= a, \A k \in (a + 1)..b : g[k] = f[k]
  PROVE  Joined(g)[b] = Joined(f)[b]
  <1>1. Joined(f) \in [Names -> Seq(S)]
    BY JoinedDef
  <1>2. << >> \in Seq(S)
    BY EmptySeq
  <1>3. \A k \in Names : Joined(f)[k] \o << >> = Joined(f)[k]
    BY <1>1, ConcatEmptySeq
  <1>4. Extends(Joined(f)[a], Joined(g)[a], << >>)
    BY <1>3 DEF Extends
  <1>5. Extends(Joined(f)[b], Joined(g)[b], << >>)
    BY <1>2, <1>4, JoinedAppend
  <1> QED  BY <1>3, <1>5 DEF Extends

LEMMA JoinedEqual ==
  ASSUME NEW S, NEW f \in [Names -> Seq(S)], NEW g \in [Names -> Seq(S)],
         NEW b \in Names, \A k \in F..b : g[k] = f[k]
  PROVE  Joined(g)[b] = Joined(f)[b]
  <1>1. F \in Names /\ b >= F /\ F \in F..b /\ \A k \in (F + 1)..b : k \in F..b
    BY SyslogdAssumption DEF Names
  <1>2. Joined(g)[F] = g[F] /\ Joined(f)[F] = f[F]
    BY JoinedDef
  <1>3. Joined(g)[F] = Joined(f)[F]
    BY <1>1, <1>2
  <1> QED  BY <1>1, <1>3, JoinedSame

\* A newest file that is empty, or several.
LEMMA JoinedEmpty ==
  ASSUME NEW S, NEW f \in [Names -> Seq(S)],
         NEW b \in Names, \A k \in F..b : f[k] = << >>
  PROVE  Joined(f)[b] = << >>
  <1> DEFINE U == Joined(f)
             Good == {n \in Nat : \A k \in F..b : k = F + n => U[k] = << >>}
  <1>1. b \in Int /\ F \in F..b /\ F..b \subseteq Names
    BY SyslogdAssumption DEF Names
  <1>2. U[F] = f[F] /\ \A k \in Names : k # F => U[k] = f[k] \o U[k - 1]
    BY JoinedDef
  <1> HIDE DEF U
  <1>3. 0 \in Good
    BY <1>1, <1>2
  <1>4. ASSUME NEW n \in Good  PROVE  n + 1 \in Good
    <2> SUFFICES ASSUME NEW k \in F..b, k = F + (n + 1)  PROVE  U[k] = << >>
      OBVIOUS
    <2>1. k \in Names /\ k # F /\ k - 1 \in F..b /\ k - 1 = F + n
      BY <1>1
    <2>2. U[k - 1] = << >> /\ f[k] = << >>
      BY <2>1
    <2>3. << >> \in Seq(S) /\ << >> \o << >> = << >>
      BY EmptySeq, ConcatEmptySeq
    <2> QED  BY <1>2, <2>1, <2>2, <2>3
  <1>5. Good \in SUBSET Nat
    OBVIOUS
  <1>6. b + 1 \in Nat /\ b \in F..b /\ b = F + (b + 1)
    BY <1>1
  <1>7. b + 1 \in Good
    <2> HIDE DEF Good
    <2> QED  BY <1>3, <1>4, <1>5, <1>6, Induction
  <1> QED  BY <1>6, <1>7 DEF U

\* A file that moves up by one name, and leaves nothing behind.
LEMMA JoinedShift ==
  ASSUME NEW S, NEW f \in [Names -> Seq(S)], NEW g \in [Names -> Seq(S)],
         NEW p \in Names, p # F, g[p] = f[p - 1], g[p - 1] = << >>,
         \A k \in F..(p - 2) : g[k] = f[k]
  PROVE  Joined(g)[p] = Joined(f)[p - 1]
  <1> DEFINE U == Joined(f)
             V == Joined(g)
  <1>1. /\ U \in [Names -> Seq(S)] /\ U[F] = f[F] /\ \A k \in Names : k # F => U[k] = f[k] \o U[k - 1]
        /\ V \in [Names -> Seq(S)] /\ V[F] = g[F] /\ \A k \in Names : k # F => V[k] = g[k] \o V[k - 1]
    BY JoinedDef
  <1> HIDE DEF U, V
  <1>2. p - 1 \in Names
    BY SyslogdAssumption DEF Names
  <1>3. CASE p - 1 = F
    <2>1. V[p - 1] = << >> /\ U[p - 1] = f[p - 1]
      BY <1>1, <1>3
    <2>2. V[p] = f[p - 1] \o << >>
      BY <1>1, <2>1
    <2>3. f[p - 1] \o << >> = f[p - 1]
      BY <1>2, ConcatEmptySeq
    <2> QED  BY <2>1, <2>2, <2>3 DEF U, V
  <1>4. CASE p - 1 # F
    <2>1. p - 2 \in Names /\ p - 1 - 1 = p - 2
      BY <1>4, SyslogdAssumption DEF Names
    <2>2. V[p - 2] = U[p - 2]
      BY <2>1, JoinedEqual, ZenonT(40) DEF U, V
    <2>3. V[p - 1] = << >> \o U[p - 2]
      BY <1>1, <1>2, <1>4, <2>1, <2>2
    <2>4. << >> \o U[p - 2] = U[p - 2]
      BY <1>1, <2>1, ConcatEmptySeq
    <2> QED  BY <1>1, <1>2, <1>4, <2>1, <2>3, <2>4, ZenonT(40) DEF U, V
  <1> QED  BY <1>3, <1>4

-----------------------------------------------------------------------------
(* The files as a sequence of messages.                                    *)
LEMMA ConcatSecond ==
  ASSUME NEW S, NEW s \in Seq(S), NEW t \in Seq(S), NEW j \in 1..Len(t)
  PROVE  (s \o t)[Len(s) + j] = t[j]
  <1>1. Len(s) \in Nat /\ Len(t) \in Nat
    BY LenProperties
  <1>2. Len(s) + j \in 1..(Len(s) + Len(t)) /\ ~(Len(s) + j <= Len(s)) /\ Len(s) + j - Len(s) = j
    BY <1>1
  <1> QED  BY <1>1, <1>2

\* r is the end of w.
IsSuffix(r, w) == \E k \in 0..Len(w) : r = SubSeq(w, k + 1, Len(w))

LEMMA SuffixOfSuffix ==
  ASSUME NEW S, NEW s \in Seq(S), NEW t \in Seq(S), NEW w \in Seq(S), NEW r,
         Extends(s, r, t), IsSuffix(r, w)
  PROVE  IsSuffix(t, w)
  <1>0. PICK k \in 0..Len(w) : s \o t = SubSeq(w, k + 1, Len(w))
    BY DEF IsSuffix, Extends
  <1> DEFINE l == k + Len(s)
             n == Len(w)
  <1>1. n \in Nat /\ Len(s) \in Nat /\ Len(t) \in Nat /\ k \in Nat /\ k <= n
    BY LenProperties
  <1>2. \A j \in 1..n : w[j] \in S
    BY ElementOfSeq
  <1>3. /\ Len(SubSeq(w, k + 1, n)) = n - k
        /\ \A j \in 1..(n - k) : SubSeq(w, k + 1, n)[j] = w[k + j]
    BY <1>1, <1>2
  <1>4. Len(s) + Len(t) = n - k /\ \A j \in 1..Len(t) : (s \o t)[Len(s) + j] = t[j]
    <2>1. Len(s \o t) = Len(s) + Len(t)
      BY ConcatProperties
    <2>2. ASSUME NEW j \in 1..Len(t)  PROVE  (s \o t)[Len(s) + j] = t[j]
      BY ConcatSecond
    <2> QED  BY <1>0, <1>3, <2>1, <2>2
  <1>5. l \in 0..n /\ n - l = Len(t)
    BY <1>1, <1>4
  <1>6. /\ SubSeq(w, l + 1, n) \in Seq(S) /\ Len(SubSeq(w, l + 1, n)) = n - l
        /\ \A j \in 1..(n - l) : SubSeq(w, l + 1, n)[j] = w[l + j]
    <2> HIDE DEF l, n
    <2> QED  BY <1>1, <1>2, <1>5
  <1>7. ASSUME NEW j \in 1..Len(t)  PROVE  t[j] = SubSeq(w, l + 1, n)[j]
    <2>1. Len(s) + j \in 1..(n - k) /\ k + (Len(s) + j) = l + j
      BY <1>1, <1>4
    <2>2. t[j] = w[k + (Len(s) + j)]
      BY <1>0, <1>3, <1>4, <2>1
    <2> QED  BY <1>5, <1>6, <2>1, <2>2
  <1> HIDE DEF l
  <1>8. t = SubSeq(w, l + 1, n)
    BY <1>5, <1>6, <1>7, SeqEqual
  <1> QED  BY <1>5, <1>8 DEF IsSuffix

LEMMA SuffixAppend ==
  ASSUME NEW S, NEW w \in Seq(S), NEW m \in S, NEW r, IsSuffix(r, w), NEW x, Extends(r, x, <<m>>)
  PROVE  IsSuffix(x, Append(w, m))
  <1>0. PICK k \in 0..Len(w) : r = SubSeq(w, k + 1, Len(w))
    BY DEF IsSuffix
  <1> DEFINE n == Len(w)
             u == SubSeq(w, k + 1, n)
             v == SubSeq(Append(w, m), k + 1, n + 1)
  <1>1. n \in Nat /\ k \in Nat /\ k <= n /\ \A j \in 1..n : w[j] \in S
    BY LenProperties, ElementOfSeq
  <1>2. u \in Seq(S) /\ Len(u) = n - k /\ \A j \in 1..(n - k) : u[j] = w[k + j]
    BY <1>1
  <1>3. /\ Append(w, m) \in Seq(S) /\ Len(Append(w, m)) = n + 1 /\ Append(w, m)[n + 1] = m
        /\ \A j \in 1..n : Append(w, m)[j] = w[j]
    BY <1>1, AppendProperties
  <1>4. \A j \in 1..(n + 1) : Append(w, m)[j] \in S
    BY <1>3, ElementOfSeq
  <1>5. v \in Seq(S) /\ Len(v) = n - k + 1 /\ \A j \in 1..(n - k + 1) : v[j] = Append(w, m)[k + j]
    BY <1>1, <1>3, <1>4, SMTT(30)
  <1> HIDE DEF u, v, n
  <1>6. <<m>> \in Seq(S) /\ Len(<<m>>) = 1 /\ <<m>>[1] = m
    OBVIOUS
  <1>7. u \o <<m>> \in Seq(S) /\ Len(u \o <<m>>) = n - k + 1
    BY <1>1, <1>2, <1>6, ConcatProperties
  <1>8. ASSUME NEW j \in 1..(n - k + 1)  PROVE  (u \o <<m>>)[j] = v[j]
    <2>1. (u \o <<m>>)[j] = IF j <= n - k THEN u[j] ELSE m
      BY <1>1, <1>2, <1>6
    <2>2. CASE j <= n - k
      <3>1. j \in 1..(n - k) /\ k + j \in 1..n
        BY <1>1, <2>2
      <3> QED  BY <1>2, <1>3, <1>5, <2>1, <2>2, <3>1
    <2>3. CASE ~(j <= n - k)
      <3>1. k + j = n + 1
        BY <1>1, <2>3
      <3> QED  BY <1>3, <1>5, <2>1, <2>3, <3>1
    <2> QED  BY <2>2, <2>3
  <1>9. u \o <<m>> = v
    BY <1>5, <1>7, <1>8, SeqEqual
  <1>10. x = SubSeq(Append(w, m), k + 1, n + 1) /\ k \in 0..(n + 1)
    <2>1. r = u
      BY <1>0 DEF u, n
    <2>2. x = r \o <<m>>
      BY DEF Extends
    <2>3. x = v
      BY <1>9, <2>1, <2>2
    <2>4. k \in 0..(n + 1)
      BY <1>1
    <2> QED  BY <2>3, <2>4 DEF v
  <1> QED  BY <1>3, <1>10 DEF IsSuffix

-----------------------------------------------------------------------------
(* The rotation loop.                                                      *)
\* The names of one inode follow each other, with holes at most.
Adjacent ==
  \A a, b, c \in Names :
    a < b /\ b < c /\ names[a] = names[c] /\ names[a] # None => names[b] \in {None, names[a]}

\* As long as nobody meddles: the name that a rename replaces is free, or a
\* second name of the file before it, unless it is the last; so is F when it is
\* unlinked; and the open file is F.
Rotation ==
  ~meddled =>
    /\ dir /\ Adjacent
    /\ pc = "shift" /\ i < logFileRotate - 1 => names[i] \in {None, names[i + 1]}
    /\ pc = "unlink" /\ logFileRotate > 0 => names[F] \in {None, names[0]}
    /\ fd # None /\ pc \notin {"shift", "unlink"} => names[F] = fd

Files == [k \in Names |-> File(k)]

\* The file has an older name, under which it counts.
Twin(k) == \E j \in Names : j > k /\ names[j] = names[k]

LEMMA FileCases ==
  ASSUME NEW k \in Names
  PROVE  /\ names[k] = None \/ Twin(k) => Files[k] = << >>
         /\ names[k] # None /\ ~Twin(k) => Files[k] = inodes[names[k]]
  BY DEF Files, File, Twin

LEMMA FilesType ==
  ASSUME TypeOK
  PROVE  Files \in [Names -> Content]
  <1>1. << >> \in Content
    BY EmptySeq DEF Content
  <1>2. inodes \in Seq(Content) /\ Len(inodes) \in Nat /\ names \in [Names -> 0..Len(inodes)]
    BY LenProperties DEF TypeOK, Content
  <1>3. ASSUME NEW k \in Names  PROVE  File(k) \in Content
    <2>1. CASE names[k] = None
      BY <1>1, <2>1 DEF File
    <2>2. CASE names[k] # None
      <3>1. names[k] \in 1..Len(inodes)
        BY <1>2, <2>2
      <3>2. inodes[names[k]] \in Content
        BY <1>2, <3>1, ElementOfSeq
      <3> QED  BY <1>1, <3>2 DEF File
    <2> QED  BY <2>1, <2>2
  <1> QED  BY <1>3 DEF Files

LEMMA KeptDef ==
  /\ Kept = Joined(Files)[logFileRotate - 1] /\ Kept' = Joined(Files')[logFileRotate - 1]
  /\ logFileRotate - 1 \in Names
  BY SyslogdAssumption DEF Kept, Files, Names

\* rename(F.(p-1), F.p), or one that is interrupted and leaves the old name too.
LEMMA FilesMoved ==
  ASSUME TypeOK, Adjacent, NEW p \in 0..(logFileRotate - 1), NEW c \in {None, names[p - 1]},
         names[p - 1] # None, names[p - 1] # names[p],
         names' = [names EXCEPT ![p] = names[p - 1], ![p - 1] = c], inodes' = inodes,
         p < logFileRotate - 1 => names[p] \in {None, names[p + 1]}
  PROVE  /\ Adjacent'
         /\ p < logFileRotate - 1 => Files[p] = << >>
         /\ Files'[p] = Files[p - 1] /\ Files'[p - 1] = << >>
         /\ \A k \in Names : k \notin {p - 1, p} => Files'[k] = Files[k]
  <1> USE SyslogdAssumption
  <1>1. p \in Names /\ p - 1 \in Names /\ p - 1 < p /\ \A k \in Names : k \in Int /\ k < logFileRotate
    BY DEF Names
  <1>2. \A k \in Names : names'[k] = IF k = p - 1 THEN c ELSE IF k = p THEN names[p - 1] ELSE names[k]
    BY <1>1 DEF TypeOK
  <1>3. p < logFileRotate - 1 => p + 1 \in Names
    BY DEF Names
  <1>4. Adjacent'
    <2> SUFFICES ASSUME NEW x \in Names, NEW y \in Names, NEW z \in Names,
                        x < y, y < z, names'[x] = names'[z], names'[x] # None
                 PROVE  names'[y] \in {None, names'[x]}
      BY DEF Adjacent
    <2>1. x \in Int /\ y \in Int /\ z \in Int /\ p \in Int
      BY <1>1
    <2> DEFINE src(k) == IF k = p THEN p - 1 ELSE k
    <2>2. ASSUME NEW k \in Names
          PROVE  src(k) \in Names /\ names'[k] \in {None, names[src(k)]}
      BY <1>1, <1>2, <2>2
    <2>3. src(x) <= src(y) /\ src(y) <= src(z)
      BY <2>1
    <2>4. src(x) \in Int /\ src(y) \in Int /\ src(z) \in Int
      BY <2>1
    <2>5. src(x) \in Names /\ src(y) \in Names /\ src(z) \in Names
      BY <2>2
    <2>6. names'[x] = names[src(x)] /\ names'[x] = names[src(z)] /\ names'[y] \in {None, names[src(y)]}
      BY <2>2
    <2> HIDE DEF src
    <2>7. CASE src(y) = src(x) \/ src(y) = src(z)
      BY <2>6, <2>7
    <2>8. CASE src(x) < src(y) /\ src(y) < src(z)
      <3>1. names[src(y)] \in {None, names[src(x)]}
        BY <2>5, <2>6, <2>8 DEF Adjacent
      <3> QED  BY <2>6, <3>1
    <2> QED  BY <2>3, <2>4, <2>7, <2>8
  <1>5. p < logFileRotate - 1 => Files[p] = << >>
    BY <1>1, <1>3, FileCases DEF Twin
  <1>0. ASSUME NEW k \in Names
        PROVE  /\ names'[k] = None \/ Twin(k)' => Files'[k] = << >>
               /\ names'[k] # None /\ ~Twin(k)' => Files'[k] = inodes[names'[k]]
    BY <1>0 DEF Files, File, Twin
  <1>6. Files'[p] = Files[p - 1]
    <2>1. names'[p] = names[p - 1] /\ names'[p] # None
      BY <1>1, <1>2
    <2>2. ASSUME Twin(p - 1)  PROVE  Twin(p)'
      <3>1. PICK j \in Names : j > p - 1 /\ names[j] = names[p - 1]
        BY <2>2 DEF Twin
      <3>2. j > p
        BY <1>1, <3>1
      <3>3. names'[j] = names[j]
        <4>1. j # p /\ j # p - 1
          BY <1>1, <3>2
        <4> QED  BY <1>2, <4>1
      <3> QED  BY <2>1, <3>1, <3>2, <3>3 DEF Twin
    <2>3. ASSUME Twin(p)'  PROVE  Twin(p - 1)
      <3>1. PICK j \in Names : j > p /\ names'[j] = names'[p]
        BY <2>3 DEF Twin
      <3>2. j # p /\ j # p - 1 /\ j > p - 1
        BY <1>1, <3>1
      <3>3. names'[j] = names[j]
        BY <1>2, <3>2
      <3> QED  BY <2>1, <3>1, <3>2, <3>3 DEF Twin
    <2> QED  BY <1>0, <1>1, <2>1, <2>2, <2>3, FileCases
  <1>7. Files'[p - 1] = << >>
    <2>1. names'[p - 1] = c /\ names'[p] = names[p - 1]
      BY <1>1, <1>2
    <2>2. c = names[p - 1] => Twin(p - 1)'
      BY <1>1, <2>1 DEF Twin
    <2> QED  BY <1>0, <1>1, <2>1, <2>2
  <1>8. ASSUME NEW k \in Names, k \notin {p - 1, p}  PROVE  Files'[k] = Files[k]
    <2>1. names'[k] = names[k]
      BY <1>2, <1>8
    <2>2. ASSUME names[k] # None  PROVE  Twin(k) <=> Twin(k)'
      <3>1. ASSUME NEW j \in Names, j > k, names'[j] = names[k]
            PROVE  \E l \in Names : l > k /\ names[l] = names[k]
        <4>1. CASE j = p
          BY <1>1, <1>2, <1>8, <3>1, <4>1
        <4>2. CASE j = p - 1
          BY <1>1, <1>2, <2>2, <3>1, <4>2
        <4>3. CASE j \notin {p - 1, p}
          BY <1>2, <3>1, <4>3
        <4> QED  BY <4>1, <4>2, <4>3
      <3>2. ASSUME NEW j \in Names, j > k, names[j] = names[k]
            PROVE  \E l \in Names : l > k /\ names'[l] = names[k]
        <4>1. CASE j \notin {p - 1, p}
          BY <1>2, <3>2, <4>1
        <4>2. CASE j = p - 1
          <5>1. k \in Int /\ p > k
            BY <1>1, <3>2, <4>2
          <5>2. p # p - 1 /\ names'[p] = names[k]
            BY <1>1, <1>2, <3>2, <4>2
          <5> QED  BY <1>1, <5>1, <5>2
        <4>3. CASE j = p
          <5>1. p < logFileRotate - 1
            <6>1. k < p - 1
              BY <1>1, <1>8, <3>2, <4>3
            <6>2. names[p - 1] \in {None, names[k]}
              <7>1. names[k] = names[p] /\ k < p - 1 /\ p - 1 < p
                BY <1>1, <3>2, <4>3, <6>1
              <7> QED  BY <1>1, <2>2, <7>1 DEF Adjacent
            <6> QED  BY <2>2, <3>2, <4>3, <6>2
          <5>2. p + 1 \in Names /\ names[p + 1] = names[k] /\ p + 1 > k /\ p + 1 \notin {p - 1, p}
            BY <1>1, <1>3, <2>2, <3>2, <4>3, <5>1
          <5>3. names'[p + 1] = names[k]
            BY <1>2, <5>2
          <5> QED  BY <5>2, <5>3
        <4> QED  BY <4>1, <4>2, <4>3
      <3> QED  BY <2>1, <3>1, <3>2 DEF Twin
    <2> QED  BY <1>0, <2>1, <2>2, FileCases
  <1> QED  BY <1>4, <1>5, <1>6, <1>7, <1>8

\* A rename keeps what the files hold, but for the oldest one.
LEMMA KeptMoved ==
  ASSUME TypeOK, Files' \in [Names -> Content], NEW p \in 0..(logFileRotate - 1),
         p < logFileRotate - 1 => Files[p] = << >>,
         Files'[p] = Files[p - 1], Files'[p - 1] = << >>,
         \A k \in Names : k \notin {p - 1, p} => Files'[k] = Files[k]
  PROVE  Kept' \in Content /\ (Kept' = Kept \/ \E u \in Content : Kept = u \o Kept')
  <1> DEFINE f == Files
             g == Files'
             S == 0..Len(sent)
             top == logFileRotate - 1
  <1>1. f \in [Names -> Seq(S)] /\ g \in [Names -> Seq(S)]
    BY FilesType DEF Content
  <1>2. p \in Names /\ p # F /\ p - 1 \in Names /\ top \in Names /\ p <= top /\ p \in Int
    BY SyslogdAssumption DEF Names
  <1>3. \A k \in F..(p - 2) : k \in Names /\ k \notin {p - 1, p}
    BY SyslogdAssumption DEF Names
  <1>4. \A k \in (p + 1)..top : k \in Names /\ k \notin {p - 1, p}
    BY SyslogdAssumption DEF Names
  <1>5. g[p] = f[p - 1] /\ g[p - 1] = << >> /\ \A k \in F..(p - 2) : g[k] = f[k]
    BY <1>3
  <1>6. \A k \in (p + 1)..top : g[k] = f[k]
    BY <1>4
  <1>7. p < top => f[p] = << >>
    OBVIOUS
  <1>8. Kept = Joined(f)[top] /\ Kept' = Joined(g)[top]
    BY KeptDef
  <1> HIDE DEF f, g, S
  <1>9. Joined(g)[p] = Joined(f)[p - 1]
    BY <1>1, <1>2, <1>5, JoinedShift
  <1>10. /\ Joined(f) \in [Names -> Seq(S)] /\ Joined(g) \in [Names -> Seq(S)]
         /\ Joined(f)[p] = f[p] \o Joined(f)[p - 1]
    BY <1>1, <1>2, JoinedDef
  <1>11. CASE p < top
    <2>1. Joined(f)[p] = Joined(f)[p - 1]
      <3>1. << >> \o Joined(f)[p - 1] = Joined(f)[p - 1]
        BY <1>2, <1>10, ConcatEmptySeq
      <3> QED  BY <1>7, <1>10, <1>11, <3>1
    <2>2. Joined(g)[p] = Joined(f)[p] /\ top >= p
      BY <1>2, <1>9, <2>1
    <2> HIDE DEF top
    <2>3. Joined(g)[top] = Joined(f)[top]
      BY <1>1, <1>2, <1>6, <2>2, JoinedSame
    <2> QED  BY <1>2, <1>8, <1>10, <2>3 DEF Content, S
  <1>12. CASE p = top
    <2> HIDE DEF top
    <2>1. Kept' = Joined(f)[p - 1] /\ Kept = f[p] \o Joined(f)[p - 1]
      BY <1>8, <1>9, <1>10, <1>12
    <2>2. f[p] \in Seq(S) /\ Joined(f)[p - 1] \in Seq(S)
      BY <1>1, <1>2, <1>10
    <2> QED  BY <2>1, <2>2 DEF Content, S
  <1>13. p < top \/ p = top
    BY <1>2, SyslogdAssumption
  <1> QED  BY <1>11, <1>12, <1>13

\* So does unlink() of a second name, and the creation of a file.
LEMMA KeptSame ==
  ASSUME Files' = Files
  PROVE  Kept' = Kept
  BY KeptDef

\* A message is written to the newest file.
LEMMA KeptWrite ==
  ASSUME TypeOK, Files' \in [Names -> Content], NEW p \in Names, msg \in 0..Len(sent),
         Files'[p] = Append(Files[p], msg),
         \A k \in Names : k # p => Files'[k] = Files[k],
         \A k \in Names : k < p => Files[k] = << >>
  PROVE  Kept' = Kept \o <<msg>>
  <1> DEFINE f == Files
             g == Files'
             S == 0..Len(sent)
             top == logFileRotate - 1
  <1>1. f \in [Names -> Seq(S)] /\ g \in [Names -> Seq(S)] /\ msg \in S /\ <<msg>> \in Seq(S)
    BY FilesType DEF Content
  <1>2. p \in Int /\ top \in Names /\ top >= p /\ p >= F /\ F \in Names
    BY SyslogdAssumption DEF Names
  <1>3. Kept = Joined(f)[top] /\ Kept' = Joined(g)[top]
    BY KeptDef
  <1>4. \A k \in (p + 1)..top : g[k] = f[k]
    BY SyslogdAssumption DEF Names
  <1>5. g[p] = f[p] \o <<msg>>
    BY <1>1, AppendIsConcat
  <1>6. \A k \in F..(p - 1) : k \in Names /\ f[k] = << >> /\ g[k] = << >>
    BY SyslogdAssumption DEF Names
  <1> HIDE DEF f, g, S
  <1>7. Joined(f)[p] = f[p] /\ Joined(g)[p] = g[p]
    <2>1. /\ Joined(f)[F] = f[F] /\ \A k \in Names : k # F => Joined(f)[k] = f[k] \o Joined(f)[k - 1]
          /\ Joined(g)[F] = g[F] /\ \A k \in Names : k # F => Joined(g)[k] = g[k] \o Joined(g)[k - 1]
      BY <1>1, JoinedDef
    <2>2. CASE p = F
      BY <2>1, <2>2
    <2>3. CASE p # F
      <3>1. p - 1 \in Names
        BY <2>3, SyslogdAssumption DEF Names
      <3>2. Joined(f)[p - 1] = << >> /\ Joined(g)[p - 1] = << >>
        BY <1>1, <1>6, <3>1, JoinedEmpty
      <3>3. f[p] \o << >> = f[p] /\ g[p] \o << >> = g[p]
        BY <1>1, ConcatEmptySeq
      <3> QED  BY <2>1, <2>3, <3>2, <3>3
    <2> QED  BY <2>2, <2>3
  <1>8. Extends(Joined(f)[p], Joined(g)[p], <<msg>>)
    BY <1>5, <1>7 DEF Extends
  <1>9. Extends(Joined(f)[top], Joined(g)[top], <<msg>>)
    <2> HIDE DEF top
    <2> QED  BY <1>1, <1>2, <1>4, <1>8, JoinedAppend
  <1> QED  BY <1>3, <1>9 DEF Extends

\* What the files hold is the end of what was written.
Latest == IsSuffix(Kept, written)

\* The files are as they were.
LEMMA SameFiles ==
  ASSUME UNCHANGED <<names, inodes>>
  PROVE  Files' = Files /\ (Adjacent => Adjacent')
  BY DEF Files, File, Adjacent

LEMMA LatestShorter ==
  ASSUME TypeOK, Latest, written' = written, Kept' \in Content,
         Kept' = Kept \/ \E u \in Content : Kept = u \o Kept'
  PROVE  Latest'
  <1>1. CASE Kept' = Kept
    BY <1>1 DEF Latest
  <1>2. CASE \E u \in Content : Kept = u \o Kept'
    <2>1. PICK u \in Content : Kept = u \o Kept'
      BY <1>2
    <2>2. Extends(u, Kept, Kept')
      BY <2>1 DEF Extends
    <2>3. IsSuffix(Kept', written)
      BY <2>2, SuffixOfSuffix DEF Latest, Content, TypeOK
    <2> QED  BY <2>3 DEF Latest
  <1> QED  BY <1>1, <1>2

\* One call of rename(), done or half done.
LEMMA MoveStep ==
  ASSUME TypeOK, Adjacent, Latest, NEW p \in 0..(logFileRotate - 1), NEW c \in {None, names[p - 1]},
         names[p - 1] # None, names[p - 1] # names[p],
         names' = [names EXCEPT ![p] = names[p - 1], ![p - 1] = c],
         UNCHANGED <<inodes, written>>,
         p < logFileRotate - 1 => names[p] \in {None, names[p + 1]}
  PROVE  Adjacent' /\ Latest'
  <1>1. /\ Adjacent'
        /\ p < logFileRotate - 1 => Files[p] = << >>
        /\ Files'[p] = Files[p - 1] /\ Files'[p - 1] = << >>
        /\ \A k \in Names : k \notin {p - 1, p} => Files'[k] = Files[k]
    BY FilesMoved
  <1>2. Files' \in [Names -> Content]
    <2>1. Files \in [Names -> Content] /\ << >> \in Content
      BY FilesType, EmptySeq DEF Content
    <2>2. p \in Names /\ p - 1 \in Names
      BY SyslogdAssumption DEF Names
    <2>3. \A k \in Names : Files'[k] \in Content
      BY <1>1, <2>1, <2>2
    <2> QED  BY <2>3 DEF Files
  <1>3. Kept' \in Content /\ (Kept' = Kept \/ \E u \in Content : Kept = u \o Kept')
    BY <1>1, <1>2, KeptMoved
  <1> QED  BY <1>1, <1>3, LatestShorter

LEMMA WriteStep ==
  ASSUME TypeOK, OpenFile, Adjacent, Latest, names[F] = fd,
         pc = "check", inodes' = [inodes EXCEPT ![fd] = Append(@, msg)],
         written' = Append(written, msg), names' = names
  PROVE  Latest'
  <1>1. /\ inodes \in Seq(Content) /\ Len(inodes) \in Nat /\ msg \in 0..Len(sent)
        /\ names \in [Names -> 0..Len(inodes)] /\ fd \in 1..Len(inodes)
        /\ written \in Seq(0..Len(sent)) /\ F \in Names
    <2>1. inodes \in Seq(Content) /\ msg \in 0..Len(sent) /\ written \in Seq(0..Len(sent))
          /\ names \in [Names -> 0..Len(inodes)] /\ fd \in 0..Len(inodes)
      BY DEF TypeOK, Content
    <2>2. Len(inodes) \in Nat
      BY <2>1, LenProperties
    <2>3. fd \in 1..Len(inodes)
      BY <2>1, <2>2 DEF OpenFile
    <2>4. F \in Names
      BY SyslogdAssumption DEF Names
    <2> QED  BY <2>1, <2>2, <2>3, <2>4
  <1>2. \A j \in 1..Len(inodes) : inodes'[j] = IF j = fd THEN Append(inodes[fd], msg) ELSE inodes[j]
    BY <1>1
  <1> DEFINE top == logFileRotate - 1
             T == {n \in Nat : top - n \in Names /\ names[top - n] = fd}
  <1>3. \E p \in Names : names[p] = fd /\ \A k \in Names : names[k] = fd => k <= p
    <2>1. logFileRotate \in T
      BY <1>1, SyslogdAssumption
    <2>2. T \in SUBSET Nat
      OBVIOUS
    <2>3. PICK n \in T : \A m \in T : n <= m
      <3> HIDE DEF T
      <3> QED  BY <2>1, <2>2, Least
    <2>4. ASSUME NEW k \in Names, names[k] = fd  PROVE  k <= top - n
      <3>1. top - k \in Nat /\ top - (top - k) = k
        BY SyslogdAssumption DEF Names
      <3>2. top - k \in T
        BY <2>4, <3>1
      <3>3. n <= top - k
        BY <2>3, <3>2
      <3> QED  BY <3>1, <3>3, SyslogdAssumption DEF Names
    <2> QED  BY <2>3, <2>4
  <1>4. PICK p \in Names : names[p] = fd /\ \A k \in Names : names[k] = fd => k <= p
    BY <1>3
  <1>5. \A k \in Names : k \in Int
    BY SyslogdAssumption DEF Names
  <1>6. ASSUME NEW k \in Names  PROVE  Twin(k)' <=> Twin(k)
    BY DEF Twin
  <1>7. ASSUME NEW k \in Names
        PROVE  /\ names[k] = None \/ Twin(k)' => Files'[k] = << >>
               /\ names[k] # None /\ ~Twin(k)' => Files'[k] = inodes'[names[k]]
    BY <1>7 DEF Files, File, Twin
  <1>8. ~Twin(p) /\ fd # None
    BY <1>1, <1>4, <1>5 DEF Twin
  <1>9. Files'[p] = Append(Files[p], msg)
    <2>1. Files[p] = inodes[fd] /\ Files'[p] = inodes'[fd]
      BY <1>4, <1>6, <1>7, <1>8, FileCases
    <2> QED  BY <1>1, <1>2, <2>1
  <1>10. ASSUME NEW k \in Names, k # p  PROVE  Files'[k] = Files[k]
    <2>1. CASE names[k] = fd
      <3>1. Twin(k)
        BY <1>4, <1>5, <1>10, <2>1 DEF Twin
      <3> QED  BY <1>6, <1>7, <3>1, FileCases
    <2>2. CASE names[k] # fd
      <3>1. names[k] # None => names[k] \in 1..Len(inodes) /\ inodes'[names[k]] = inodes[names[k]]
        BY <1>1, <1>2, <2>2
      <3> QED  BY <1>6, <1>7, <3>1, FileCases
    <2> QED  BY <2>1, <2>2
  <1>11. ASSUME NEW k \in Names, k < p  PROVE  Files[k] = << >>
    <2>1. names[k] \in {None, fd}
      <3>1. CASE k = F
        BY <3>1
      <3>2. CASE k # F
        <4>1. F < k
          BY <3>2, SyslogdAssumption DEF Names
        <4> QED  BY <1>1, <1>4, <1>8, <1>11, <4>1 DEF Adjacent
      <3> QED  BY <3>1, <3>2
    <2>2. names[k] = fd => Twin(k)
      BY <1>4, <1>11 DEF Twin
    <2> QED  BY <2>1, <2>2, FileCases
  <1>12. Files' \in [Names -> Content]
    <2>1. Files \in [Names -> Content]
      BY FilesType
    <2>2. Append(Files[p], msg) \in Content
      BY <1>1, <2>1, AppendProperties DEF Content
    <2>3. \A k \in Names : Files'[k] \in Content
      BY <1>9, <1>10, <2>1, <2>2
    <2> QED  BY <2>3 DEF Files
  <1>13. Kept' = Kept \o <<msg>>
    BY <1>1, <1>9, <1>10, <1>11, <1>12, KeptWrite
  <1>14. Extends(Kept, Kept', <<msg>>)
    BY <1>13 DEF Extends
  <1>15. IsSuffix(Kept', Append(written, msg))
    BY <1>1, <1>14, SuffixAppend DEF Latest
  <1> QED  BY <1>15 DEF Latest

\* Every other step that does not change what the names stand for.
LEMMA QuietStep ==
  ASSUME UNCHANGED <<names, inodes, written>>
  PROVE  (Adjacent => Adjacent') /\ (Latest => Latest')
  <1>1. Files' = Files /\ (Adjacent => Adjacent')
    BY SameFiles
  <1>2. Kept' = Kept
    BY <1>1, KeptSame
  <1> QED  BY <1>1, <1>2 DEF Latest

\* Removing F where it is a second name, or has none.
LEMMA UnlinkStep ==
  ASSUME TypeOK, Adjacent, Latest, names' = [names EXCEPT ![F] = None],
         UNCHANGED <<inodes, written>>,
         logFileRotate > 0 => names[F] \in {None, names[0]}
  PROVE  Adjacent' /\ Latest'
  <1> USE SyslogdAssumption
  <1>1. /\ F \in Names /\ \A k \in Names : k \in Int /\ k >= F
        /\ \A k \in Names : names'[k] = IF k = F THEN None ELSE names[k]
    BY DEF Names, TypeOK
  <1>2. Adjacent'
    BY <1>1 DEF Adjacent
  <1>3. ASSUME NEW k \in Names
        PROVE  /\ names'[k] = None \/ Twin(k)' => Files'[k] = << >>
               /\ names'[k] # None /\ ~Twin(k)' => Files'[k] = inodes[names'[k]]
    BY <1>3 DEF Files, File, Twin
  <1>4. CASE logFileRotate > 0
    <2>1. ASSUME NEW k \in Names  PROVE  Files'[k] = Files[k]
      <3>1. CASE k = F
        <4>1. 0 \in Names /\ 0 > F
          BY <1>4 DEF Names
        <4>2. names[F] = None \/ Twin(F)
          BY <1>4, <4>1 DEF Twin
        <4> QED  BY <1>1, <1>3, <3>1, <4>2, FileCases
      <3>2. CASE k # F
        <4>1. names'[k] = names[k]
          BY <1>1, <3>2
        <4>2. \A j \in Names : j > k => names'[j] = names[j]
          BY <1>1
        <4>3. Twin(k)' <=> Twin(k)
          BY <4>1, <4>2 DEF Twin
        <4> QED  BY <1>3, <4>1, <4>3, FileCases
      <3> QED  BY <3>1, <3>2
    <2>2. Files' = Files
      BY <2>1 DEF Files
    <2> QED  BY <1>2, <2>2, KeptSame DEF Latest
  <1>5. CASE logFileRotate = 0
    <2>1. Kept' = Joined(Files')[F]
      BY <1>5, KeptDef
    <2>2. Names = {F}
      BY <1>5 DEF Names
    <2>3. Files'[F] = << >>
      BY <1>1, <1>3
    <2>4. Files' \in [Names -> Content]
      <3>1. << >> \in Content
        BY EmptySeq DEF Content
      <3> QED  BY <2>2, <2>3, <3>1 DEF Files
    <2>5. Kept' = << >>
      <3>1. Joined(Files')[F] = Files'[F]
        BY <2>4, JoinedDef DEF Content
      <3> QED  BY <2>1, <2>3, <3>1
    <2>6. Len(written) \in Nat /\ written \in Seq(0..Len(sent))
      BY LenProperties DEF TypeOK
    <2>7. SubSeq(written, Len(written) + 1, Len(written)) = << >>
      BY <2>6, SubSeqEmpty
    <2>8. Len(written) \in 0..Len(written)
      BY <2>6
    <2>9. IsSuffix(Kept', written)
      BY <2>5, <2>7, <2>8 DEF IsSuffix
    <2> QED  BY <1>2, <2>9 DEF Latest
  <1> QED  BY <1>4, <1>5

\* A new and empty F.
LEMMA CreateStep ==
  ASSUME TypeOK, Adjacent, Latest, names[F] = None, inodes' = Append(inodes, << >>),
         names' = [names EXCEPT ![F] = Len(inodes')], written' = written
  PROVE  Adjacent' /\ Latest'
  <1> USE SyslogdAssumption
  <1>1. /\ F \in Names /\ Len(inodes) \in Nat /\ inodes \in Seq(Content) /\ << >> \in Content
        /\ names \in [Names -> 0..Len(inodes)] /\ \A k \in Names : k \in Int /\ k >= F
    BY LenProperties, EmptySeq DEF Names, TypeOK, Content
  <1>2. /\ Len(inodes') = Len(inodes) + 1 /\ inodes'[Len(inodes) + 1] = << >>
        /\ \A j \in 1..Len(inodes) : inodes'[j] = inodes[j]
    BY <1>1, AppendProperties
  <1>3. \A k \in Names : names'[k] = IF k = F THEN Len(inodes) + 1 ELSE names[k]
    BY <1>1, <1>2
  <1>4. \A k \in Names : names[k] \in 0..Len(inodes) /\ names[k] # Len(inodes) + 1
    BY <1>1
  <1>5. Adjacent'
    <2> SUFFICES ASSUME NEW x \in Names, NEW y \in Names, NEW z \in Names,
                        x < y, y < z, names'[x] = names'[z], names'[x] # None
                 PROVE  names'[y] \in {None, names'[x]}
      BY DEF Adjacent
    <2>1. y # F /\ z # F
      BY <1>1
    <2>2. x # F
      BY <1>3, <1>4, <2>1
    <2> QED  BY <1>3, <2>1, <2>2 DEF Adjacent
  <1>6. ASSUME NEW k \in Names
        PROVE  /\ names'[k] = None \/ Twin(k)' => Files'[k] = << >>
               /\ names'[k] # None /\ ~Twin(k)' => Files'[k] = inodes'[names'[k]]
    BY <1>6 DEF Files, File, Twin
  <1>7. ASSUME NEW k \in Names  PROVE  Files'[k] = Files[k]
    <2>1. CASE k = F
      <3>1. Files[F] = << >>
        BY <1>1, FileCases
      <3>2. inodes'[names'[F]] = << >>
        BY <1>1, <1>2, <1>3
      <3> QED  BY <1>6, <2>1, <3>1, <3>2
    <2>2. CASE k # F
      <3>1. names'[k] = names[k] /\ \A j \in Names : j > k => names'[j] = names[j]
        BY <1>1, <1>3, <2>2
      <3>2. Twin(k)' <=> Twin(k)
        BY <3>1 DEF Twin
      <3>3. names[k] # None => inodes'[names[k]] = inodes[names[k]]
        BY <1>1, <1>2
      <3> QED  BY <1>6, <3>1, <3>2, <3>3, FileCases
    <2> QED  BY <2>1, <2>2
  <1>8. Files' = Files
    BY <1>7 DEF Files
  <1> QED  BY <1>5, <1>8, KeptSame DEF Latest

\* Every step keeps Rotation, and the end of what was written.
LEMMA RotationStep ==
  ASSUME TypeOK, OpenFile, Rotation, ~meddled => Latest, [Next]_vars
  PROVE  Rotation' /\ (~meddled' => Latest')
  <1> USE SyslogdAssumption
  <1> SUFFICES ASSUME ~meddled'  PROVE  Rotation' /\ Latest'
    BY DEF Rotation
  <1>0. ~meddled
    BY DEF Next, Step, ReadEmpty, Read, Log, Open, OpenFails, Rotate, Shift, Unlink, Write, Local,
           Tick, AdminDeletes, DirFails, DirRepaired, Crash, Send, vars, env
  <1>1. /\ dir /\ Adjacent /\ Latest
        /\ pc = "shift" /\ i < logFileRotate - 1 => names[i] \in {None, names[i + 1]}
        /\ pc = "unlink" /\ logFileRotate > 0 => names[F] \in {None, names[0]}
        /\ fd # None /\ pc \notin {"shift", "unlink"} => names[F] = fd
    BY <1>0 DEF Rotation
  <1>2. ASSUME UNCHANGED <<names, inodes, written>>, dir',
               pc' = "shift" => i' = logFileRotate - 1,
               pc' = "unlink" => logFileRotate = 0,
               fd' # None /\ pc' \notin {"shift", "unlink"} => names[F] = fd'
        PROVE  Rotation' /\ Latest'
    <2>1. Adjacent' /\ Latest'
      BY <1>1, <1>2, QuietStep
    <2> QED  BY <1>2, <2>1 DEF Rotation
  <1>3. ASSUME UNCHANGED <<names, inodes, written, pc, i, fd>>, dir'
        PROVE  Rotation' /\ Latest'
    <2>1. Adjacent' /\ Latest'
      BY <1>1, <1>3, QuietStep
    <2> QED  BY <1>1, <1>3, <2>1 DEF Rotation
  <1>4. ASSUME NEW t \in Texts \cup {Empty}, Send(t)  PROVE  Rotation' /\ Latest'
    BY <1>1, <1>3, <1>4 DEF Send, disk, env
  <1>5. CASE Tick \/ DirFails \/ DirRepaired \/ UNCHANGED vars
    BY <1>1, <1>3, <1>5 DEF Tick, DirFails, DirRepaired, vars, disk, env
  <1>6. CASE AdminDeletes
    BY <1>6 DEF AdminDeletes
  <1>7. CASE ReadEmpty \/ Read
    <2>1. UNCHANGED <<names, inodes, written, dir, fd>> /\ pc' \in {"read", "log"} /\ pc = "read"
      BY <1>7 DEF ReadEmpty, Read, disk, env
    <2> QED  BY <1>1, <1>2, <2>1
  <1>8. CASE Log
    <2>1. /\ UNCHANGED <<names, inodes, written, dir>> /\ pc' \in {"check", "open"} /\ pc = "log"
          /\ fd' \in {fd, None}
      BY <1>8 DEF Log, Local, disk, env
    <2> QED  BY <1>1, <1>2, <2>1
  <1>9. CASE Open
    <2>1. pc' = "check" /\ dir' = dir /\ written' = written /\ fd' = names'[F]
      <3>1. F \in Names /\ names \in [Names -> 0..Len(inodes)]
        BY DEF Names, TypeOK
      <3> QED  BY <1>9, <3>1 DEF Open, Local, env
    <2>2. Adjacent' /\ Latest'
      <3>1. CASE names[F] # None
        BY <1>1, <1>9, <3>1, QuietStep DEF Open
      <3>2. CASE names[F] = None
        BY <1>1, <1>9, <3>2, CreateStep DEF Open
      <3> QED  BY <3>1, <3>2
    <2> QED  BY <1>1, <2>1, <2>2 DEF Rotation
  <1>10. CASE OpenFails
    <2>1. UNCHANGED <<names, inodes, written, dir>> /\ pc' = "read" /\ fd' = None
      BY <1>10 DEF OpenFails, Local, disk, env
    <2> QED  BY <1>1, <1>2, <2>1
  <1>11. CASE Rotate
    <2>1. UNCHANGED <<names, inodes, written, dir>> /\ i' = logFileRotate - 1
      BY <1>11 DEF Rotate, Local, disk, env
    <2>2. pc' = IF logFileRotate = 0 THEN "unlink" ELSE "shift"
      BY <1>11 DEF Rotate, Local
    <2> QED  BY <1>1, <1>2, <2>1, <2>2
  <1>12. ASSUME pc = "shift", names[i - 1] # None, names[i - 1] # names[i],
                UNCHANGED <<inodes, written>>, NEW c \in {None, names[i - 1]},
                names' = [names EXCEPT ![i] = names[i - 1], ![i - 1] = c]
         PROVE  Adjacent' /\ Latest'
    <2>1. i \in 0..(logFileRotate - 1)
      BY <1>12 DEF OpenFile
    <2> QED  BY <1>1, <1>12, <2>1, MoveStep
  <1>13. CASE Shift
    <2>1. /\ pc = "shift" /\ i \in 0..(logFileRotate - 1) /\ i - 1 \in Names /\ i \in Names
          /\ UNCHANGED <<inodes, written, dir>> /\ names \in [Names -> 0..Len(inodes)]
      BY <1>13, SMTT(30) DEF Shift, OpenFile, Local, env, Names, TypeOK
    <2>2. /\ i = 0 => pc' = "unlink" /\ i' = i
          /\ i # 0 => pc' = "shift" /\ i' = i - 1
      BY <1>13 DEF Shift, Local
    <2>3. Adjacent' /\ Latest' /\ names'[i - 1] \in {None, names'[i]}
      <3>1. CASE names[i - 1] = None \/ names[i - 1] = names[i]
        <4>1. names' = names
          BY <1>13, <3>1 DEF Shift, Renamed
        <4> QED  BY <1>1, <2>1, <3>1, <4>1, QuietStep
      <3>2. CASE ~(names[i - 1] = None \/ names[i - 1] = names[i])
        <4>1. names' = [names EXCEPT ![i] = names[i - 1], ![i - 1] = None]
          BY <1>1, <1>13, <3>2 DEF Shift, Renamed
        <4>2. names'[i - 1] = None
          BY <2>1, <4>1
        <4>3. Adjacent' /\ Latest'
          BY <1>12, <2>1, <3>2, <4>1
        <4> QED  BY <4>2, <4>3
      <3> QED  BY <3>1, <3>2
    <2>4. CASE i = 0
      BY <1>1, <2>1, <2>2, <2>3, <2>4 DEF Rotation
    <2>5. CASE i # 0
      <3>1. i - 1 + 1 = i
        BY <2>1
      <3> QED  BY <1>1, <2>1, <2>2, <2>3, <2>5, <3>1 DEF Rotation
    <2> QED  BY <2>4, <2>5
  <1>14. CASE Unlink
    <2>1. /\ pc = "unlink" /\ names' = [names EXCEPT ![F] = None] /\ fd' = None /\ pc' = "open"
          /\ UNCHANGED <<inodes, written, dir>>
      BY <1>1, <1>14 DEF Unlink, Local, env
    <2>2. Adjacent' /\ Latest'
      BY <1>1, <2>1, UnlinkStep
    <2> QED  BY <1>1, <2>1, <2>2 DEF Rotation
  <1>15. CASE Write
    <2>1. pc = "check" /\ pc' = "read" /\ UNCHANGED <<fd, names, dir>> /\ names[F] = fd
      BY <1>1, <1>15 DEF Write, Local, env, OpenFile
    <2>2. CASE UNCHANGED <<inodes, written, size>>
      BY <1>1, <1>2, <2>1, <2>2
    <2>3. CASE inodes' = [inodes EXCEPT ![fd] = Append(@, msg)] /\ written' = Append(written, msg)
      <3>1. Latest'
        BY <1>1, <2>1, <2>3, WriteStep
      <3>2. Adjacent'
        BY <1>1, <2>1 DEF Adjacent
      <3> QED  BY <1>1, <2>1, <3>1, <3>2 DEF Rotation
    <2> QED  BY <1>15, <2>2, <2>3 DEF Write
  <1>16. CASE Crash
    <2>1. UNCHANGED <<inodes, written, dir>> /\ pc' = "read" /\ fd' = None
      BY <1>16 DEF Crash
    <2>2. CASE names' = names
      BY <1>1, <1>2, <2>1, <2>2
    <2>3. CASE pc = "shift" /\ names[i - 1] # None /\ names' = [names EXCEPT ![i] = names[i - 1]]
      <3>1. /\ i - 1 \in Names /\ i \in Names /\ i # i - 1
            /\ names \in [Names -> 0..Len(inodes)]
        BY <2>3, SMTT(30) DEF OpenFile, Names, TypeOK
      <3>2. CASE names[i - 1] = names[i]
        <4>1. names' = names
          BY <2>3, <3>1, <3>2
        <4> QED  BY <1>1, <1>2, <2>1, <4>1
      <3>3. CASE names[i - 1] # names[i]
        <4>1. names' = [names EXCEPT ![i] = names[i - 1], ![i - 1] = names[i - 1]]
          BY <2>3, <3>1
        <4>2. Adjacent' /\ Latest'
          BY <1>12, <2>1, <2>3, <3>3, <4>1
        <4> QED  BY <1>1, <2>1, <4>2 DEF Rotation
      <3> QED  BY <3>2, <3>3
    <2> QED  BY <1>16, <2>2, <2>3 DEF Crash
  <1> QED  BY <1>4, <1>5, <1>6, <1>7, <1>8, <1>9, <1>10, <1>11, <1>13, <1>14, <1>15, <1>16
           DEF Next, Step

\* The old files that syslogd finds hold no more than what was written.
LEMMA LatestInit == Init => Rotation /\ Latest
  <1> SUFFICES ASSUME Init  PROVE  Rotation /\ Latest
    OBVIOUS
  <1> USE SyslogdAssumption
  <1> DEFINE c == logFileSize + 1
             top == logFileRotate - 1
             S == 0..0
  <1>1. PICK k \in 0..logFileRotate :
          /\ names = [n \in Names |-> IF n \in 0..(k - 1) THEN n + 1 ELSE None]
          /\ inodes = [j \in 1..k |-> Older(c)]
          /\ written = Older(k * c)
    BY DEF Init
  <1>2. c \in Nat /\ k \in Nat /\ k * c \in Nat /\ F \in Names /\ top \in Names /\ \A n \in Names : n \in Int
    BY DEF Names
  <1>3. ASSUME NEW n \in Nat
        PROVE  Older(n) \in Seq(S) /\ Len(Older(n)) = n
    <2>1. Older(n) \in [1..n -> S]
      BY DEF Older
    <2> QED  BY <2>1, SeqDef DEF Older
  <1> HIDE DEF c
  <1>4. Older(c) \in Seq(S) /\ Len(Older(c)) = c /\ written \in Seq(S) /\ Len(written) = k * c
    BY <1>1, <1>2, <1>3
  <1>5. ASSUME NEW n \in Names
        PROVE  Files[n] \in Seq(S) /\ Len(Files[n]) = IF n \in 0..(k - 1) THEN c ELSE 0
    <2>1. CASE n \in 0..(k - 1)
      <3>1. names[n] = n + 1 /\ names[n] # None /\ n + 1 \in 1..k
        BY <1>1, <1>2, <2>1
      <3>2. ~Twin(n)
        BY <1>1, <1>2, <3>1 DEF Twin
      <3>3. Files[n] = Older(c)
        BY <1>1, <3>1, <3>2, FileCases
      <3> QED  BY <1>4, <2>1, <3>3
    <2>2. CASE n \notin 0..(k - 1)
      <3>1. names[n] = None
        BY <1>1, <2>2
      <3>2. Files[n] = << >>
        BY <3>1, FileCases
      <3> QED  BY <2>2, <3>2
    <2> QED  BY <2>1, <2>2
  <1>6. Files \in [Names -> Seq(S)]
    BY <1>5 DEF Files
  <1> DEFINE J == Joined(Files)
             Upto(n) == IF n < k THEN n * c ELSE k * c
             Good == {n \in Nat : \A b \in Names : b + 1 = n => Len(J[b]) <= Upto(n)}
  <1>7. /\ J \in [Names -> Seq(S)] /\ J[F] = Files[F]
        /\ \A b \in Names : b # F => J[b] = Files[b] \o J[b - 1]
    BY <1>6, JoinedDef
  <1> HIDE DEF J
  <1>8. 0 \in Good
    <2>1. Len(J[F]) = 0
      <3>1. F \notin 0..(k - 1)
        BY <1>2
      <3>2. Len(Files[F]) = 0
        BY <1>2, <1>5, <3>1
      <3> QED  BY <1>7, <3>2
    <2>2. 0 <= Upto(0)
      BY <1>2
    <2> QED  BY <1>2, <2>1, <2>2
  <1>9. ASSUME NEW n \in Good  PROVE  n + 1 \in Good
    <2> SUFFICES ASSUME NEW b \in Names, b + 1 = n + 1  PROVE  Len(J[b]) <= Upto(n + 1)
      OBVIOUS
    <2>1. b = n /\ b # F /\ b - 1 \in Names /\ (b - 1) + 1 = n
      BY <1>2 DEF Names
    <2>2. Len(J[b - 1]) <= Upto(n) /\ J[b - 1] \in Seq(S) /\ Len(J[b - 1]) \in Nat
      BY <1>7, <2>1, LenProperties
    <2>3. Len(J[b]) = Len(Files[b]) + Len(J[b - 1])
      <3>1. Files[b] \in Seq(S) /\ J[b] = Files[b] \o J[b - 1]
        BY <1>5, <1>7, <2>1
      <3>2. Len(Files[b] \o J[b - 1]) = Len(Files[b]) + Len(J[b - 1])
        BY <2>2, <3>1, ConcatProperties
      <3> QED  BY <3>1, <3>2
    <2>4. Len(Files[b]) = IF n < k THEN c ELSE 0
      BY <1>2, <1>5, <2>1
    <2>5. (n + 1) * c = n * c + c /\ n * c \in Nat
      BY <1>2, <2>1
    <2>6. n < k => Upto(n + 1) = Upto(n) + c
      <3>1. CASE n + 1 < k
        BY <1>2, <2>1, <2>5, <3>1
      <3>2. CASE n + 1 = k
        BY <1>2, <2>1, <2>5, <3>2
      <3> QED  BY <1>2, <2>1, <3>1, <3>2
    <2>7. ~(n < k) => Upto(n + 1) = Upto(n)
      BY <1>2, <2>1
    <2>8. Upto(n) \in Nat
      BY <1>2, <2>5
    <2> HIDE DEF Upto
    <2>9. CASE n < k
      BY <1>2, <2>2, <2>3, <2>4, <2>6, <2>8, <2>9
    <2>10. CASE ~(n < k)
      BY <2>2, <2>3, <2>4, <2>7, <2>8, <2>10
    <2> QED  BY <2>9, <2>10
  <1>10. Len(J[top]) <= k * c /\ J[top] \in Seq(S)
    <2>1. Good \in SUBSET Nat /\ top + 1 \in Nat
      OBVIOUS
    <2>2. top + 1 \in Good
      <3> HIDE DEF Good
      <3> QED  BY <1>8, <1>9, <2>1, Induction
    <2>3. Len(J[top]) <= Upto(top + 1)
      BY <1>2, <2>2
    <2>4. ~(top + 1 < k)
      OBVIOUS
    <2> QED  BY <1>2, <1>7, <2>3, <2>4
  <1>11. IsSuffix(J[top], written)
    <2> DEFINE w == written
               t == J[top]
               n == Len(w)
               l == n - Len(t)
    <2>1. w \in Seq(S) /\ t \in Seq(S) /\ n \in Nat /\ Len(t) \in Nat /\ l \in 0..n /\ n - l = Len(t)
      <3>1. w \in Seq(S) /\ t \in Seq(S) /\ Len(t) <= n
        BY <1>4, <1>10
      <3>2. n \in Nat /\ Len(t) \in Nat
        BY <3>1, LenProperties
      <3> HIDE DEF w, t, n
      <3> QED  BY <3>1, <3>2
    <2>2. (\A j \in 1..n : w[j] = 0) /\ (\A j \in 1..Len(t) : t[j] = 0)
      <3>1. (\A j \in 1..n : w[j] \in S) /\ (\A j \in 1..Len(t) : t[j] \in S)
        BY <2>1, ElementOfSeq
      <3> QED  BY <3>1
    <2> HIDE DEF w, t, n, l
    <2>3. /\ SubSeq(w, l + 1, n) \in Seq(S) /\ Len(SubSeq(w, l + 1, n)) = Len(t)
          /\ \A j \in 1..Len(t) : SubSeq(w, l + 1, n)[j] = 0
      BY <2>1, <2>2
    <2>4. t = SubSeq(w, l + 1, n)
      BY <2>1, <2>2, <2>3, SeqEqual
    <2> QED  BY <2>1, <2>4 DEF IsSuffix, w, t, n
  <1>12. Latest
    BY <1>11, KeptDef DEF Latest, J
  <1>13. Rotation
    <2>1. \A x, y \in Names : x # y /\ names[x] = names[y] => names[x] = None
      BY <1>1, <1>2
    <2>2. Adjacent
      BY <1>2, <2>1 DEF Adjacent
    <2> QED  BY <2>2 DEF Rotation, Init
  <1> QED  BY <1>12, <1>13

\* log_locally(): whatever failure interrupts the rotation at any of its steps,
\* the files hold the latest messages, in order and without a gap, for every -b
\* and -s and however often that happens.
THEOREM LatestKept == Spec => []KeepsLatest
  <1>1. Init => Rotation /\ (~meddled => Latest)
    BY LatestInit
  <1>2. Inv /\ Rotation /\ (~meddled => Latest) /\ [Next]_vars => (Rotation /\ (~meddled => Latest))'
    BY RotationStep DEF Inv
  <1>3. (~meddled => Latest) => KeepsLatest
    BY DEF Latest, IsSuffix, KeepsLatest
  <1> QED  BY <1>1, <1>2, <1>3, InvCorrect, PTL DEF Spec
=============================================================================
