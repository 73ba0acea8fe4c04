------------------------------ MODULE Syslogd ------------------------------
(***************************************************************************)
(* sysklogd/syslogd.c: the main loop, which drops repeated messages (-D),  *)
(* and log_locally(), which appends to the log file F and rotates it to    *)
(* F.0, F.1, ... when it has grown too large.                              *)
(*                                                                         *)
(* A message is one unit long.  Files are inodes with names, so that an    *)
(* open file survives its name, and so that a rename which was interrupted *)
(* can leave two names for one inode, which the code provides for.         *)
(***************************************************************************)
EXTENDS Integers, Sequences, FiniteSets

CONSTANTS
  Texts,          \* what programs log
  MaxMsgs,        \* bound: messages sent
  MaxCrashes,     \* bound: kills
  logFileSize,    \* -s: F is rotated when it is longer
  logFileRotate,  \* -b: how many old files are kept
  Dup,            \* -D
  Faults          \* what may happen: "open", "write", "dir", "admin"

ASSUME SyslogdAssumption ==
  /\ MaxMsgs \in Nat /\ MaxCrashes \in Nat
  /\ logFileSize \in Nat \ {0} /\ logFileRotate \in Nat
  /\ Dup \in BOOLEAN /\ Faults \subseteq {"open", "write", "dir", "admin"}

F == -1                                \* the name of the log file
Names == F..(logFileRotate - 1)        \* and F.0, F.1, ...
None == 0                              \* no file, nothing open
Empty == "empty"                       \* a datagram of newlines and NULs

VARIABLES
  sent,     \* texts sent to /dev/log, ever
  queue,    \* the numbers of those that wait in the socket
  buf,      \* the two halves of G.recvbuf: a text, or Empty at the start
  half,     \* which half recvbuf is
  last_sz,  \* FALSE: -1, nothing was received yet
  msg,      \* the number of the message that is being logged
  pc,       \* where syslogd is
  i,        \* the index in the rotation loop
  fd,       \* the inode that is open
  size,     \* log_file->size
  recent,   \* last_log_time is the current second
  names,    \* which inode a name stands for
  inodes,   \* the contents of the inodes: numbers of messages
  written,  \* all messages written, in order
  dir,      \* whether the log directory can be written to
  meddled,  \* it could not at some time, or an administrator removed files
  crashes

net == <<sent, queue>>
recv == <<buf, half, last_sz>>
disk == <<names, inodes, written>>
env == <<dir, meddled, crashes>>
vars == <<net, recv, msg, pc, i, fd, size, recent, disk, env>>

Older(n) == [l \in 1..n |-> 0]       \* messages from before syslogd's start

\* Some old files, F.0 to F.(k-1), may be there from earlier.
Init ==
  /\ sent = << >> /\ queue = << >>
  /\ buf = <<Empty, Empty>> /\ half = 1 /\ last_sz = FALSE
  /\ msg = 0 /\ pc = "read" /\ i = 0
  /\ fd = None /\ size = 0 /\ recent = FALSE
  /\ \E k \in 0..logFileRotate :
       /\ names = [n \in Names |-> IF n \in 0..(k - 1) THEN n + 1 ELSE None]
       /\ inodes = [j \in 1..k |-> Older(logFileSize + 1)]
       /\ written = Older(k * (logFileSize + 1))
  /\ dir = TRUE /\ meddled = FALSE /\ crashes = 0

-----------------------------------------------------------------------------
(* The environment.                                                        *)
Send(t) ==
  /\ Len(sent) < MaxMsgs
  /\ sent' = Append(sent, t)
  /\ queue' = Append(queue, Len(sent) + 1)
  /\ UNCHANGED <<recv, msg, pc, i, fd, size, recent, disk, env>>

\* The next second begins.
Tick ==
  /\ recent /\ recent' = FALSE
  /\ UNCHANGED <<net, recv, msg, pc, i, fd, size, disk, env>>

\* "This allows admin to delete the files and not worry about restarting us."
AdminDeletes ==
  /\ "admin" \in Faults /\ names[F] # None
  /\ names' = [names EXCEPT ![F] = None]
  /\ meddled' = TRUE
  /\ UNCHANGED <<net, recv, msg, pc, i, fd, size, recent, inodes, written, dir, crashes>>

\* The directory becomes read-only (once), and writable again.
DirFails ==
  /\ "dir" \in Faults /\ dir /\ ~meddled
  /\ dir' = FALSE /\ meddled' = TRUE
  /\ UNCHANGED <<net, recv, msg, pc, i, fd, size, recent, disk, crashes>>

DirRepaired ==
  /\ ~dir /\ dir' = TRUE
  /\ UNCHANGED <<net, recv, msg, pc, i, fd, size, recent, disk, meddled, crashes>>

-----------------------------------------------------------------------------
(* The main loop.                                                          *)
\* Mutant of Other: the second half is not followed by the first.
Other_Next(h) == h + 1
Other(h) == 3 - h
Text(m) == sent[m]

\* Nothing is left once trailing newlines and NULs are dropped: read again,
\* into the same half.
ReadEmpty ==
  /\ pc = "read" /\ queue # << >> /\ Text(Head(queue)) = Empty
  /\ buf' = [buf EXCEPT ![Other(half)] = Empty]
  /\ queue' = Tail(queue)
  /\ UNCHANGED <<sent, half, last_sz, msg, pc, i, fd, size, recent, disk, env>>

\* Mutant of Repeated: the halves are compared the wrong way round.
Repeated_Own(t) == Dup /\ last_sz /\ buf[Other(half)] = t
Repeated(t) == Dup /\ last_sz /\ buf[half] = t

\* The message goes to the other half than the last one.  If it repeats that
\* one it is dropped.  A loop that ends here swaps the halves nevertheless.
Read ==
  /\ pc = "read" /\ queue # << >> /\ Text(Head(queue)) # Empty
  /\ queue' = Tail(queue)
  /\ half' = Other(half)
  /\ buf' = [buf EXCEPT ![half'] = Text(Head(queue))]
  /\ IF Repeated(Text(Head(queue)))
     THEN UNCHANGED <<last_sz, msg, pc>>
     ELSE last_sz' = TRUE /\ msg' = Head(queue) /\ pc' = "log"
  /\ UNCHANGED <<sent, i, fd, size, recent, disk, env>>

-----------------------------------------------------------------------------
(* log_locally().                                                          *)
Local(l) ==
  /\ pc' = l
  /\ UNCHANGED <<net, recv, msg, env>>

\* The file is opened at first, and again in every second.
Log ==
  /\ pc = "log"
  /\ IF fd # None /\ recent
     THEN Local("check") /\ UNCHANGED <<fd, recent>>
     ELSE Local("open") /\ fd' = None /\ recent' = (IF fd = None THEN recent ELSE TRUE)
  /\ UNCHANGED <<i, size, disk>>

\* reopen: the file is created if its name is gone and the directory allows it.
Open ==
  /\ pc = "open" /\ (names[F] # None \/ dir)
  /\ IF names[F] # None THEN UNCHANGED <<names, inodes>> /\ fd' = names[F]
     ELSE /\ inodes' = Append(inodes, << >>)
          /\ names' = [names EXCEPT ![F] = Len(inodes')]
          /\ fd' = Len(inodes')
  /\ size' = Len(inodes'[fd'])
  /\ Local("check")
  /\ UNCHANGED <<i, recent, written>>

\* The message goes to the console instead.
OpenFails ==
  /\ pc = "open" /\ ("open" \in Faults \/ (names[F] = None /\ ~dir))
  /\ Local("read")
  /\ fd' = None
  /\ UNCHANGED <<i, size, recent, disk>>

TooLarge == size > logFileSize

Rotate ==
  /\ pc = "check" /\ TooLarge
  /\ i' = logFileRotate - 1
  /\ Local(IF logFileRotate = 0 THEN "unlink" ELSE "shift")
  /\ UNCHANGED <<fd, size, recent, disk>>

\* Mutant of Renamed: a call that does not replace the file of the new name.
Renamed_Keep(a, b) ==
  IF names[a] = None \/ names[b] # None \/ ~dir THEN names
  ELSE [names EXCEPT ![b] = names[a], ![a] = None]

\* rename(): nothing happens if there is no such file, if the directory cannot
\* be written to, or if both names stand for one inode: the old name stays.
Renamed(a, b) ==
  IF names[a] = None \/ names[a] = names[b] \/ ~dir THEN names
  ELSE [names EXCEPT ![b] = names[a], ![a] = None]

\* One rename of the loop, F.(i-1) to F.i; F goes to F.0 at the end.
Shift ==
  /\ pc = "shift"
  /\ names' = Renamed(i - 1, i)
  /\ IF i = 0 THEN Local("unlink") /\ UNCHANGED i
              ELSE Local("shift") /\ i' = i - 1
  /\ UNCHANGED <<fd, size, recent, inodes, written>>

\* Mutant of Unlink: goes on without opening the new file.
Unlink_NoReopen ==
  /\ pc = "unlink"
  /\ names' = IF dir THEN [names EXCEPT ![F] = None] ELSE names
  /\ Local("check")
  /\ UNCHANGED <<i, fd, size, recent, inodes, written>>

\* unlink(), whose result is ignored.
Unlink ==
  /\ pc = "unlink"
  /\ names' = IF dir THEN [names EXCEPT ![F] = None] ELSE names
  /\ fd' = None
  /\ Local("open")
  /\ UNCHANGED <<i, size, recent, inodes, written>>

\* Mutant of Write: the size is not kept up to date.
Write_NoSize ==
  /\ pc = "check" /\ ~TooLarge
  /\ inodes' = [inodes EXCEPT ![fd] = Append(@, msg)]
  /\ written' = Append(written, msg)
  /\ Local("read")
  /\ UNCHANGED <<i, fd, size, recent, names>>

Write ==
  /\ pc = "check" /\ ~TooLarge
  /\ \/ /\ inodes' = [inodes EXCEPT ![fd] = Append(@, msg)]
        /\ written' = Append(written, msg)
        /\ size' = size + 1
     \/ "write" \in Faults /\ UNCHANGED <<inodes, written, size>>
  /\ Local("read")
  /\ UNCHANGED <<i, fd, recent, names>>

\* syslogd is killed and starts again.  What waits in the socket is lost.  What
\* was written and renamed stays: the code never calls fsync(), so this is less
\* than a power failure may do.  Of that, there is the case that the code speaks
\* of: a rename under way has made the new name only.
Crash ==
  /\ crashes < MaxCrashes
  /\ crashes' = crashes + 1
  /\ \/ UNCHANGED names
     \/ pc = "shift" /\ dir /\ names[i - 1] # None /\ names' = [names EXCEPT ![i] = names[i - 1]]
  /\ queue' = << >> /\ buf' = <<Empty, Empty>> /\ half' = 1 /\ last_sz' = FALSE
  /\ msg' = 0 /\ pc' = "read" /\ i' = 0 /\ fd' = None /\ size' = 0 /\ recent' = FALSE
  /\ UNCHANGED <<sent, inodes, written, dir, meddled>>

Step ==
  \/ ReadEmpty \/ Read \/ Log \/ Open \/ OpenFails \/ Rotate \/ Shift \/ Unlink
  \/ Write

Next ==
  \/ Step \/ Tick \/ AdminDeletes \/ DirFails \/ DirRepaired \/ Crash
  \/ \E t \in Texts \cup {Empty} : Send(t)

Spec == Init /\ [][Next]_vars

\* syslogd runs.  A directory need not ever be repaired; where it is, the
\* second specification says so.
FairSpec == Spec /\ WF_vars(Step)
RepairSpec == FairSpec /\ WF_vars(DirRepaired)

-----------------------------------------------------------------------------
\* The types of do_syslogd()'s and log_locally()'s state, and of the files.
TypeOK ==
  /\ sent \in Seq(Texts \cup {Empty}) /\ queue \in Seq(1..Len(sent))
  /\ buf \in [1..2 -> Texts \cup {Empty}] /\ half \in 1..2 /\ last_sz \in BOOLEAN
  /\ msg \in 0..Len(sent)
  /\ pc \in {"read", "log", "open", "check", "shift", "unlink"}
  /\ i \in -1..logFileRotate
  /\ fd \in 0..Len(inodes) /\ size \in Nat /\ recent \in BOOLEAN
  /\ names \in [Names -> 0..Len(inodes)]
  /\ inodes \in Seq(Seq(0..Len(sent))) /\ written \in Seq(0..Len(sent))
  /\ dir \in BOOLEAN /\ meddled \in BOOLEAN /\ crashes \in 0..MaxCrashes

\* What a file adds to the log; one with two names counts once, as the older.
File(k) ==
  IF names[k] = None \/ \E j \in Names : j > k /\ names[j] = names[k]
  THEN << >> ELSE inodes[names[k]]

\* The sequences f[k], f[k - 1], ..., f[F] one after the other.
Joined(f) ==
  LET joined[k \in Names] == IF k = F THEN f[k] ELSE f[k] \o joined[k - 1]
  IN  joined

\* The messages in all files, oldest first.
Kept == Joined([k \in Names |-> File(k)])[logFileRotate - 1]

\* Wherever a rotation is interrupted, also where that leaves a file with two
\* names: the files together hold the latest messages written, in
\* order and without a gap, if nobody else meddled with the directory.
KeepsLatest ==
  ~meddled =>
  \E k \in 0..Len(written) : Kept = SubSeq(written, k + 1, Len(written))

\* No file outgrows -s by more than a message, also if syslogd is restarted,
\* or if files are removed behind its back.
SizeBounded ==
  \A n \in Names : names[n] # None => Len(inodes[names[n]]) <= logFileSize + 1

Previous(m) == {k \in 1..(m - 1) : Text(k) # Empty}

\* -D drops a message only if it equals the one received before it, empty ones
\* not counting; the two halves of the buffer never mix that up.
DropsOnlyRepeats ==
  [][pc = "read" /\ Len(queue') < Len(queue) /\ pc' = "read" /\ crashes' = crashes
       => LET m == Head(queue)
          IN  \/ Text(m) = Empty
              \/ \E k \in Previous(m) : /\ \A l \in Previous(m) : l <= k
                                        /\ Text(k) = Text(m)]_vars

\* A message that was read is dealt with: rotation ends, and the message is
\* in a file or on the console.
LogReturns == (pc # "read") ~> (pc = "read")
=============================================================================
